------------------------------ MODULE AgentRun ------------------------------
(***************************************************************************)
(* One request of S13Runtime.run (s13code/runtime.py): the live graph      *)
(* driven by the DeterministicPlanner, whose patch is a function of the    *)
(* request's mode, the current graph and the event it is asked about.      *)
(*                                                                         *)
(* The planner never suspends, so that Patches of LiveGraph is not used.   *)
(* A prompt is its mode and whether it asks to remember something; what a  *)
(* worker found is a set of items.  Lists the prompt or a worker supplies  *)
(* (URLs, entities, files, hits) hold two items: Items bounds them.        *)
(***************************************************************************)
EXTENDS LiveGraph

CONSTANT Requests   \* the [mode, explicit] pairs to serve

Modes == {"index_directory", "index_file", "read_file", "birthday_reminder", "fetch",
          "search_fetch", "compose_research", "compose_answer", "structured_compare",
          "parallel_search", "memory"}

ASSUME RequestsAssumption == Requests \subseteq [mode : Modes, explicit : BOOLEAN]

VARIABLES request,  \* what _work_intent made of the prompt
          found     \* per succeeded task, the items its payload lists

agentVars == <<vars, request, found>>

Items == 1..2

(* Node ids, numbered in the order of their names.                         *)
Answer        == 1
Content       == 2
Distill       == 3
Fetch(i)      == 3 + i
IndexDoc(i)   == 5 + i
IndexFile     == 8
ListDirectory == 9
ReadFile      == 10
Recall        == 11
Remember      == 12
Reminder      == 13
Retry(i)      == 13 + i
Search        == 16
SearchFor(i)  == 16 + i
Surface       == 19
Validate      == 20

NodeIds == 1..20

ASSUME NodesAssumption == Tasks = NodeIds

Fetches   == {Fetch(i) : i \in Items}
IndexDocs == {IndexDoc(i) : i \in Items}
Searches  == {SearchFor(i) : i \in Items}
Retries   == {Retry(i) : i \in Items}

(* What a succeeded task may have found.  Item 0 stands for search hits    *)
(* none of which has a link.                                               *)
Lists == {{}, {1}, {1, 2}}
Hits == {{}, {0}, {1}, {1, 2}}

(* A researcher has hits or none, be it for the demo's sake; what a retry  *)
(* found the planner does not ask.                                         *)
Researches == {{}, {1}}

Findings(t) ==
  CASE t = ListDirectory -> Lists
    [] t = Search        -> Hits
    [] t \in Searches    -> Researches
    [] OTHER             -> {{}}

-----------------------------------------------------------------------------
(* The planner.                                                            *)

NoPatch == [add |-> {}, connect |-> {}, cancel |-> {}, wait |-> {}, resume |-> {},
            finish |-> FALSE]
FinishPatch == [NoPatch EXCEPT !.finish = TRUE]

(* Add the tasks S, each connected from all of parents.                    *)
AddAfter(S, parents) == [NoPatch EXCEPT !.add = S, !.connect = parents \X S]

(* Mutant: only a success lands.                                           *)
AllSucceeded(S) == \A t \in S : state[t] = "succeeded"

AllLanded(S) == \A t \in S : state[t] \in Terminal

(* Mutant: an answer node is added again.                                  *)
AnswerAgainPatch == AddAfter({Answer}, {t \in Nodes : state[t] = "succeeded"})

AnswerPatch ==
  IF Answer \in Nodes THEN NoPatch
  ELSE AddAfter({Answer}, {t \in Nodes : state[t] = "succeeded"})

(* Mutant: the weak original stays the leaf.                               *)
OriginalLeaves == Searches \cap Nodes

(* One leaf per subject: a retry supersedes the node it corrects.          *)
ResearchLeaves ==
  (Retries \cap Nodes) \cup {SearchFor(i) : i \in {j \in Items : /\ SearchFor(j) \in Nodes
                                                                 /\ Retry(j) \notin Nodes}}

InitialFrontier ==
  LET m == request.mode
  IN CASE m = "index_directory"  -> {ListDirectory}
       [] m = "index_file"       -> {IndexFile}
       [] m = "read_file"        -> {ReadFile}
       [] m = "fetch"            -> Fetches
       [] m = "search_fetch"     -> {Search}
       [] m = "compose_answer"   -> {Content}
       [] m \in {"compose_research", "structured_compare", "parallel_search"} -> Searches
       [] m \in {"birthday_reminder", "memory"} -> {Recall}

(* Mutant: remember replaces the frontier.                                 *)
FirstPatchRemembers == AddAfter(IF request.explicit THEN {Remember} ELSE InitialFrontier, {})

FirstPatch == AddAfter(InitialFrontier \cup (IF request.explicit THEN {Remember} ELSE {}), {})

(* A weak outcome earns one corrective retry; synthesis waits for the rest,*)
(* and is connected from every leaf, also from one that failed.            *)
ResearchPatch(t, ok) ==
  LET corrected == {i \in Items : ok /\ t = SearchFor(i) /\ found[t] = {} /\ Retry(i) \notin Nodes}
  IN IF corrected # {} THEN AddAfter({Retry(i) : i \in corrected}, {})
     ELSE IF Distill \notin Nodes /\ AllLanded(ResearchLeaves)
          THEN AddAfter({Distill}, ResearchLeaves)
          ELSE NoPatch

(* All fetches or searches of the frontier landed: synthesise, then answer.*)
FrontierPatch ==
  IF request.mode \in {"fetch", "search_fetch", "parallel_search", "structured_compare"}
       /\ Distill \notin Nodes
  THEN AddAfter({Distill}, IF Searches \cap Nodes # {} THEN Searches \cap Nodes
                           ELSE Fetches \cap Nodes)
  ELSE AnswerPatch

(* The planner's rules for the outcome of t: <<condition, patch>> pairs of *)
(* which the first whose condition holds decides.                          *)
OutcomeRules(t, ok) ==
  LET m == request.mode
      frontier == (Fetches \cup Searches) \cap Nodes
  IN <<
    <<m \in {"compose_answer", "compose_research"} /\ t = Surface, FinishPatch>>,
    <<m = "compose_answer" /\ t = Content /\ ok /\ Surface \notin Nodes,
      AddAfter({Surface}, {Content})>>,
    <<m = "compose_answer" /\ t = Content /\ ~ok, FinishPatch>>,
    <<m = "compose_research" /\ t = Distill /\ ok /\ Surface \notin Nodes,
      AddAfter({Surface}, ResearchLeaves \cup {Distill})>>,
    <<m = "compose_research" /\ t \in Searches \cup Retries, ResearchPatch(t, ok)>>,
    <<t = IndexFile /\ ok, AddAfter({Recall}, {IndexFile})>>,
    <<m = "birthday_reminder" /\ t = Remember /\ ok, AddAfter({Reminder}, {Remember})>>,
    <<m = "birthday_reminder" /\ t = Reminder, AnswerPatch>>,
    <<m = "birthday_reminder" /\ t = Recall, NoPatch>>,
    <<m = "read_file" /\ t = ReadFile, AnswerPatch>>,
    <<t = ListDirectory /\ ok /\ found[t] = {}, AnswerPatch>>,
    <<t = ListDirectory /\ ok, AddAfter({IndexDoc(i) : i \in found[t]}, {ListDirectory})>>,
    <<t \in IndexDocs /\ AllLanded(IndexDocs \cap Nodes), AnswerPatch>>,
    <<t = Search /\ ok /\ found[t] = {}, AnswerPatch>>,
    <<t = Search /\ ok, AddAfter({Fetch(i) : i \in found[t] \ {0}}, {Search})>>,
    <<t = Recall /\ m = "index_file" /\ Distill \notin Nodes, AddAfter({Distill}, {Recall})>>,
    <<t = Recall, AnswerPatch>>,
    <<t = Distill /\ m # "structured_compare", AnswerPatch>>,
    <<t \in frontier /\ AllLanded(frontier), FrontierPatch>>,
    <<m = "structured_compare" /\ t = Distill, AddAfter({Validate}, {Distill})>>,
    <<m = "structured_compare" /\ t = Validate, AnswerPatch>>,
    <<~ok /\ t # Answer /\ AllLanded(Nodes \ {Answer}), AnswerPatch>>,
    <<t = Answer, FinishPatch>>,
    <<TRUE, NoPatch>> >>

PlannerPatch(event) ==
  IF event.kind = "run_started" THEN FirstPatch
  ELSE LET t == CHOOSE u \in event.tasks : TRUE
           rules == OutcomeRules(t, event.kind = "task_succeeded")
       IN rules[CHOOSE n \in DOMAIN rules : rules[n][1] /\ \A k \in 1 .. n - 1 : ~rules[k][1]][2]

-----------------------------------------------------------------------------
(* The workers.                                                            *)

(* Mutant: remembering awaits something.                                   *)
ImmediateButRemember ==
  {Recall, IndexFile, ReadFile, ListDirectory, Reminder} \cup IndexDocs

(* Coroutines without an await: once launched, such a worker is done       *)
(* before any other worker that has one.                                   *)
Immediate == {Remember, Recall, IndexFile, ReadFile, ListDirectory, Reminder} \cup IndexDocs

Settled(e) == \A b \in inflight[e] : b.task \in Immediate => b.status \in DoneStatus

(* The answer worker reads remember's result and raises when that row is   *)
(* there without one, that is, when it had no outcome at the launch.       *)
ReadsMemory(a) == Remember \in Nodes => \E i \in OutcomesOf(Remember) : i < a.number

(* The graph as a worker reads it when it starts: the tasks that had       *)
(* ended.  An answer cites results and failures, a role results alone, and *)
(* the page draws every state, its own as succeeded.                       *)
Cited(a) == {t \in Nodes \ {Answer} : \E i \in OutcomesOf(t) : i < a.number}

Upstream(a) ==
  {t \in Nodes \ {a.task} :
     \E i \in OutcomesOf(t) : i < a.number /\ journal[i].kind = "task_succeeded"}

ShownUnderWay(a) ==
  {t \in Nodes \ {Surface} : ~\E i \in OutcomesOf(t) : i < a.number}

AgentWorkerEnds(e) ==
  /\ WorkerEnds(e)
  /\ \A a \in inflight'[e] \ inflight[e] :
       /\ a.status = "ok" /\ a.task = Answer => ReadsMemory(a)
       /\ a.task \notin Immediate => Settled(e)
  /\ UNCHANGED <<request, found>>

-----------------------------------------------------------------------------
(* The planner answers at once, from the graph its patch is applied to.    *)
PlannerAnswers(e) == IF pc[e] \in Planning THEN {PlannerPatch(journal[trigger[e]])} ELSE {}

(* A payload is committed with the outcome of its task.                    *)
CommitPayload ==
  LET succeeded == {t \in Tasks : state[t] = "running" /\ state'[t] = "succeeded"}
  IN \/ succeeded = {} /\ UNCHANGED found
     \/ \E t \in succeeded : \E items \in Findings(t) : found' = [found EXCEPT ![t] = items]

AgentStep(e) ==
  /\ pc[e] = "waiting" => Settled(e)
  /\ ExecutorStep(e, PlannerAnswers(e))
  /\ CommitPayload
  /\ UNCHANGED request

AgentInit ==
  /\ Init
  /\ request \in Requests
  /\ found = [t \in Tasks |-> {}]

AgentNext ==
  \/ \E e \in Executors : \/ (BeginRun(e) \/ ResumeRun(e)) /\ UNCHANGED <<request, found>>
                          \/ AgentStep(e)
                          \/ AgentWorkerEnds(e)
  \/ Crash /\ UNCHANGED <<request, found>>

AgentSpec == AgentInit /\ [][AgentNext]_agentVars

(* As in LiveGraph: workers end and the loop goes on.                      *)
AgentFairSpec ==
  AgentSpec /\ \A e \in Executors : WF_agentVars(AgentStep(e)) /\ WF_agentVars(AgentWorkerEnds(e))

-----------------------------------------------------------------------------
(* Properties of a run with one executor.                                  *)

Returned == \A e \in Executors : pc[e] = "done"

(* Whatever was replayed after a crash, and in whatever order outcomes     *)
(* came, the planner's patch fits the graph it is applied to: the rules    *)
(* never add a node twice, so that run() raises for no request.            *)
PlannerNeverRejected == \A e \in Executors : pc[e] # "aborted"

(* Synthesis has the evidence it waited for: once distill exists, every    *)
(* subject of an interface request has landed, and one whose evidence was  *)
(* weak has had its one corrective retry, which landed too.                *)
DistillHasEvidence ==
  request.mode = "compose_research" /\ Distill \in Nodes =>
    \A i \in Items :
      /\ state[SearchFor(i)] \in Terminal
      /\ state[SearchFor(i)] = "succeeded" /\ found[SearchFor(i)] = {} =>
           state[Retry(i)] \in Terminal

NothingFailed == \A t \in Tasks : state[t] # "failed"

(* A request none of whose workers failed is answered, in every mode but   *)
(* two that the rules leave hanging: a reminder whose prompt says nothing  *)
(* to remember, and a search whose hits have no link.  Some requests are   *)
(* answered whatever fails; of these a directory only when there is        *)
(* nothing to remember besides.                                            *)
RequestsAreAnswered ==
  /\ Returned
  /\ \/ /\ NothingFailed /\ found[Search] # {0}
        /\ request.mode = "birthday_reminder" => request.explicit
     \/ request.mode \in {"memory", "read_file", "compose_answer"}
     \/ request.mode = "index_directory" /\ ~request.explicit
  => finished

(* A worker misses nothing of a graph that nobody interrupts: the answer   *)
(* cites how everything ended, the stored memory included, a synthesis has *)
(* every result but what is remembered besides, and a page, which is first *)
(* seen when it is composed, shows no step that is still under way.        *)
NothingIsMissed ==
  crashes = 0 => \A e \in Executors : \A a \in inflight[e] :
    /\ a.task = Answer => Cited(a) = Nodes \ {Answer}
    /\ a.task = Surface => ShownUnderWay(a) = {}
    /\ a.task \in {Distill, Validate} =>
         \A t \in Nodes \ {a.task, Remember} : t \in Upstream(a) \/ state[t] = "failed"

(***************************************************************************)
(* A worker that puts together what others produced starts after them,     *)
(* in whatever order their outcomes arrived: the synthesis after each      *)
(* search and its corrective retry, the answer and the page after all.     *)
(***************************************************************************)
WorkersHaveTheirInputs == DistillHasEvidence /\ NothingIsMissed

(* The comment at the loop's exit: no ready local work is a finished run   *)
(* or a deliberately waiting graph.  Refuted: distill is connected from    *)
(* research that failed, and the run stops with it pending.                *)
StopIsDeliberate == Returned => finished \/ \E t \in Tasks : state[t] = "waiting"
=============================================================================
