------------------------------ MODULE RunMemory ------------------------------
(***************************************************************************)
(* What requests leave in the agent's memory and take from it              *)
(* (S13Runtime.run of s13code/runtime.py, its workers that remember,       *)
(* recall and answer, behind s13code/routes.py and main.py): memory and    *)
(* the graph are two databases, written one after the other.               *)
(*                                                                         *)
(* Workers of several runs take turns on one event loop.  A run here is    *)
(* one of mode "memory"; AgentRun has the other modes, LiveGraph how a     *)
(* node is started and recorded.  A record is its writer and what it is.   *)
(***************************************************************************)
EXTENDS Naturals, FiniteSets, Sequences, SequencesExt

CONSTANTS Prompts,      \* requests
          Explicit,     \* ... that ask to remember something
          Delegated,    \* ... that are A2A tasks, the others POST /runs
          Candidates, Kept, \* how many records are recalled, 8, and kept, 5
          MaxRuns, MaxCrashes, MaxFacts \* bounds

ASSUME RunMemoryAssumption ==
  /\ Explicit \subseteq Prompts /\ Delegated \subseteq Prompts
  /\ Candidates \in Nat /\ Kept \in Nat /\ MaxRuns \in Nat

VARIABLES rows,    \* the records, as committed
          runs,    \* the graph of each run, and what its process holds of it
          asked,   \* what became of a request
          serving, \* the process is up
          spent    \* crashes, and facts that clients stored

runVars == <<rows, runs, asked, serving, spent>>

Written(part, r) == {i \in rows : i.part = part /\ i.run = r}
Record(part, r) == [part |-> part, run |-> r, number |-> Cardinality(Written(part, r)) + 1]
NoRecord == [part |-> "none", run |-> 0, number |-> 0]

NoRun ==
  [prompt |-> "none", state |-> "none", live |-> FALSE,
   recall |-> "absent", remember |-> "absent", answer |-> "absent",
   hits |-> {}, fact |-> NoRecord, evidence |-> {}]

RunsInit ==
  /\ rows = {}
  /\ runs = [r \in 1 .. MaxRuns |-> NoRun]
  /\ asked = [q \in Prompts |-> "new"]
  /\ serving = TRUE
  /\ spent = [crashes |-> 0, facts |-> 0]

Landed(node) == node \in {"absent", "succeeded", "failed"}
Settles(node) == IF node = "done" THEN "succeeded" ELSE "failed"

----------------------------------------------------------------------------
(* A request: its prompt is stored as an episode, then its graph begins    *)
(* with what the first patch adds.                                         *)
NextRun == SelectInSeq(runs, LAMBDA g : g = NoRun)

Begun(q) ==
  [NoRun EXCEPT !.prompt = q, !.state = "open", !.live = TRUE, !.recall = "ready",
                !.remember = IF q \in Explicit THEN "ready" ELSE "absent"]

Asks(q) ==
  /\ serving /\ asked[q] \in {"new", "again"} /\ NextRun # 0
  /\ rows' = rows \cup {Record("inbound", NextRun)}
  /\ runs' = [runs EXCEPT ![NextRun] = Begun(q)]
  /\ asked' = [asked EXCEPT ![q] = "served"]
  /\ UNCHANGED <<serving, spent>>

(* The embedding of the prompt raises: a 500, or a failed task.            *)
AskRaises(q) ==
  /\ serving /\ asked[q] \in {"new", "again"}
  /\ asked' = [asked EXCEPT ![q] = "failed"]
  /\ UNCHANGED <<rows, runs, serving, spent>>

----------------------------------------------------------------------------
(* The workers.                                                            *)

(* Mutant: only the prompt itself is no evidence.                          *)
OwnPrompt(r) == Written("inbound", r)

(* What this very request wrote, in this or an earlier attempt at a node.  *)
OwnRecords(r) == {i \in rows : i.run = r}

Facts(S) == {i \in S : i.part = "fact"}
AtMost(n, S) == {T \in SUBSET S : Cardinality(T) = IF Cardinality(S) < n THEN Cardinality(S) ELSE n}

(* The best of the records, by a score; of these, facts before episodes.   *)
Hits(r) ==
  UNION {{H \in AtMost(Kept, C \ OwnRecords(r)) : Facts(C \ OwnRecords(r)) \subseteq H \/ H = Facts(H)} :
           C \in AtMost(Candidates, rows)}

Recalls(r) ==
  /\ runs[r].live /\ runs[r].recall = "ready"
  /\ \/ \E H \in Hits(r) : runs' = [runs EXCEPT ![r].recall = "done", ![r].hits = H]
     \/ runs' = [runs EXCEPT ![r].recall = "raised"]
  /\ UNCHANGED <<rows, asked, serving, spent>>

(* The planner asks for the answer, however recall ended.                  *)
RecallRecorded(r) ==
  /\ runs[r].live /\ runs[r].recall \in {"done", "raised"}
  /\ runs' = [runs EXCEPT ![r].recall = Settles(@), ![r].answer = "ready"]
  /\ UNCHANGED <<rows, asked, serving, spent>>

Remembers(r) ==
  /\ runs[r].live /\ runs[r].remember = "ready"
  /\ \/ /\ rows' = rows \cup {Record("fact", r)}
        /\ runs' = [runs EXCEPT ![r].remember = "done", ![r].fact = Record("fact", r)]
     \/ runs' = [runs EXCEPT ![r].remember = "raised"] /\ UNCHANGED rows
  /\ UNCHANGED <<asked, serving, spent>>

RememberRecorded(r) ==
  /\ runs[r].live /\ runs[r].remember \in {"done", "raised"}
  /\ runs' = [runs EXCEPT ![r].remember = Settles(@)]
  /\ UNCHANGED <<rows, asked, serving, spent>>

(* The answer starts after everything else (AgentRun), and reads what the  *)
(* graph has of it; then the model is asked.                               *)
AnswerReads(r) ==
  /\ runs[r].live /\ runs[r].answer = "ready" /\ Landed(runs[r].remember)
  /\ runs' = [runs EXCEPT ![r].answer = "asking",
                          ![r].evidence = runs[r].hits \cup ({runs[r].fact} \ {NoRecord})]
  /\ UNCHANGED <<rows, asked, serving, spent>>

(* Mutant: the answer is not stored.                                       *)
AnswerKeptToItself(r) ==
  /\ runs[r].live /\ runs[r].answer = "asking"
  /\ runs' = [runs EXCEPT ![r].answer = "done"]
  /\ UNCHANGED <<rows, asked, serving, spent>>

AnswerWritten(r) ==
  /\ runs[r].live /\ runs[r].answer = "asking"
  /\ rows' = rows \cup {Record("answer", r)}
  /\ runs' = [runs EXCEPT ![r].answer = "done"]
  /\ UNCHANGED <<asked, serving, spent>>

(* The gateway answers with an error, or the text cannot be embedded.      *)
AnswerRaises(r) ==
  /\ runs[r].live /\ runs[r].answer = "asking"
  /\ runs' = [runs EXCEPT ![r].answer = "raised"]
  /\ UNCHANGED <<rows, asked, serving, spent>>

(* The run is finished, and reports.                                       *)
Reports(r) ==
  /\ runs[r].live /\ runs[r].answer \in {"done", "raised"}
  /\ runs' = [runs EXCEPT ![r].answer = Settles(@), ![r].state = "finished", ![r].live = FALSE]
  /\ asked' = [asked EXCEPT ![runs[r].prompt] =
                 IF @ # "served" THEN @
                 ELSE IF runs[r].answer = "done" THEN "completed" ELSE "failed"]
  /\ UNCHANGED <<rows, serving, spent>>

----------------------------------------------------------------------------
(* What had no outcome is run again when the run is resumed.               *)
Again(node) == IF node \in {"done", "raised", "asking"} THEN "ready" ELSE node

Interrupted(g) ==
  [g EXCEPT !.live = FALSE, !.recall = Again(@), !.remember = Again(@), !.answer = Again(@),
            !.hits = IF g.recall = "succeeded" THEN @ ELSE {},
            !.fact = IF g.remember = "succeeded" THEN @ ELSE NoRecord]

(* It may come between a prompt and its graph.  Open tasks are asked again *)
(* by the next process; who posted sees the connection break.              *)
ProcessDies ==
  /\ serving /\ spent.crashes < MaxCrashes
  /\ serving' = FALSE /\ spent' = [spent EXCEPT !.crashes = @ + 1]
  /\ asked' = [q \in Prompts |->
       IF asked[q] # "served" THEN asked[q] ELSE IF q \in Delegated THEN "again" ELSE "lost"]
  /\ runs' = [r \in DOMAIN runs |-> Interrupted(runs[r])]
  /\ UNCHANGED rows

DiesBeforeTheGraph(q) ==
  /\ serving /\ spent.crashes < MaxCrashes /\ asked[q] \in {"new", "again"} /\ NextRun # 0
  /\ serving' = FALSE /\ spent' = [spent EXCEPT !.crashes = @ + 1]
  /\ rows' = rows \cup {Record("inbound", NextRun)}
  /\ asked' = [p \in Prompts |->
       IF p # q /\ asked[p] # "served" THEN asked[p]
       ELSE IF p \in Delegated THEN "again" ELSE "lost"]
  /\ runs' = [[r \in DOMAIN runs |-> Interrupted(runs[r])] EXCEPT
                ![NextRun] = [NoRun EXCEPT !.prompt = q, !.state = "unknown"]]

Boots ==
  /\ ~serving /\ serving' = TRUE
  /\ UNCHANGED <<rows, runs, asked, spent>>

(* POST /runs/{id}/resume, of a run that nobody serves.                    *)
Resumes(r) ==
  /\ serving /\ runs[r].state = "open" /\ ~runs[r].live
  /\ runs' = [runs EXCEPT ![r].live = TRUE]
  /\ UNCHANGED <<rows, asked, serving, spent>>

(* POST /facts.                                                            *)
StoresFact ==
  /\ serving /\ spent.facts < MaxFacts
  /\ spent' = [spent EXCEPT !.facts = @ + 1]
  /\ rows' = rows \cup {Record("fact", 0)}
  /\ UNCHANGED <<runs, asked, serving>>

Runs(r) ==
  \/ Recalls(r) \/ RecallRecorded(r) \/ Remembers(r) \/ RememberRecorded(r)
  \/ AnswerReads(r) \/ AnswerWritten(r) \/ AnswerRaises(r) \/ Reports(r)

RunsNext ==
  \/ \E q \in Prompts : Asks(q) \/ AskRaises(q) \/ DiesBeforeTheGraph(q)
  \/ \E r \in DOMAIN runs : Runs(r) \/ Resumes(r)
  \/ ProcessDies \/ Boots \/ StoresFact

----------------------------------------------------------------------------
(* What the graph of a run says was done is in memory: its prompt, the     *)
(* fact it was asked to remember, its answer; a crash between the two      *)
(* databases loses neither, and what was told to the client stays true.    *)
ReportedIsRemembered ==
  /\ \A r \in DOMAIN runs :
       /\ runs[r].state \in {"open", "finished"} => Written("inbound", r) # {}
       /\ runs[r].remember = "succeeded" => runs[r].fact \in Written("fact", r)
       /\ runs[r].answer = "succeeded" => Written("answer", r) # {}
  /\ \A q \in Prompts : asked[q] = "completed" =>
       \E r \in DOMAIN runs : runs[r].prompt = q /\ Written("answer", r) # {}

(* A run never takes its own words for evidence, also not those an earlier *)
(* attempt at one of its nodes has left, but for the fact that it was      *)
(* asked to remember, once (the comment in recall).                        *)
EvidenceIsOthers ==
  \A r \in DOMAIN runs : \A i \in runs[r].hits \cup runs[r].evidence :
    i.run = r => i.part = "fact" /\ i = runs[r].fact /\ i \notin runs[r].hits
=============================================================================
