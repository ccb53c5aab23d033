--------------------------- MODULE MCAgentService ---------------------------
(***************************************************************************)
(* What the agent service does beside its runs: the memory store and what  *)
(* requests leave there, the A2A task server, the live view of a run, the  *)
(* turns of the composed page, and the cutting of a document.  They share  *)
(* neither state nor messages here, so that a behaviour watches one and    *)
(* leaves the others at rest.                                              *)
(*                                                                         *)
(* The store has a tenant's shared scope and one user's own.  A run of the *)
(* page found up to two subjects, weak, corrected or backed by none, one   *)
(* or two hosts, one of which may look like markup, or nothing but seven   *)
(* headings; its structured answer states a figure for a subject, for      *)
(* something else, or for nothing.  The model replies with any root, with  *)
(* or without tiles, buttons and types of its own that the wall lets       *)
(* through or refuses.                                                     *)
(***************************************************************************)
EXTENDS MemoryStore, A2ATasks, LiveView, ComposedTurn, Chunking, RunMemory

MCScopes == {[tenant |-> "t", user |-> "none"], [tenant |-> "t", user |-> "u"]}

Two == {"h1", "h2"}

SingleOutcomes ==
  {Outcome("x", FALSE, FALSE, hosts) : hosts \in {{}, {"h1"}, Two}}
    \cup {Outcome(s, weak, ~weak, Two) : s \in {"x", "y"}, weak \in BOOLEAN}
    \cup {Outcome("<b>", FALSE, FALSE, Two)}

PairedOutcomes ==
  {Outcome("x", FALSE, FALSE, Two), Outcome("x", FALSE, TRUE, {}),
   Outcome("y", TRUE, FALSE, {}), Outcome("<b>", FALSE, FALSE, {"h1"})}

MCStatements ==
  {Stated("x", "7", {"h3"}), Stated("x", None, {}), Stated("z", "7", {}),
   Stated("<b>", "7", {"h1"}), Stated(None, "7", {"h3"})}

MCRunResults ==
  {r \in [outcomes : {<<>>} \cup {<<o>> : o \in SingleOutcomes} \cup PairedOutcomes \X PairedOutcomes,
          claims   : {<<>>} \cup {<<c>> : c \in MCStatements},
          choices  : {<<>>, <<None, "z">>},
          sections : {<<>>, <<"z">>, <<"z", NoSection>>}] :
     /\ r.outcomes # <<>> => r.choices = <<>> /\ r.sections = <<>>
     /\ r.choices # <<>> => r.sections # <<"z">>}
  \cup {[outcomes |-> <<>>, claims |-> <<>>, choices |-> <<>>, sections |-> [i \in 1 .. 7 |-> "z"]]}

RootId == <<"root", 0>>

Own(type, fields, good) ==
  Component(<<type, 0>>, type, <<>>, fields \cup (IF good THEN {} ELSE {Field("unknown", "literal")}))

Extras ==
  {Own("EvidenceTile", {Field("binding", "bind"), Field("enum", "member")}, good) : good \in BOOLEAN}
    \cup {Own("Button", {Field("bindable", value), Field("action", "registered")}, TRUE)
            : value \in {"bind", "boundMarkup"}}
    \cup {Own("RawHtml", {}, TRUE),
          Own("EvidenceTile", {Field("type_ref", "object")}, TRUE)}

RootChildren == {<<>>, <<<<"EvidenceTile", 0>>, <<"gone", 0>>>>, <<RootId>>}

MCProposals ==
  {[root |-> RootId, components |->
      own \cup (IF type = None THEN {} ELSE {Component(RootId, type, children, {})})] :
     own \in {{}} \cup {{extra} : extra \in Extras},
     type \in {None, "Column", "Text", "RawHtml"},
     children \in RootChildren}

(* A document of up to five units begins a line, a heading has a title,    *)
(* and only words of text have a rest.                                     *)
MCMarkdowns ==
  {d \in [units : UNION {[1 .. n -> LineKinds \cup {"word", "rest"}] : n \in 1 .. 5}, newline : BOOLEAN] :
     /\ d.units[1] \in LineKinds
     /\ \A i \in DOMAIN d.units :
          /\ d.units[i] = "heading" => i < Len(d.units) /\ d.units[i + 1] = "word"
          /\ d.units[i] = "rest" => d.units[i - 1] \in {"text", "word"}}

VARIABLE watched

serviceVars == <<vars, taskVars, liveVars, turnVars, chunkVars, runVars, watched>>

ServiceInit ==
  /\ watched \in {"memory", "tasks", "view", "turn", "chunking", "runs"}
  /\ Init /\ TasksInit /\ ViewInit /\ TurnInit /\ ChunkingInit /\ RunsInit
  /\ watched # "memory" => embedder = CHOOSE m \in Models : TRUE
  /\ watched # "chunking" => markdown = [units |-> <<"text">>, newline |-> FALSE]

MemoryStep(A) ==
  watched = "memory" /\ A /\ UNCHANGED <<taskVars, liveVars, turnVars, chunkVars, runVars, watched>>
TasksStep(A) ==
  watched = "tasks" /\ A /\ UNCHANGED <<vars, liveVars, turnVars, chunkVars, runVars, watched>>
ViewStep(A) ==
  watched = "view" /\ A /\ UNCHANGED <<vars, taskVars, turnVars, chunkVars, runVars, watched>>
TurnStep(A) ==
  watched = "turn" /\ A /\ UNCHANGED <<vars, taskVars, liveVars, chunkVars, runVars, watched>>
ChunkingStep(A) ==
  watched = "chunking" /\ A /\ UNCHANGED <<vars, taskVars, liveVars, turnVars, runVars, watched>>
RunsStep(A) ==
  watched = "runs" /\ A /\ UNCHANGED <<vars, taskVars, liveVars, turnVars, chunkVars, watched>>

ServiceNext ==
  \/ MemoryStep(Next) \/ TasksStep(TasksNext) \/ ViewStep(ViewNext)
  \/ TurnStep(TurnNext) \/ ChunkingStep(ChunkingNext) \/ RunsStep(RunsNext)

(* The fairness of the task server and of the view.                        *)
ServiceFairness ==
  /\ WF_serviceVars(TasksStep(ServerRestarts))
  /\ \A t \in TaskIds : WF_serviceVars(TasksStep(Work(t))) /\ WF_serviceVars(TasksStep(Deliver(t)))
  /\ WF_serviceVars(ViewStep(Boot)) /\ WF_serviceVars(ViewStep(OnMessage))
  /\ WF_serviceVars(ViewStep(OnError))

(* What a write returned, and what a run reported, is kept.                *)
ReturnedIsKept == ReturnedIsAudited /\ ReportedIsRemembered

(* What is given out as evidence: the whole of each document, cut only     *)
(* where a word ends (or where the model's reply begins), the last version *)
(* of it that was written, and to a run nothing that it said itself.       *)
EvidenceIsSound == ChunksAreWhole /\ LastVersionIsEvidence /\ EvidenceIsOthers

ServiceSpec == ServiceInit /\ [][ServiceNext]_serviceVars /\ ServiceFairness
=============================================================================
