---------------------------- MODULE ComposedTurn ----------------------------
(***************************************************************************)
(* A turn of the Second Opinion page: the goal is POSTed as a run, its     *)
(* compose_surface task builds a data model from what the run found, a     *)
(* model composes a surface for it, the wall (ui/validator.py) drops what  *)
(* the catalog does not allow, the harness appends what the model left     *)
(* out, /composed checks the result again, and the page draws it.  A tap   *)
(* on what was drawn is the next turn.                                     *)
(*                                                                         *)
(* The run up to compose_surface is module AgentRun; here it is what it    *)
(* found.  A label is a model value: two that differ in case only are one, *)
(* as the merge of claims takes them.  A property of a component is its    *)
(* kind in the catalog and the class of its value.                         *)
(***************************************************************************)
EXTENDS Naturals, Sequences, FiniteSets, SequencesExt

CONSTANTS RunResults, \* what a run may have found
          Proposals,  \* the surfaces a model may reply with
          Poisoned,   \* the labels that look like markup
          Retries,    \* GATEWAY_WAKE_RETRIES
          MaxTurns    \* bound on the turns of a conversation

Outcomes   == [subject : STRING, weak : BOOLEAN, corrected : BOOLEAN, hosts : SUBSET STRING]
Statements == [label : STRING, value : STRING, hosts : SUBSET STRING]

ComponentIds == STRING \X Nat
FieldKinds   == {"enum", "text", "binding", "number", "bindable", "action", "bool", "type_ref", "unknown"}
FieldValues  == {"literal", "markup", "bind", "boundMarkup", "noPointer", "member", "registered",
                 "known", "object", "other"}
Components   == [id : ComponentIds, type : STRING, children : Seq(ComponentIds),
                 fields : SUBSET [kind : FieldKinds, value : FieldValues]]

(* What the harness calls its own.                                         *)
HarnessNames == {"_ev", "_ev_row", "_ask", "_ask_row", "_run_graph"}

ASSUME ComposedTurnAssumption ==
  /\ Retries \in Nat /\ MaxTurns \in Nat
  /\ \A e \in RunResults : e.outcomes \in Seq(Outcomes) /\ e.claims \in Seq(Statements)

(* A surface names each of its components once, and none, nor its root, as *)
(* the harness does: nothing in the code checks this of a reply.           *)
ASSUME ProposalsAssumption ==
  \A p \in Proposals :
    /\ p.components \subseteq Components /\ IsFiniteSet(p.components)
    /\ \A c, d \in p.components : c.id = d.id => c = d
    /\ \A id \in {c.id : c \in p.components} \cup {p.root} :
         id \in ComponentIds /\ id[1] \notin HarnessNames

VARIABLES stage,     \* where runTurn is: "idle" is busy = false
          attempt,   \* attempts of this turn that failed
          turns,     \* turns begun
          found,     \* what the run found, once it composed
          reply,     \* the surface the model replied with
          composed,  \* the result of its compose_surface task
          screen,    \* the ids drawn
          drew,      \* lastRenderReport: whether the last paint to end drew anything
          status     \* the status line of the turn

turnVars == <<stage, attempt, turns, found, reply, composed, screen, drew, status>>

None == "none"

(* What a run found.  outcomes: the succeeded tasks that are no synthesis, *)
(* in the order of their ids; claims, choices, sections: what the          *)
(* structured answer states, the labels to pick from, and the headings.    *)
Outcome(subject, weak, corrected, hosts) ==
  [subject |-> subject, weak |-> weak, corrected |-> corrected, hosts |-> hosts]
Stated(label, value, hosts) == [label |-> label, value |-> value, hosts |-> hosts]
-----------------------------------------------------------------------------
(* Claims.                                                                 *)

(* _claim_confidence: from the run's own evidence, in this order.          *)
Confidence(o) ==
  CASE o.weak                                                -> "unsupported"
    [] ~o.weak /\ o.corrected                                -> "disputed"
    [] ~o.weak /\ ~o.corrected /\ Cardinality(o.hosts) >= 2  -> "corroborated"
    [] ~o.weak /\ ~o.corrected /\ Cardinality(o.hosts) = 1   -> "single-source"
    [] OTHER                                                 -> "unsupported"

ResearchClaims(outcomes) ==
  [i \in DOMAIN outcomes |->
     [label |-> outcomes[i].subject, value |-> None,
      confidence |-> Confidence(outcomes[i]), sources |-> outcomes[i].hosts]]

(* A stated claim without sources stays, and is never weak: hits are taken *)
(* as there.                                                               *)
CleanClaim(c) ==
  [label |-> c.label, value |-> c.value, sources |-> c.hosts,
   confidence |-> Confidence(Outcome(c.label, FALSE, FALSE, c.hosts))]

Position(claims, label) == {i \in DOMAIN claims : claims[i].label = label}

(* A dictionary by label keeps the place of the first and the value of the *)
(* last claim of a label.                                                  *)
Put(claims, c) ==
  IF Position(claims, c.label) = {} THEN Append(claims, c)
  ELSE [i \in DOMAIN claims |-> IF i \in Position(claims, c.label) THEN c ELSE claims[i]]

(* Mutant: a stated claim replaces the researched one.                     *)
MergeReplaces(claims, c) == Put(claims, c)

(* A stated claim gives a researched one its value and nothing else.       *)
MergeClaim(claims, c) ==
  IF Position(claims, c.label) = {} THEN Append(claims, c)
  ELSE [i \in DOMAIN claims |->
          IF i \in Position(claims, c.label) /\ c.value # None
          THEN [claims[i] EXCEPT !.value = c.value] ELSE claims[i]]

ByLabel(research) ==
  LET after[k \in 0 .. Len(research)] ==
        IF k = 0 THEN <<>> ELSE Put(after[k - 1], research[k])
  IN after[Len(research)]

(* A stated claim without a label is dropped.                              *)
Merged(existing, stated) ==
  LET after[k \in 0 .. Len(stated)] ==
        IF k = 0 THEN existing
        ELSE IF stated[k].label = None THEN after[k - 1]
        ELSE MergeClaim(after[k - 1], CleanClaim(stated[k]))
  IN after[Len(stated)]

(* The data model's claims, and per index what /claim_i_value and          *)
(* /claim_i_sources hold: without a merge the value is the label.          *)
DataModel(e) ==
  LET research == ResearchClaims(e.outcomes)
      merges   == \E c \in ToSet(e.claims) : c.label # None
      claims   == IF merges THEN Merged(ByLabel(research), e.claims) ELSE research
  IN [claims  |-> claims,
      values  |-> [i \in DOMAIN claims |-> IF merges THEN claims[i].value ELSE claims[i].label],
      sources |-> [i \in DOMAIN claims |-> claims[i].sources]]

-----------------------------------------------------------------------------
(* The wall.                                                               *)

Containers == {"Row", "Column", "List", "Card", "Tabs", "Modal"}

(* COMPONENTS: the kinds of properties that each type declares.            *)
Catalog ==
  [Row |-> {"enum"}, Column |-> {}, List |-> {}, Card |-> {"text"}, Divider |-> {},
   Text |-> {"binding", "enum"}, Image |-> {"text"}, TextField |-> {"text", "binding"},
   CheckBox |-> {"text", "binding"}, Slider |-> {"text", "binding", "number"},
   InputChoice |-> {"text", "binding"}, DateTime |-> {"text", "binding"},
   Button |-> {"bindable", "action"}, Tabs |-> {"text"}, Modal |-> {"text", "binding"},
   BarChart |-> {"text", "binding"}, Sparkline |-> {"binding", "enum"},
   StatTile |-> {"text", "binding", "enum"}, ProgressBar |-> {"binding", "number", "enum"},
   Timeline |-> {"text", "binding"}, DataTable |-> {"text", "binding", "bool"},
   Notice |-> {"binding", "enum"}, ApprovalCard |-> {"binding", "action"},
   EvidenceTile |-> {"text", "binding", "enum", "type_ref"},
   RunGraph |-> {"text", "binding", "type_ref"}, TradeoffRadar |-> {"text", "binding", "type_ref"},
   WhatIfSlider |-> {"text", "binding", "type_ref"}]

(* Types whose fallback property has a default: all that have one.         *)
HasFallback == {type \in DOMAIN Catalog : "type_ref" \in Catalog[type]}

(* The values a property of each kind may have.  The content behind a      *)
(* bound label is looked at only when the data model is at hand.           *)
Allowed(kind, withData) ==
  CASE kind = "text"              -> {"literal"}
    [] kind = "bindable"          -> {"literal", "bind"} \cup (IF withData THEN {} ELSE {"boundMarkup"})
    [] kind = "binding"           -> {"bind", "boundMarkup"}
    [] kind = "enum"              -> {"member"}
    [] kind = "action"            -> {"registered"}
    [] kind = "type_ref"          -> {"known"}
    [] kind \in {"number", "bool"} -> {"literal", "markup", "bind", "boundMarkup"}

Field(kind, value) == [kind |-> kind, value |-> value]

Refused(c, f, withData) == f.kind \notin Catalog[c.type] \/ f.value \notin Allowed(f.kind, withData)

(* The wall's own checks raise for a fallback that is no string, and for a *)
(* pointer that is none, unless a refused property comes before it.        *)
Raises(c, withData) ==
  /\ c.type \in DOMAIN Catalog
  /\ \E f \in c.fields :
       /\ f.kind \in Catalog[c.type]
       /\ <<f.kind, f.value>> \in {<<"type_ref", "object">>, <<"binding", "noPointer">>}
       /\ \A g \in c.fields \ {f} : ~Refused(c, g, withData)

Passes(c, withData) ==
  /\ c.type \in DOMAIN Catalog
  /\ \A f \in c.fields : ~Refused(c, f, withData)

FillFallback(c) ==
  IF c.type \in HasFallback THEN [c EXCEPT !.fields = @ \cup {Field("type_ref", "known")}] ELSE c

(* validate_surface: the components that render; each is judged alone.     *)
ValidateSurface(components, withData) ==
  {FillFallback(c) : c \in {d \in components : Passes(d, withData)}}

-----------------------------------------------------------------------------
(* compose_surface.                                                        *)

Component(id, type, children, fields) ==
  [id |-> id, type |-> type, children |-> children, fields |-> fields]

LabelField(kind, label) == Field(kind, IF label \in Poisoned THEN "markup" ELSE "literal")

Tile(i)     == <<"_ev", i>>
TileRow     == <<"_ev_row", 0>>
AskButton(i) == <<"_ask", i>>
AskRow      == <<"_ask_row", 0>>
RunGraphId  == <<"_run_graph", 0>>

HarnessRow(id, children) == Component(id, "Row", children, {Field("enum", "member")})

EvidenceTiles(dm) ==
  {Component(Tile(i), "EvidenceTile", <<>>,
     {LabelField("text", dm.claims[i].label), Field("binding", "bind"),
      Field("enum", "member"), Field("type_ref", "known")}) : i \in DOMAIN dm.claims}

AnswerChoices(e) == SelectSeq(e.choices, LAMBDA label : label # None)

(* What there is to tap: the subjects of the outcomes, else the choices or *)
(* the headings of the structured answer.                                  *)
Tappable(e) ==
  IF e.outcomes # <<>> THEN [i \in DOMAIN e.outcomes |-> e.outcomes[i].subject]
  ELSE IF AnswerChoices(e) # <<>> THEN AnswerChoices(e)
  ELSE SelectSeq(e.sections, LAMBDA heading : heading # None)

(* A section that is no object has no heading to ask for.                  *)
NoSection == "no section"
HeadingsRaise(e) == e.outcomes = <<>> /\ AnswerChoices(e) = <<>> /\ NoSection \in ToSet(e.sections)

AskButtons(e) ==
  {Component(AskButton(i), "Button", <<>>,
     {LabelField("bindable", Tappable(e)[i]), Field("action", "registered")})
     : i \in DOMAIN Tappable(e) \cap 1 .. 6}

TheRunGraph == Component(RunGraphId, "RunGraph", <<>>,
                 {Field("text", "literal"), Field("binding", "bind"), Field("type_ref", "known")})

(* Types the model composed, of what the wall left.                        *)
ComposedTypes(e, p) == {c.type : c \in ValidateSurface(p.components, TRUE)}

(* What the harness adds, and the ids the root gains for it, in order.     *)
Additions(e, p) ==
  LET types    == ComposedTypes(e, p)
      dm       == DataModel(e)
      Ids(s)   == SetToSeq({c.id : c \in s})
      evidence == IF dm.claims # <<>> /\ "EvidenceTile" \notin types THEN EvidenceTiles(dm) ELSE {}
      buttons  == IF "Button" \notin types THEN AskButtons(e) ELSE {}
      graph    == IF "RunGraph" \notin types THEN {TheRunGraph} ELSE {}
  IN [components |-> evidence \cup buttons \cup graph
        \cup (IF evidence # {} THEN {HarnessRow(TileRow, Ids(evidence))} ELSE {})
        \cup (IF buttons # {} THEN {HarnessRow(AskRow, Ids(buttons))} ELSE {}),
      children |-> (IF evidence # {} THEN <<TileRow>> ELSE <<>>)
                   \o (IF buttons # {} THEN <<AskRow>> ELSE <<>>)
                   \o (IF graph # {} THEN <<RunGraphId>> ELSE <<>>)]

(* Mutant: the rows are children of nothing.                               *)
ComposeUnattached(e, p) ==
  [root |-> p.root, data |-> DataModel(e),
   components |-> ValidateSurface(ValidateSurface(p.components, TRUE) \cup Additions(e, p).components, TRUE)]

ComposeSurface(e, p) ==
  LET more   == Additions(e, p)
      own    == {IF c.id = p.root THEN [c EXCEPT !.children = @ \o more.children] ELSE c
                   : c \in ValidateSurface(p.components, TRUE)}
  IN [root |-> p.root, data |-> DataModel(e),
      components |-> ValidateSurface(own \cup more.components, TRUE)]

-----------------------------------------------------------------------------
(* Drawing.                                                                *)

ById(components, id) == {c \in components : c.id = id}

(* The children a component draws: any type may carry children, only a     *)
(* container draws them, tabs the first one; a missing one is passed over. *)
DrawnChildren(components, c) ==
  LET ids == CASE c.type \notin Containers -> {}
               [] c.type = "Tabs" -> {c.children[i] : i \in DOMAIN c.children \cap {1}}
               [] OTHER -> {c.children[i] : i \in DOMAIN c.children}
  IN {d \in components : d.id \in ids}

Parents(components) == {c \in components : c.children # <<>>}

Below(components, start) ==
  LET deepest == Cardinality(Parents(components))
      reach[n \in 0 .. deepest] ==
        IF n = 0 THEN start
        ELSE reach[n - 1] \cup UNION {DrawnChildren(components, c) : c \in reach[n - 1]}
  IN reach[deepest]

HasContent(components, c) ==
  \/ c.type \notin {"Row", "Column", "List", "Divider"}
  \/ DrawnChildren(components, c) # {}

(* renderInto: the root, or, if it draws nothing, what stands alone, or,   *)
(* if there is no root, everything.                                        *)
Start(components, root) ==
  LET r == ById(components, root)
      standalone == {c \in components : c.id # root /\ c.children = <<>>}
  IN IF r = {} THEN components
     ELSE IF \E c \in r : HasContent(components, c) \/ standalone = {} THEN r
     ELSE standalone

Drawn(components, root) == {c.id : c \in Below(components, Start(components, root))}

(* A component below itself: node() never returns.                         *)
Circular(components, root) ==
  \E c \in Parents(components) \cap Below(components, Start(components, root)) :
    c \in Below(components, DrawnChildren(components, c))

(* surfaceReport: structural faults of the tree.                           *)
Dangling(components) ==
  (UNION {{c.children[i] : i \in DOMAIN c.children} : c \in components}) \ {c.id : c \in components}

-----------------------------------------------------------------------------
(* The page.                                                               *)

NoEvidence == [outcomes |-> <<>>, claims |-> <<>>, choices |-> <<>>, sections |-> <<>>]
NoReply    == [root |-> <<None, 0>>, components |-> {}]
NoSurface  == [root |-> <<None, 0>>, data |-> DataModel(NoEvidence), components |-> {}]

TurnInit ==
  /\ stage = "idle" /\ attempt = 0 /\ turns = 0
  /\ found = NoEvidence /\ reply = NoReply /\ composed = NoSurface
  /\ screen = {} /\ drew = FALSE /\ status = None

(* runTurn: nothing of the old surface is used again, but what lastRender- *)
(* Report says of it.                                                      *)
RunTurn ==
  /\ stage = "idle" /\ turns < MaxTurns
  /\ stage' = "running" /\ attempt' = 0 /\ turns' = turns + 1 /\ status' = "think"
  /\ found' = NoEvidence /\ reply' = NoReply /\ composed' = NoSurface /\ screen' = {}
  /\ UNCHANGED drew

(* The run composed a surface, or its compose_surface raised on the reply  *)
(* or on the answer.                                                       *)
RunComposed ==
  /\ stage = "running"
  /\ \E e \in RunResults, p \in Proposals :
       /\ found' = e /\ reply' = p
       /\ composed' = IF HeadingsRaise(e) \/ \E c \in p.components : Raises(c, TRUE)
                      THEN NoSurface ELSE ComposeSurface(e, p)
  /\ stage' = "painting"
  /\ UNCHANGED <<attempt, turns, screen, drew, status>>

(* The catch of attemptTurn: wait and start another run, or give up.       *)
Retry ==
  /\ UNCHANGED turns
  /\ IF attempt < Retries
     THEN attempt' = attempt + 1 /\ stage' = "running" /\ UNCHANGED status
     ELSE stage' = "idle" /\ status' = "bad" /\ UNCHANGED attempt

(* The POST or the GET failed, or there is no surface to GET.              *)
RunFailed ==
  /\ stage = "running" \/ (stage = "painting" /\ composed.components = {})
  /\ Retry
  /\ found' = NoEvidence /\ reply' = NoReply /\ composed' = NoSurface
  /\ UNCHANGED <<screen, drew>>

(* /composed validates once more, without the data model, and says whether *)
(* anything was refused.                                                   *)
Served == ValidateSurface(composed.components, FALSE)
Clean  == \A c \in composed.components : Passes(c, FALSE)

(* Structural faults and an empty screen are said in the status line.      *)
StatusOf(d) ==
  IF ~Clean \/ ById(Served, composed.root) = {} \/ Dangling(Served) # {} \/ ~d
  THEN "bad" ELSE "good"

Paint ==
  /\ stage = "painting" /\ composed.components # {}
  /\ ~Circular(Served, composed.root)
  /\ screen' = Drawn(Served, composed.root)
  /\ drew' = (screen' # {})
  /\ status' = StatusOf(drew')
  /\ stage' = "idle"
  /\ UNCHANGED <<attempt, turns, found, reply, composed>>

(* The paint raises.  Painted at once, that fails the attempt; inside a    *)
(* view transition it is caught, and the report is of the paint before.    *)
PaintRaises ==
  /\ stage = "painting" /\ composed.components # {}
  /\ Circular(Served, composed.root)
  /\ screen' = {}
  /\ \/ /\ Retry
        /\ found' = NoEvidence /\ reply' = NoReply /\ composed' = NoSurface
     \/ /\ stage' = "idle" /\ status' = StatusOf(drew)
        /\ UNCHANGED <<attempt, turns, found, reply, composed>>
  /\ UNCHANGED drew

TurnNext == RunTurn \/ RunComposed \/ RunFailed \/ Paint \/ PaintRaises

TurnSpec == TurnInit /\ [][TurnNext]_turnVars

-----------------------------------------------------------------------------
(* What the turn that was painted shows.                                   *)

Painted == stage = "idle" /\ composed # NoSurface /\ ~Circular(Served, composed.root)

HarnessIds == {Tile(i) : i \in DOMAIN composed.data.claims} \cup {AskButton(i) : i \in 1..6}
                \cup {TileRow, AskRow, RunGraphId}

ByModel(type) == \E c \in composed.components : c.type = type /\ c.id \notin HarnessIds

RootDrawsAll ==
  \A c \in ById(composed.components, composed.root) : c.type \in Containers \ {"Tabs"}

(* "Provenance is guaranteed, not requested": whatever the model replied,  *)
(* every claim whose label the wall lets through is drawn with its         *)
(* evidence, there is something to tap (the first six), and the run is     *)
(* shown.  The code has this for a root that draws all its children, and   *)
(* takes a tile or button of the model's own, drawn or not, for enough.    *)
WarrantIsDrawn ==
  Painted /\ RootDrawsAll =>
    /\ \A i \in DOMAIN composed.data.claims :
         composed.data.claims[i].label \notin Poisoned => Tile(i) \in screen \/ ByModel("EvidenceTile")
    /\ \A i \in DOMAIN Tappable(found) \cap 1 .. 6 :
         Tappable(found)[i] \notin Poisoned => AskButton(i) \in screen \/ ByModel("Button")
    /\ RunGraphId \in screen \/ ByModel("RunGraph")

Researched(label) == {i \in DOMAIN found.outcomes : found.outcomes[i].subject = label}

(* A claim's confidence and sources are what the run itself gathered about *)
(* its subject, whatever the structured answer states of it; a claim only  *)
(* that answer states stands on the sources it names; and no figure is     *)
(* shown as a claim's value that was not stated for that very subject.     *)
ConfidenceIsEarned ==
  \A i \in DOMAIN composed.data.claims :
    LET c == composed.data.claims[i]
        Backed(o) == c.sources = o.hosts /\ c.confidence = Confidence(o)
    IN /\ Researched(c.label) # {} => \E j \in Researched(c.label) : Backed(found.outcomes[j])
       /\ Researched(c.label) = {} =>
            \E j \in DOMAIN found.claims :
              /\ found.claims[j].label = c.label
              /\ Backed(Outcome(c.label, FALSE, FALSE, found.claims[j].hosts))
       /\ c.value # None =>
            \E j \in DOMAIN found.claims : found.claims[j].label = c.label /\ found.claims[j].value = c.value

(* "The safe part of a surface still renders; only the offending           *)
(* components are dropped, so a single poisoned node cannot blank the      *)
(* screen."  Refuted: the wall's own checks raise on a fallback that is an *)
(* object, which fails the whole compose_surface task.                     *)
SafePartRenders ==
  stage = "painting" /\ ~HeadingsRaise(found) =>
    \A c \in reply.components : Passes(c, TRUE) => ById(composed.components, c.id) # {}
=============================================================================
