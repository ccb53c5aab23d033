--------------------------- MODULE AgentRunProofs ---------------------------
(***************************************************************************)
(* Theorems of AgentRun for every set of requests and every bound: the     *)
(* requests' runs are runs of the live graph, so that its invariants hold  *)
(* of them, and the deterministic planner's patches fit the graph they are *)
(* applied to, when one call of run() is under way at a time.              *)
(***************************************************************************)
EXTENDS AgentRun, LiveGraphProofs, WellFoundedInduction

(* The outcome of t has been recorded and answered by a patch.             *)
Decided(t) == \E i \in OutcomesOf(t) : i \in patched

RequestTypeOK ==
  /\ request \in [mode : Modes, explicit : BOOLEAN]
  /\ found \in [Tasks -> SUBSET (0 .. 2)]
  /\ \A t \in Tasks : found[t] = {} \/ found[t] \in Findings(t)

(* Edges lead from a lower to a higher of these.                           *)
Rank(t) ==
  CASE t = Answer   -> 6
    [] t = Surface  -> 5
    [] t = Validate -> 4
    [] t = Distill  -> 3
    [] t \in Fetches \cup IndexDocs \cup {Recall, Reminder} -> 2
    [] OTHER -> 1

(* What only the first patch adds.                                         *)
Initially == {Content, IndexFile, ListDirectory, ReadFile, Remember, Search} \cup Searches

(* Before its first patch a run has no node; a node that a rule adds       *)
(* without looking for it was added when an outcome was decided that no    *)
(* other rule adds it for.                                                 *)
GrowthInv ==
  /\ 1 \notin patched => Nodes = {} /\ edges = {}
  /\ 1 \in patched /\ request.mode = "compose_research" => Searches \subseteq Nodes
  /\ \A c \in edges : c[1] \in Nodes /\ c[2] \in Nodes /\ Rank(c[1]) < Rank(c[2])
  /\ Search \in Nodes => request.mode = "search_fetch"
  /\ IndexFile \in Nodes => request.mode = "index_file"
  /\ IndexDocs \cap Nodes # {} => Decided(ListDirectory)
  /\ Fetches \cap Nodes # {} => request.mode = "fetch" \/ Decided(Search)
  /\ Recall \in Nodes => request.mode \in {"birthday_reminder", "memory"} \/ Decided(IndexFile)
  /\ Reminder \in Nodes => Decided(Remember)
  /\ Validate \in Nodes => Decided(Distill)

(* A retry corrects a search that succeeded and found nothing, and each    *)
(* such search whose outcome was decided has one.                          *)
RetryInv ==
  \A i \in Items :
    /\ Retry(i) \in Nodes => state[SearchFor(i)] = "succeeded"
    /\ /\ request.mode = "compose_research" /\ Decided(SearchFor(i))
       /\ state[SearchFor(i)] = "succeeded" /\ found[SearchFor(i)] = {}
       => Retry(i) \in Nodes

(* One event at a time waits for its decision, and no one is asked about a *)
(* run that is finished.                                                   *)
AskedInv(e) ==
  /\ pc[e] # "aborted"
  /\ pc[e] \in Planning => ~finished
  /\ ~finished => \A i, j \in PendingPlannerEvents : i = j

PlannerInv(e) ==
  RequestTypeOK /\ GrowthInv /\ RetryInv /\ DistillHasEvidence /\ AskedInv(e)

-----------------------------------------------------------------------------
(* The planner's rules.                                                    *)

LEMMA LeastNumber ==
  ASSUME NEW S, S \subseteq Nat, S # {}
  PROVE  \E x \in S : \A y \in S : x <= y
<1> DEFINE R == OpToRel(<, Nat)
<1>1. \E x \in S : \A y \in S : ~ (<<y, x>> \in R)
  BY WFMin, NatLessThanWellFounded, Zenon
<1>2. \A x, y \in Nat : y < x => <<y, x>> \in R
  BY Zenon DEF OpToRel
<1> HIDE DEF R
<1>3. PICK x \in S : \A y \in S : ~ (<<y, x>> \in R)
  BY <1>1
<1>4. ASSUME NEW y \in S PROVE x <= y
  <2>1. x \in Nat /\ y \in Nat
    OBVIOUS
  <2>2. ~ (y < x)
    BY <1>2, <1>3, <2>1
  <2>3. QED
    BY <2>1, <2>2
<1>5. QED
  BY <1>4

LEMMA SomeRuleHolds ==
  ASSUME NEW t, NEW ok \in BOOLEAN
  PROVE  LET rules == OutcomeRules(t, ok) IN
         /\ DOMAIN rules = 1 .. 24
         /\ rules[24][1]
BY DEF OutcomeRules

LEMMA FirstRuleHolds ==
  ASSUME NEW t, NEW ok \in BOOLEAN
  PROVE  LET rules == OutcomeRules(t, ok)
             n == CHOOSE k \in DOMAIN rules : rules[k][1] /\ \A j \in 1 .. k - 1 : ~rules[j][1] IN
         n \in 1 .. 24 /\ rules[n][1] /\ \A j \in 1 .. n - 1 : ~rules[j][1]
<1> DEFINE rules == OutcomeRules(t, ok)
           S == {k \in 1 .. 24 : rules[k][1]}
<1>1. DOMAIN rules = 1 .. 24 /\ rules[24][1]
  BY SomeRuleHolds
<1> HIDE DEF rules
<1>2. S \subseteq Nat /\ 24 \in S
  BY <1>1
<1>3. PICK n \in S : \A k \in S : n <= k
  BY <1>2, LeastNumber
<1>4. n \in DOMAIN rules /\ rules[n][1] /\ \A j \in 1 .. n - 1 : ~rules[j][1]
  BY <1>1, <1>2, <1>3
<1>5. QED
  BY <1>1, <1>4 DEF rules

(* The outcomes that some rule answers by adding the answer.               *)
AnswersAfter(t, ok) ==
  \/ t \in {Reminder, ReadFile, Recall, Distill, Validate}
  \/ t \in {ListDirectory, Search} /\ ok /\ found[t] = {}
  \/ t \in IndexDocs /\ AllLanded(IndexDocs \cap Nodes)
  \/ ~ok /\ AllLanded(Nodes \ {Answer})

(* The patches that the rules for the outcome of t answer.                 *)
RulePatch(p, t, ok) ==
  \/ p \in {NoPatch, FinishPatch}
  \/ p = AnswerPatch /\ AnswersAfter(t, ok)
  \/ /\ request.mode = "compose_answer" /\ t = Content /\ ok /\ Surface \notin Nodes
     /\ p = AddAfter({Surface}, {Content})
  \/ /\ request.mode = "compose_research" /\ t = Distill /\ Surface \notin Nodes
     /\ p = AddAfter({Surface}, ResearchLeaves \cup {Distill})
  \/ request.mode = "compose_research" /\ t \in Searches \cup Retries /\ p = ResearchPatch(t, ok)
  \/ t = IndexFile /\ ok /\ p = AddAfter({Recall}, {IndexFile})
  \/ /\ request.mode = "birthday_reminder" /\ t = Remember /\ ok
     /\ p = AddAfter({Reminder}, {Remember})
  \/ t = ListDirectory /\ ok /\ p = AddAfter({IndexDoc(i) : i \in found[t]}, {ListDirectory})
  \/ t = Search /\ ok /\ p = AddAfter({Fetch(i) : i \in found[t] \ {0}}, {Search})
  \/ t = Recall /\ request.mode = "index_file" /\ Distill \notin Nodes /\ p = AddAfter({Distill}, {Recall})
  \/ /\ p = FrontierPatch
     /\ t \in (Fetches \cup Searches) \cap Nodes /\ AllLanded((Fetches \cup Searches) \cap Nodes)
  \/ request.mode = "structured_compare" /\ t = Distill /\ p = AddAfter({Validate}, {Distill})

LEMMA RulePatches ==
  ASSUME NEW t, NEW ok \in BOOLEAN, NEW n \in 1 .. 24, OutcomeRules(t, ok)[n][1]
  PROVE  RulePatch(OutcomeRules(t, ok)[n][2], t, ok)
<1> DEFINE r == OutcomeRules(t, ok)
<1>1. r[1][1] => RulePatch(r[1][2], t, ok)
  BY DEF OutcomeRules, RulePatch, AnswersAfter
<1>2. r[2][1] => RulePatch(r[2][2], t, ok)
  BY DEF OutcomeRules, RulePatch, AnswersAfter
<1>3. r[3][1] => RulePatch(r[3][2], t, ok)
  BY DEF OutcomeRules, RulePatch, AnswersAfter
<1>4. r[4][1] => RulePatch(r[4][2], t, ok)
  BY DEF OutcomeRules, RulePatch, AnswersAfter
<1>5. r[5][1] => RulePatch(r[5][2], t, ok)
  BY DEF OutcomeRules, RulePatch, AnswersAfter
<1>6. r[6][1] => RulePatch(r[6][2], t, ok)
  BY DEF OutcomeRules, RulePatch, AnswersAfter
<1>7. r[7][1] => RulePatch(r[7][2], t, ok)
  BY DEF OutcomeRules, RulePatch, AnswersAfter
<1>8. r[8][1] => RulePatch(r[8][2], t, ok)
  BY DEF OutcomeRules, RulePatch, AnswersAfter
<1>9. r[9][1] => RulePatch(r[9][2], t, ok)
  BY DEF OutcomeRules, RulePatch, AnswersAfter
<1>10. r[10][1] => RulePatch(r[10][2], t, ok)
  BY DEF OutcomeRules, RulePatch, AnswersAfter
<1>11. r[11][1] => RulePatch(r[11][2], t, ok)
  BY DEF OutcomeRules, RulePatch, AnswersAfter
<1>12. r[12][1] => RulePatch(r[12][2], t, ok)
  BY DEF OutcomeRules, RulePatch, AnswersAfter
<1>13. r[13][1] => RulePatch(r[13][2], t, ok)
  BY DEF OutcomeRules, RulePatch, AnswersAfter
<1>14. r[14][1] => RulePatch(r[14][2], t, ok)
  BY DEF OutcomeRules, RulePatch, AnswersAfter
<1>15. r[15][1] => RulePatch(r[15][2], t, ok)
  BY DEF OutcomeRules, RulePatch, AnswersAfter
<1>16. r[16][1] => RulePatch(r[16][2], t, ok)
  BY DEF OutcomeRules, RulePatch, AnswersAfter
<1>17. r[17][1] => RulePatch(r[17][2], t, ok)
  BY DEF OutcomeRules, RulePatch, AnswersAfter
<1>18. r[18][1] => RulePatch(r[18][2], t, ok)
  BY DEF OutcomeRules, RulePatch, AnswersAfter
<1>19. r[19][1] => RulePatch(r[19][2], t, ok)
  BY DEF OutcomeRules, RulePatch, AnswersAfter
<1>20. r[20][1] => RulePatch(r[20][2], t, ok)
  BY DEF OutcomeRules, RulePatch, AnswersAfter
<1>21. r[21][1] => RulePatch(r[21][2], t, ok)
  BY DEF OutcomeRules, RulePatch, AnswersAfter
<1>22. r[22][1] => RulePatch(r[22][2], t, ok)
  BY DEF OutcomeRules, RulePatch, AnswersAfter
<1>23. r[23][1] => RulePatch(r[23][2], t, ok)
  BY DEF OutcomeRules, RulePatch, AnswersAfter
<1>24. r[24][1] => RulePatch(r[24][2], t, ok)
  BY DEF OutcomeRules, RulePatch, AnswersAfter
<1>25. QED
  BY <1>1, <1>2, <1>3, <1>4, <1>5, <1>6, <1>7, <1>8, <1>9, <1>10, <1>11, <1>12, <1>13, <1>14, <1>15, <1>16, <1>17, <1>18, <1>19, <1>20, <1>21, <1>22, <1>23, <1>24

(* What the first rule that holds for the outcome of t sees to.            *)
RuleAnswer(p, t, ok) ==
  LET m == request.mode
      after == Nodes \cup p.add
      frontier == (Fetches \cup Searches) \cap Nodes
  IN /\ t = Answer \/ (m \in {"compose_answer", "compose_research"} /\ t = Surface) => p = FinishPatch
     /\ m = "compose_answer" /\ t = Content => IF ok THEN Surface \in after ELSE p = FinishPatch
     /\ m = "compose_research" /\ t = Distill /\ ok => Surface \in after
     /\ m = "compose_research" /\ t \in Searches \cup Retries => p = ResearchPatch(t, ok)
     /\ t = IndexFile /\ ok => Recall \in after
     /\ m = "birthday_reminder" /\ t = Remember /\ ok => Reminder \in after
     /\ m = "birthday_reminder" /\ t = Reminder => Answer \in after
     /\ m = "read_file" /\ t = ReadFile => Answer \in after
     /\ t = ListDirectory /\ ok =>
          IF found[t] = {} THEN Answer \in after ELSE p.add = {IndexDoc(i) : i \in found[t]}
     /\ m = "index_directory" /\ t = ListDirectory /\ ~ok /\ AllLanded(Nodes \ {Answer}) =>
          Answer \in after
     /\ t \in IndexDocs /\ AllLanded(IndexDocs \cap Nodes) => Answer \in after
     /\ t = Search /\ ok =>
          IF found[t] = {} THEN Answer \in after ELSE p.add = {Fetch(i) : i \in found[t] \ {0}}
     /\ m = "index_file" /\ t = Recall => Distill \in after
     /\ m = "memory" /\ t = Recall => Answer \in after
     /\ m = "birthday_reminder" /\ t = Recall => p = NoPatch
     /\ m \notin {"compose_research", "structured_compare"} /\ t = Distill => Answer \in after
     /\ /\ m \in {"fetch", "search_fetch", "parallel_search", "structured_compare"}
        /\ t \in frontier /\ AllLanded(frontier)
        => Distill \in after
     /\ m = "structured_compare" /\ t = Distill => Validate \in after
     /\ m = "structured_compare" /\ t = Validate => Answer \in after

(* The k-th rule is the first that holds.                                  *)
FirstOf(rules, k) == k \in 1 .. 24 /\ rules[k][1] /\ \A j \in 1 .. k - 1 : ~rules[j][1]

LEMMA OneFirstRule ==
  ASSUME NEW rules, NEW k, NEW n, FirstOf(rules, k), FirstOf(rules, n)
  PROVE  k = n
<1>1. k \in Nat /\ n \in Nat /\ ~(k < n) /\ ~(n < k)
  BY DEF FirstOf
<1>2. QED
  BY <1>1

(* What a patch that adds nodes after others adds.                         *)
LEMMA PatchAdds ==
  /\ \A S, parents : AddAfter(S, parents).add = S
  /\ Answer \in Nodes \cup AnswerPatch.add
  /\ request.mode \in {"fetch", "search_fetch", "parallel_search", "structured_compare"} =>
       Distill \in Nodes \cup FrontierPatch.add
<1>1. \A S, parents : AddAfter(S, parents).add = S
  BY DEF AddAfter, NoPatch
<1>2. Answer \in Nodes \cup AnswerPatch.add
  BY <1>1 DEF AnswerPatch
<1>3. request.mode \in {"fetch", "search_fetch", "parallel_search", "structured_compare"} =>
        Distill \in Nodes \cup FrontierPatch.add
  BY <1>1 DEF FrontierPatch
<1>4. QED
  BY <1>1, <1>2, <1>3

LEMMA GroupNames ==
  /\ Fetches = {Fetch(1), Fetch(2)} /\ IndexDocs = {IndexDoc(1), IndexDoc(2)}
  /\ Searches = {SearchFor(1), SearchFor(2)} /\ Retries = {Retry(1), Retry(2)}
BY DEF Fetches, IndexDocs, Searches, Retries, Items

(* Which rule is the first for the outcome of a task.                      *)
LEMMA FirstAnswers ==
  ASSUME NEW t, NEW ok \in BOOLEAN, NEW n, FirstOf(OutcomeRules(t, ok), n)
  PROVE  RuleAnswer(OutcomeRules(t, ok)[n][2], t, ok)
<1> DEFINE r == OutcomeRules(t, ok)
           m == request.mode
           frontier == (Fetches \cup Searches) \cap Nodes
<1>a. /\ r[1][1] <=> (m \in {"compose_answer", "compose_research"} /\ t = Surface)
      /\ r[2][1] <=> (m = "compose_answer" /\ t = Content /\ ok /\ Surface \notin Nodes)
      /\ r[3][1] <=> (m = "compose_answer" /\ t = Content /\ ~ok)
      /\ r[4][1] <=> (m = "compose_research" /\ t = Distill /\ ok /\ Surface \notin Nodes)
      /\ r[5][1] <=> (m = "compose_research" /\ t \in Searches \cup Retries)
      /\ r[6][1] <=> (t = IndexFile /\ ok)
      /\ r[7][1] <=> (m = "birthday_reminder" /\ t = Remember /\ ok)
      /\ r[8][1] <=> (m = "birthday_reminder" /\ t = Reminder)
      /\ r[9][1] <=> (m = "birthday_reminder" /\ t = Recall)
      /\ r[10][1] <=> (m = "read_file" /\ t = ReadFile)
      /\ r[11][1] <=> (t = ListDirectory /\ ok /\ found[t] = {})
      /\ r[12][1] <=> (t = ListDirectory /\ ok)
      /\ r[13][1] <=> (t \in IndexDocs /\ AllLanded(IndexDocs \cap Nodes))
      /\ r[14][1] <=> (t = Search /\ ok /\ found[t] = {})
      /\ r[15][1] <=> (t = Search /\ ok)
      /\ r[16][1] <=> (t = Recall /\ m = "index_file" /\ Distill \notin Nodes)
      /\ r[17][1] <=> (t = Recall)
      /\ r[18][1] <=> (t = Distill /\ m # "structured_compare")
      /\ r[19][1] <=> (t \in frontier /\ AllLanded(frontier))
      /\ r[20][1] <=> (m = "structured_compare" /\ t = Distill)
      /\ r[21][1] <=> (m = "structured_compare" /\ t = Validate)
      /\ r[22][1] <=> (~ok /\ t # Answer /\ AllLanded(Nodes \ {Answer}))
      /\ r[23][1] <=> (t = Answer)
      /\ r[24][1] <=> (TRUE)
  <2>1. r[1][1] <=> (m \in {"compose_answer", "compose_research"} /\ t = Surface)
    BY DEF OutcomeRules
  <2>2. r[2][1] <=> (m = "compose_answer" /\ t = Content /\ ok /\ Surface \notin Nodes)
    BY DEF OutcomeRules
  <2>3. r[3][1] <=> (m = "compose_answer" /\ t = Content /\ ~ok)
    BY DEF OutcomeRules
  <2>4. r[4][1] <=> (m = "compose_research" /\ t = Distill /\ ok /\ Surface \notin Nodes)
    BY DEF OutcomeRules
  <2>5. r[5][1] <=> (m = "compose_research" /\ t \in Searches \cup Retries)
    BY DEF OutcomeRules
  <2>6. r[6][1] <=> (t = IndexFile /\ ok)
    BY DEF OutcomeRules
  <2>7. r[7][1] <=> (m = "birthday_reminder" /\ t = Remember /\ ok)
    BY DEF OutcomeRules
  <2>8. r[8][1] <=> (m = "birthday_reminder" /\ t = Reminder)
    BY DEF OutcomeRules
  <2>9. r[9][1] <=> (m = "birthday_reminder" /\ t = Recall)
    BY DEF OutcomeRules
  <2>10. r[10][1] <=> (m = "read_file" /\ t = ReadFile)
    BY DEF OutcomeRules
  <2>11. r[11][1] <=> (t = ListDirectory /\ ok /\ found[t] = {})
    BY DEF OutcomeRules
  <2>12. r[12][1] <=> (t = ListDirectory /\ ok)
    BY DEF OutcomeRules
  <2>13. r[13][1] <=> (t \in IndexDocs /\ AllLanded(IndexDocs \cap Nodes))
    BY DEF OutcomeRules
  <2>14. r[14][1] <=> (t = Search /\ ok /\ found[t] = {})
    BY DEF OutcomeRules
  <2>15. r[15][1] <=> (t = Search /\ ok)
    BY DEF OutcomeRules
  <2>16. r[16][1] <=> (t = Recall /\ m = "index_file" /\ Distill \notin Nodes)
    BY DEF OutcomeRules
  <2>17. r[17][1] <=> (t = Recall)
    BY DEF OutcomeRules
  <2>18. r[18][1] <=> (t = Distill /\ m # "structured_compare")
    BY DEF OutcomeRules
  <2>19. r[19][1] <=> (t \in frontier /\ AllLanded(frontier))
    BY DEF OutcomeRules
  <2>20. r[20][1] <=> (m = "structured_compare" /\ t = Distill)
    BY DEF OutcomeRules
  <2>21. r[21][1] <=> (m = "structured_compare" /\ t = Validate)
    BY DEF OutcomeRules
  <2>22. r[22][1] <=> (~ok /\ t # Answer /\ AllLanded(Nodes \ {Answer}))
    BY DEF OutcomeRules
  <2>23. r[23][1] <=> (t = Answer)
    BY DEF OutcomeRules
  <2>24. r[24][1] <=> (TRUE)
    BY DEF OutcomeRules
  <2>25. QED
    BY <2>1, <2>2, <2>3, <2>4, <2>5, <2>6, <2>7, <2>8, <2>9, <2>10, <2>11, <2>12, <2>13, <2>14, <2>15, <2>16, <2>17, <2>18, <2>19, <2>20, <2>21, <2>22, <2>23, <2>24
<1>c. frontier \subseteq Fetches \cup Searches
  OBVIOUS
<1>b. \A k : FirstOf(r, k) => k = n
  BY OneFirstRule
<1>d. /\ r[1][2] = FinishPatch /\ r[3][2] = FinishPatch /\ r[23][2] = FinishPatch /\ r[9][2] = NoPatch
      /\ r[2][2] = AddAfter({Surface}, {Content})
      /\ r[4][2] = AddAfter({Surface}, ResearchLeaves \cup {Distill})
      /\ r[5][2] = ResearchPatch(t, ok)
      /\ r[6][2] = AddAfter({Recall}, {IndexFile})
      /\ r[7][2] = AddAfter({Reminder}, {Remember})
      /\ r[12][2] = AddAfter({IndexDoc(i) : i \in found[t]}, {ListDirectory})
      /\ r[15][2] = AddAfter({Fetch(i) : i \in found[t] \ {0}}, {Search})
      /\ r[16][2] = AddAfter({Distill}, {Recall})
      /\ r[19][2] = FrontierPatch
      /\ r[20][2] = AddAfter({Validate}, {Distill})
      /\ \A k \in {8, 10, 11, 13, 14, 17, 18, 21, 22} : r[k][2] = AnswerPatch
  BY DEF OutcomeRules
<1> HIDE DEF r, frontier
<1> USE <1>a, <1>c, GroupNames DEF FirstOf, Retry, Fetch, IndexDoc, SearchFor, Answer, Content,
     Distill, IndexFile, ListDirectory, ReadFile, Recall, Remember, Reminder, Search, Surface, Validate
<1>1. m \in {"compose_answer", "compose_research"} /\ t = Surface => FirstOf(r, 1)
  OBVIOUS
<1>2. t = Answer => FirstOf(r, 23)
  OBVIOUS
<1>3. m = "compose_answer" /\ t = Content =>
        IF ok THEN Surface \notin Nodes => FirstOf(r, 2) ELSE FirstOf(r, 3)
  OBVIOUS
<1>4. m = "compose_research" /\ t = Distill /\ ok /\ Surface \notin Nodes => FirstOf(r, 4)
  OBVIOUS
<1>5. m = "compose_research" /\ t \in Searches \cup Retries => FirstOf(r, 5)
  OBVIOUS
<1>6. t = IndexFile /\ ok => FirstOf(r, 6)
  OBVIOUS
<1>7. m = "birthday_reminder" /\ t = Remember /\ ok => FirstOf(r, 7)
  OBVIOUS
<1>8. m = "birthday_reminder" /\ t = Reminder => FirstOf(r, 8)
  OBVIOUS
<1>9. m = "read_file" /\ t = ReadFile => FirstOf(r, 10)
  OBVIOUS
<1>10. t = ListDirectory /\ ok => FirstOf(r, IF found[t] = {} THEN 11 ELSE 12)
  OBVIOUS
<1>11. t \in IndexDocs /\ AllLanded(IndexDocs \cap Nodes) => FirstOf(r, 13)
  OBVIOUS
<1>12. t = Search /\ ok => FirstOf(r, IF found[t] = {} THEN 14 ELSE 15)
  OBVIOUS
<1>13. m = "index_file" /\ t = Recall /\ Distill \notin Nodes => FirstOf(r, 16)
  OBVIOUS
<1>14. m = "memory" /\ t = Recall => FirstOf(r, 17)
  OBVIOUS
<1>22. m = "birthday_reminder" /\ t = Recall => FirstOf(r, 9)
  OBVIOUS
<1>15. m \notin {"compose_research", "structured_compare"} /\ t = Distill => FirstOf(r, 18)
  OBVIOUS
<1>16. ASSUME m \in {"fetch", "search_fetch", "parallel_search", "structured_compare"},
              t \in frontier, AllLanded(frontier)
       PROVE  FirstOf(r, 19)
  <2>1. /\ t \notin {Surface, Content, Distill, IndexFile, Remember, Reminder, Recall, ReadFile}
        /\ t \notin {ListDirectory, Search} \cup IndexDocs
    BY <1>16
  <2>2. m \notin {"compose_answer", "compose_research"}
    BY <1>16
  <2>3. r[19][1] /\ \A j \in 1 .. 5 : ~r[j][1]
    BY <1>16, <2>2
  <2>4. \A j \in 6 .. 12 : ~r[j][1]
    BY <2>1
  <2>5. \A j \in 13 .. 18 : ~r[j][1]
    BY <2>1
  <2>6. QED
    BY <2>3, <2>4, <2>5
<1>17. m = "structured_compare" /\ t = Distill => FirstOf(r, 20)
  OBVIOUS
<1>18. m = "structured_compare" /\ t = Validate => FirstOf(r, 21)
  OBVIOUS
<1>19. m = "index_directory" /\ t = ListDirectory /\ ~ok /\ AllLanded(Nodes \ {Answer}) =>
        FirstOf(r, 22)
  OBVIOUS
<1> HIDE <1>a, <1>c, GroupNames DEF FirstOf, Retry, Fetch, IndexDoc, SearchFor, Answer, Content,
     Distill, IndexFile, ListDirectory, ReadFile, Recall, Remember, Reminder, Search, Surface, Validate
<1> DEFINE p == r[n][2]
<1>20. RuleAnswer(p, t, ok)
  BY <1>b, <1>d, <1>1, <1>2, <1>3, <1>4, <1>5, <1>6, <1>7, <1>8, <1>9, <1>10, <1>11, <1>12, <1>13, <1>14, <1>15, <1>16, <1>17, <1>18, <1>19, <1>22, PatchAdds DEF RuleAnswer, frontier
<1>21. QED
  BY <1>20, Zenon DEF r

-----------------------------------------------------------------------------
(* What a patch must be to fit the graph and keep GrowthInv.               *)

Fits(p, t) ==
  /\ p \in PatchType
  /\ p.add \subseteq Tasks \ Nodes
  /\ p.cancel = {} /\ p.wait = {} /\ p.resume = {} /\ p.finish \in BOOLEAN
  /\ \A c \in p.connect : \E a \in Nodes, b \in p.add : c = <<a, b>> /\ Rank(a) < Rank(b)
  /\ p.add \cap Initially = {}
  /\ IndexDocs \cap p.add # {} => t = ListDirectory
  /\ Fetches \cap p.add # {} => t = Search
  /\ Recall \in p.add => t = IndexFile
  /\ Reminder \in p.add => t = Remember
  /\ Validate \in p.add => t = Distill
  /\ \A i \in Items : Retry(i) \in p.add => t = SearchFor(i) /\ state[t] = "succeeded"

LEMMA AddAfterType ==
  ASSUME NEW S \in SUBSET Tasks, NEW parents \in SUBSET Tasks
  PROVE  AddAfter(S, parents) \in PatchType
<1>1. NoPatch \in PatchType
  BY DEF NoPatch, PatchType
<1>2. parents \X S \in SUBSET (Tasks \X Tasks)
  OBVIOUS
<1>3. QED
  BY <1>1, <1>2 DEF AddAfter, PatchType

LEMMA NoPatchFits ==
  ASSUME NEW t
  PROVE  Fits(NoPatch, t) /\ Fits(FinishPatch, t)
<1>1. NoPatch \in PatchType /\ FinishPatch \in PatchType
  BY DEF FinishPatch, NoPatch, PatchType
<1>2. QED
  BY <1>1 DEF Fits, NoPatch, FinishPatch

(* Nodes that only their own rule adds.                                    *)
Ruled == Initially \cup IndexDocs \cup Fetches \cup Retries \cup {Recall, Reminder, Validate}

LEMMA FreeAddFits ==
  ASSUME NEW b \in Tasks \ Nodes, b \notin Ruled, NEW parents \in SUBSET Nodes, NEW t,
         \A a \in parents : Rank(a) < Rank(b)
  PROVE  Fits(AddAfter({b}, parents), t)
<1> DEFINE p == AddAfter({b}, parents)
<1>1. /\ p.add = {b} /\ p.connect = parents \X {b}
      /\ p.cancel = {} /\ p.wait = {} /\ p.resume = {} /\ p.finish = FALSE
  BY DEF AddAfter, NoPatch
<1>a. p \in PatchType
  BY AddAfterType DEF Nodes
<1> HIDE DEF p
<1>2. \A c \in p.connect : \E a \in Nodes, d \in p.add : c = <<a, d>> /\ Rank(a) < Rank(d)
  BY <1>1
<1>3. \A i \in Items : Retry(i) # b
  BY DEF Ruled, Retries
<1>4. p.add \cap Initially = {} /\ IndexDocs \cap p.add = {} /\ Fetches \cap p.add = {}
  BY <1>1 DEF Ruled
<1>5. Recall \notin p.add /\ Reminder \notin p.add /\ Validate \notin p.add
  BY <1>1 DEF Ruled
<1>6. p.add \subseteq Tasks \ Nodes /\ \A i \in Items : Retry(i) \notin p.add
  BY <1>1, <1>3
<1>7. p.cancel = {} /\ p.wait = {} /\ p.resume = {} /\ p.finish \in BOOLEAN
  BY <1>1
<1>8. Fits(p, t)
  BY <1>a, <1>2, <1>4, <1>5, <1>6, <1>7 DEF Fits
<1>9. QED
  BY <1>8 DEF p

LEMMA NodeNames ==
  /\ {Answer, Surface, Validate, Distill, Recall, Reminder} \cup Fetches \cup IndexDocs \cup Retries
       \cup Initially \subseteq Tasks
  /\ Answer \notin Ruled /\ Surface \notin Ruled /\ Distill \notin Ruled
BY NodesAssumption DEF NodeIds, Ruled, Initially, Retries, Retry, Fetches, Fetch, IndexDocs, IndexDoc,
     Searches, SearchFor, Items, Answer, Content, Distill, IndexFile, ListDirectory, ReadFile, Recall,
     Remember, Reminder, Search, Surface, Validate

LEMMA Retryless ==
  Retries \cap (Initially \cup IndexDocs \cup Fetches \cup {Recall, Reminder, Validate}) = {}
BY DEF Initially, Retries, Retry, Fetches, Fetch, IndexDocs, IndexDoc, Searches, SearchFor, Items, Content,
     IndexFile, ListDirectory, ReadFile, Recall, Remember, Reminder, Search, Validate

LEMMA Apart ==
  LET ruled == {Recall, Reminder, Validate} \cup IndexDocs \cup Fetches IN
  /\ ruled \cap (Initially \cup Retries) = {}
  /\ Recall # Reminder /\ Recall # Validate /\ Reminder # Validate
  /\ IndexDocs \cap Fetches = {}
  /\ (IndexDocs \cup Fetches) \cap {Recall, Reminder, Validate} = {}
  /\ \A i \in Items : Retry(i) \notin ruled
BY DEF Initially, Retries, Retry, Fetches, Fetch, IndexDocs, IndexDoc, Searches, SearchFor, Items, Content,
     IndexFile, ListDirectory, ReadFile, Recall, Remember, Reminder, Search, Validate

LEMMA Ranks ==
  /\ Rank(Answer) = 6 /\ \A t : t # Answer => Rank(t) < 6
  /\ Rank(Surface) = 5 /\ Rank(Distill) = 3 /\ Rank(Validate) = 4 /\ Rank(Recall) = 2 /\ Rank(Reminder) = 2
  /\ \A t \in Fetches \cup IndexDocs : Rank(t) = 2
  /\ \A t \in Initially \cup Retries : Rank(t) = 1
BY DEF Rank, Initially, Retries, Retry, Fetches, Fetch, IndexDocs, IndexDoc,
     Searches, SearchFor, Items, Answer, Content, Distill, IndexFile, ListDirectory, ReadFile, Recall,
     Remember, Reminder, Search, Surface, Validate

LEMMA AnswerFits == ASSUME NEW t PROVE Fits(AnswerPatch, t)
<1>1. CASE Answer \in Nodes
  BY <1>1, NoPatchFits DEF AnswerPatch
<1>2. CASE Answer \notin Nodes
  <2> DEFINE parents == {u \in Nodes : state[u] = "succeeded"}
  <2>1. parents \in SUBSET Nodes /\ \A u \in parents : Rank(u) < Rank(Answer)
    BY <1>2, Ranks
  <2>2. Answer \in Tasks \ Nodes /\ Answer \notin Ruled
    BY <1>2, NodeNames
  <2> HIDE DEF parents
  <2>3. Fits(AddAfter({Answer}, parents), t)
    BY <2>1, <2>2, FreeAddFits
  <2>4. QED
    BY <1>2, <2>3 DEF AnswerPatch, parents
<1>3. QED
  BY <1>1, <1>2

LEMMA DistillFits ==
  ASSUME NEW t, Distill \notin Nodes, NEW parents \in SUBSET Nodes,
         parents \subseteq Searches \cup Retries \cup Fetches \cup {Recall}
  PROVE  Fits(AddAfter({Distill}, parents), t)
<1>1. \A a \in parents : Rank(a) < Rank(Distill)
  BY Ranks DEF Initially
<1>2. QED
  BY <1>1, NodeNames, FreeAddFits

LEMMA SurfaceFits ==
  ASSUME NEW t, Surface \notin Nodes, NEW parents \in SUBSET Nodes,
         parents \subseteq Searches \cup Retries \cup {Content, Distill}
  PROVE  Fits(AddAfter({Surface}, parents), t)
<1>1. \A a \in parents : Rank(a) < Rank(Surface)
  BY Ranks DEF Initially
<1>2. QED
  BY <1>1, NodeNames, FreeAddFits

LEMMA LeavesAre == ResearchLeaves \subseteq (Searches \cup Retries) \cap Nodes
BY DEF ResearchLeaves, Searches

LEMMA FrontierFits == ASSUME NEW t PROVE Fits(FrontierPatch, t)
<1>1. CASE FrontierPatch = AnswerPatch
  BY <1>1, AnswerFits
<1>2. CASE FrontierPatch # AnswerPatch
  <2>1. /\ Distill \notin Nodes
        /\ FrontierPatch = AddAfter({Distill}, IF Searches \cap Nodes # {} THEN Searches \cap Nodes
                                               ELSE Fetches \cap Nodes)
    BY <1>2 DEF FrontierPatch
  <2>2. QED
    BY <2>1, DistillFits
<1>3. QED
  BY <1>1, <1>2

LEMMA ResearchFits ==
  ASSUME NEW t, NEW ok \in BOOLEAN, ok => state[t] = "succeeded"
  PROVE  Fits(ResearchPatch(t, ok), t)
<1> DEFINE corrected == {i \in Items : ok /\ t = SearchFor(i) /\ found[t] = {} /\ Retry(i) \notin Nodes}
<1>1. CASE corrected # {}
  <2> DEFINE S == {Retry(i) : i \in corrected}
             p == AddAfter(S, {})
  <2>1. ResearchPatch(t, ok) = p
    BY <1>1 DEF ResearchPatch
  <2>2. /\ p.add = S /\ p.connect = {}
        /\ p.cancel = {} /\ p.wait = {} /\ p.resume = {} /\ p.finish = FALSE
    BY DEF AddAfter, NoPatch
  <2>a. S \subseteq Tasks => p \in PatchType
    BY AddAfterType
  <2>3. S \subseteq Retries \ Nodes /\ S \subseteq Tasks
    BY NodeNames DEF Retries
  <2>4. S \cap (Initially \cup IndexDocs \cup Fetches \cup {Recall, Reminder, Validate}) = {}
    BY <2>3, Retryless
  <2>5. \A i \in Items : Retry(i) \in S => t = SearchFor(i) /\ state[t] = "succeeded"
    BY DEF Retry, Items
  <2> HIDE DEF p, S
  <2>6. QED
    BY <2>a, <2>1, <2>2, <2>3, <2>4, <2>5 DEF Fits
<1>2. CASE corrected = {}
  <2>1. \/ ResearchPatch(t, ok) = NoPatch
        \/ Distill \notin Nodes /\ ResearchPatch(t, ok) = AddAfter({Distill}, ResearchLeaves)
    BY <1>2 DEF ResearchPatch
  <2>2. QED
    BY <2>1, NoPatchFits, LeavesAre, DistillFits
<1>3. QED
  BY <1>1, <1>2

(* What follows a task by the rule for its own outcome.                    *)
LEMMA RuledAddFits ==
  ASSUME NEW t \in Nodes, NEW S \in SUBSET (Tasks \ Nodes), \A b \in S : Rank(t) < Rank(b),
         \/ t = IndexFile /\ S = {Recall}
         \/ t = Remember /\ S = {Reminder}
         \/ t = Distill /\ S = {Validate}
         \/ t = ListDirectory /\ S \subseteq IndexDocs
         \/ t = Search /\ S \subseteq Fetches
  PROVE  Fits(AddAfter(S, {t}), t)
<1> DEFINE p == AddAfter(S, {t})
<1>1. /\ p.add = S /\ p.connect = {t} \X S
      /\ p.cancel = {} /\ p.wait = {} /\ p.resume = {} /\ p.finish = FALSE
  BY DEF AddAfter, NoPatch
<1>a. p \in PatchType
  BY AddAfterType DEF Nodes
<1> HIDE DEF p
<1>2. \A c \in p.connect : \E a \in Nodes, b \in p.add : c = <<a, b>> /\ Rank(a) < Rank(b)
  BY <1>1
<1>3. p.add \cap Initially = {} /\ \A i \in Items : Retry(i) \notin p.add
  BY <1>1, Apart
<1>4. /\ IndexDocs \cap p.add # {} => t = ListDirectory
      /\ Fetches \cap p.add # {} => t = Search
      /\ Recall \in p.add => t = IndexFile
      /\ Reminder \in p.add => t = Remember
      /\ Validate \in p.add => t = Distill
  BY <1>1, Apart
<1>5. p.add \subseteq Tasks \ Nodes
  BY <1>1
<1>6. p.cancel = {} /\ p.wait = {} /\ p.resume = {} /\ p.finish \in BOOLEAN
  BY <1>1
<1>7. Fits(p, t)
  BY <1>a, <1>2, <1>3, <1>4, <1>5, <1>6 DEF Fits
<1>8. QED
  BY <1>7 DEF p

LEMMA FoundItems ==
  ASSUME RequestTypeOK
  PROVE  found[ListDirectory] \subseteq Items /\ found[Search] \ {0} \subseteq Items
<1>1. ListDirectory \in Tasks /\ Search \in Tasks
  BY NodeNames DEF Initially
<1>2. Search # ListDirectory /\ Search \notin Searches /\ ListDirectory \notin Searches
  BY DEF Search, ListDirectory, Searches, SearchFor, Items
<1>3. Findings(ListDirectory) = Lists
  BY <1>2 DEF Findings
<1>4. Findings(Search) = Hits
  BY <1>2 DEF Findings
<1>5. found[ListDirectory] \in {{}, {1}, {1, 2}}
  BY <1>1, <1>3 DEF RequestTypeOK, Lists
<1>6. found[Search] \in {{}, {0}, {1}, {1, 2}}
  BY <1>1, <1>4 DEF RequestTypeOK, Hits
<1>7. found[ListDirectory] \subseteq Items
  BY <1>5 DEF Items
<1>8. found[Search] \ {0} \subseteq Items
  BY <1>6 DEF Items
<1>9. QED
  BY <1>7, <1>8

LEMMA RuleFits ==
  ASSUME RequestTypeOK, GrowthInv, NEW t \in Nodes, NEW ok \in BOOLEAN,
         ok => state[t] = "succeeded", ~Decided(t), NEW p, RulePatch(p, t, ok)
  PROVE  Fits(p, t)
<1>1. CASE p \in {NoPatch, FinishPatch, AnswerPatch}
  BY <1>1, NoPatchFits, AnswerFits
<1>2. CASE Surface \notin Nodes /\ t = Content /\ p = AddAfter({Surface}, {Content})
  BY <1>2, SurfaceFits
<1>3. CASE t = Distill /\ Surface \notin Nodes /\ p = AddAfter({Surface}, ResearchLeaves \cup {Distill})
  BY <1>3, LeavesAre, SurfaceFits
<1>4. CASE p = ResearchPatch(t, ok)
  BY <1>4, ResearchFits
<1>5. CASE t = IndexFile /\ p = AddAfter({Recall}, {IndexFile})
  <2>1. Recall \in Tasks \ Nodes /\ Rank(t) < Rank(Recall)
    BY <1>5, NodeNames, Ranks DEF GrowthInv, Initially
  <2>2. QED
    BY <1>5, <2>1, RuledAddFits
<1>6. CASE t = Remember /\ p = AddAfter({Reminder}, {Remember})
  <2>1. Reminder \in Tasks \ Nodes /\ Rank(t) < Rank(Reminder)
    BY <1>6, NodeNames, Ranks DEF GrowthInv, Initially
  <2>2. QED
    BY <1>6, <2>1, RuledAddFits
<1>7. CASE t = ListDirectory /\ p = AddAfter({IndexDoc(i) : i \in found[t]}, {ListDirectory})
  <2> DEFINE S == {IndexDoc(i) : i \in found[t]}
  <2>1. found[t] \subseteq Items
    BY <1>7, FoundItems
  <2>2. S \subseteq IndexDocs
    BY <2>1 DEF IndexDocs
  <2>3. S \subseteq Tasks \ Nodes /\ \A b \in S : Rank(t) < Rank(b)
    BY <1>7, <2>2, NodeNames, Ranks DEF GrowthInv, Initially
  <2> HIDE DEF S
  <2>4. Fits(AddAfter(S, {t}), t)
    BY <1>7, <2>2, <2>3, RuledAddFits
  <2>5. QED
    BY <1>7, <2>4 DEF S
<1>8. CASE t = Search /\ p = AddAfter({Fetch(i) : i \in found[t] \ {0}}, {Search})
  <2> DEFINE S == {Fetch(i) : i \in found[t] \ {0}}
  <2>1. found[t] \ {0} \subseteq Items
    BY <1>8, FoundItems
  <2>2. S \subseteq Fetches
    BY <2>1 DEF Fetches
  <2>3. S \subseteq Tasks \ Nodes /\ \A b \in S : Rank(t) < Rank(b)
    BY <1>8, <2>2, NodeNames, Ranks DEF GrowthInv, Initially
  <2> HIDE DEF S
  <2>4. Fits(AddAfter(S, {t}), t)
    BY <1>8, <2>2, <2>3, RuledAddFits
  <2>5. QED
    BY <1>8, <2>4 DEF S
<1>9. CASE t = Recall /\ Distill \notin Nodes /\ p = AddAfter({Distill}, {Recall})
  BY <1>9, DistillFits
<1>10. CASE p = FrontierPatch
  BY <1>10, FrontierFits
<1>11. CASE t = Distill /\ p = AddAfter({Validate}, {Distill})
  <2>1. Validate \in Tasks \ Nodes /\ Rank(t) < Rank(Validate)
    BY <1>11, NodeNames, Ranks DEF GrowthInv
  <2>2. QED
    BY <1>11, <2>1, RuledAddFits
<1>12. QED
  BY <1>1, <1>2, <1>3, <1>4, <1>5, <1>6, <1>7, <1>8, <1>9, <1>10, <1>11 DEF RulePatch

-----------------------------------------------------------------------------
(* The patch the planner answers.                                          *)

LEMMA RankType == \A t : Rank(t) \in 1 .. 6
BY DEF Rank

LEMMA RankedIsAcyclic ==
  ASSUME NEW E, \A c \in E : Rank(c[1]) < Rank(c[2])
  PROVE  ~HasCycle(E)
<1> SUFFICES ASSUME NEW S, S # {}, \A n \in S : \E m \in S : <<n, m>> \in E
             PROVE  FALSE
  BY DEF HasCycle
<1> DEFINE D == {6 - Rank(n) : n \in S}
<1>1. D \subseteq Nat /\ D # {}
  BY RankType
<1>2. PICK d \in D : \A x \in D : d <= x
  BY <1>1, LeastNumber
<1>3. PICK n \in S : d = 6 - Rank(n)
  BY <1>2
<1>4. PICK m \in S : <<n, m>> \in E
  BY <1>3
<1>5. Rank(n) < Rank(m)
  BY <1>4
<1>6. 6 - Rank(n) <= 6 - Rank(m)
  BY <1>2, <1>3, <1>4
<1>7. Rank(n) \in 1 .. 6 /\ Rank(m) \in 1 .. 6
  BY RankType
<1>8. QED
  BY <1>5, <1>6, <1>7

LEMMA FirstRuleAnswers ==
  ASSUME NEW t, NEW ok \in BOOLEAN
  PROVE  LET rules == OutcomeRules(t, ok)
             p == rules[CHOOSE k \in DOMAIN rules : rules[k][1] /\ \A j \in 1 .. k - 1 : ~rules[j][1]][2] IN
         RulePatch(p, t, ok) /\ RuleAnswer(p, t, ok)
<1> DEFINE rules == OutcomeRules(t, ok)
           first == CHOOSE k \in DOMAIN rules : rules[k][1] /\ \A j \in 1 .. k - 1 : ~rules[j][1]
<1>1. first \in 1 .. 24 /\ rules[first][1] /\ \A k \in 1 .. first - 1 : ~rules[k][1]
  BY FirstRuleHolds
<1> HIDE DEF first
<1>2. RulePatch(rules[first][2], t, ok)
  BY <1>1, RulePatches
<1>3. RuleAnswer(rules[first][2], t, ok)
  BY <1>1, FirstAnswers DEF FirstOf
<1>4. QED
  BY <1>2, <1>3 DEF first

LEMMA PlannerAnswersARule ==
  ASSUME NEW event, event.kind # "run_started", NEW t, event.tasks = {t}
  PROVE  LET ok == event.kind = "task_succeeded" IN
         RulePatch(PlannerPatch(event), t, ok) /\ RuleAnswer(PlannerPatch(event), t, ok)
<1> DEFINE ok == event.kind = "task_succeeded"
           rules == OutcomeRules(t, ok)
           p == rules[CHOOSE k \in DOMAIN rules : rules[k][1] /\ \A j \in 1 .. k - 1 : ~rules[j][1]][2]
<1>1. (CHOOSE u \in event.tasks : TRUE) = t
  OBVIOUS
<1>2. PlannerPatch(event) = p
  BY <1>1, Zenon DEF PlannerPatch
<1>3. ok \in BOOLEAN
  OBVIOUS
<1> HIDE DEF ok
<1>4. RulePatch(p, t, ok) /\ RuleAnswer(p, t, ok)
  BY <1>3, FirstRuleAnswers
<1> HIDE DEF p
<1>5. QED
  BY <1>2, <1>4 DEF ok

(* What holds of the graph when the planner answers.                       *)
RunInv(e) ==
  /\ TypeOK /\ FinishedIsQuiet /\ OutcomeOnce /\ DecidedOnce /\ AsksAboutEvents /\ JournalShape
  /\ NobodyForgets /\ WorkInv(e) /\ PlannerInv(e)

LEMMA TriggerFacts ==
  ASSUME NEW e \in Executors, RunInv(e), pc[e] \in Planning, trigger[e] \notin patched
  PROVE  LET event == journal[trigger[e]] IN
         \/ event.kind = "run_started" /\ trigger[e] = 1 /\ Nodes = {} /\ edges = {}
         \/ /\ event.kind # "run_started"
            /\ \E t \in Nodes :
                 /\ event.tasks = {t} /\ OutcomesOf(t) = {trigger[e]} /\ ~Decided(t)
                 /\ state[t] = "succeeded" <=> event.kind = "task_succeeded"
                 /\ state[t] \in {"succeeded", "failed"}
<1> DEFINE event == journal[trigger[e]]
<1>1. trigger[e] \in DOMAIN journal /\ event.kind \in PlannerKinds
  BY DEF RunInv, AsksAboutEvents, PlannerEvents
<1>2. CASE event.kind = "run_started"
  <2>1. trigger[e] = 1
    BY <1>1, <1>2 DEF RunInv, JournalShape
  <2>2. QED
    BY <1>2, <2>1 DEF RunInv, PlannerInv, GrowthInv
<1>3. CASE event.kind # "run_started"
  <2>1. event.kind \in OutcomeKinds
    BY <1>1, <1>3 DEF PlannerKinds
  <2>2. PICK t \in Tasks : event.tasks = {t}
    BY <1>1, <2>1 DEF RunInv, JournalShape
  <2>3. trigger[e] \in OutcomesOf(t)
    BY <1>1, <2>1, <2>2 DEF OutcomesOf
  <2>4. /\ \A i \in OutcomesOf(t) : i = trigger[e]
        /\ event.kind = (IF state[t] = "succeeded" THEN "task_succeeded" ELSE "task_failed")
        /\ state[t] \in {"succeeded", "failed"}
    BY <2>3 DEF RunInv, OutcomeOnce
  <2>5. t \in Nodes
    BY <2>4 DEF Nodes
  <2>6. OutcomesOf(t) = {trigger[e]} /\ ~Decided(t)
    BY <2>3, <2>4 DEF Decided
  <2>7. QED
    BY <1>3, <2>2, <2>4, <2>5, <2>6
<1>4. QED
  BY <1>2, <1>3

LEMMA FrontierOfMode ==
  ASSUME RequestTypeOK
  PROVE  \/ request.mode = "index_directory" /\ InitialFrontier = {ListDirectory}
         \/ request.mode = "index_file" /\ InitialFrontier = {IndexFile}
         \/ request.mode = "read_file" /\ InitialFrontier = {ReadFile}
         \/ request.mode = "fetch" /\ InitialFrontier = Fetches
         \/ request.mode = "search_fetch" /\ InitialFrontier = {Search}
         \/ request.mode = "compose_answer" /\ InitialFrontier = {Content}
         \/ /\ request.mode \in {"compose_research", "structured_compare", "parallel_search"}
            /\ InitialFrontier = Searches
         \/ request.mode \in {"birthday_reminder", "memory"} /\ InitialFrontier = {Recall}
BY DEF RequestTypeOK, Modes, InitialFrontier

LEMMA FirstPatchFits ==
  ASSUME RequestTypeOK
  PROVE  /\ FirstPatch \in PatchType
         /\ FirstPatch.add \subseteq Tasks /\ FirstPatch.connect = {}
         /\ FirstPatch.cancel = {} /\ FirstPatch.wait = {} /\ FirstPatch.resume = {}
         /\ FirstPatch.finish = FALSE
         /\ FirstPatch.add \cap (IndexDocs \cup Retries \cup {Reminder, Validate, Distill}) = {}
         /\ request.mode = "compose_research" => Searches \subseteq FirstPatch.add
         /\ Search \in FirstPatch.add => request.mode = "search_fetch"
         /\ IndexFile \in FirstPatch.add => request.mode = "index_file"
         /\ Fetches \cap FirstPatch.add # {} => request.mode = "fetch"
         /\ Recall \in FirstPatch.add => request.mode \in {"birthday_reminder", "memory"}
<1> DEFINE S == InitialFrontier \cup (IF request.explicit THEN {Remember} ELSE {})
<1>0. FirstPatch = AddAfter(S, {})
  BY Zenon DEF FirstPatch
<1> HIDE DEF S
<1>1. /\ FirstPatch.add = S /\ FirstPatch.connect = {} /\ FirstPatch.cancel = {}
      /\ FirstPatch.wait = {} /\ FirstPatch.resume = {} /\ FirstPatch.finish = FALSE
  <2>1. {} \X S = {}
    OBVIOUS
  <2>2. QED
    BY <1>0, <2>1 DEF AddAfter, NoPatch
<1>a. S \subseteq Tasks => FirstPatch \in PatchType
  BY <1>0, AddAfterType
<1>2. S \subseteq InitialFrontier \cup {Remember} /\ InitialFrontier \subseteq S
  BY DEF S
<1>3. \A i \in 1 .. 20 : i \in Tasks
  BY NodesAssumption DEF NodeIds
<1> USE DEF Initially, Retries, Retry, Fetches, Fetch, IndexDocs, IndexDoc, Searches, SearchFor, Items,
     Content, Distill, IndexFile, ListDirectory, ReadFile, Recall, Remember, Reminder, Search, Validate
<1>4. S \subseteq Tasks
  BY <1>2, <1>3, FrontierOfMode
<1>5. S \cap (IndexDocs \cup Retries \cup {Reminder, Validate, Distill}) = {}
  BY <1>2, FrontierOfMode
<1>6. request.mode = "compose_research" => Searches \subseteq S
  BY <1>2, FrontierOfMode
<1>7. Search \in S => request.mode = "search_fetch"
  BY <1>2, FrontierOfMode
<1>8. IndexFile \in S => request.mode = "index_file"
  BY <1>2, FrontierOfMode
<1>9. Fetches \cap S # {} => request.mode = "fetch"
  BY <1>2, FrontierOfMode
<1>10. Recall \in S => request.mode \in {"birthday_reminder", "memory"}
  BY <1>2, FrontierOfMode
<1>11. QED
  BY <1>1, <1>a, <1>4, <1>5, <1>6, <1>7, <1>8, <1>9, <1>10

(* What the planner is asked about, and what it answers.                   *)
LEMMA PlannerAnswer ==
  ASSUME NEW e \in Executors, RunInv(e), pc[e] \in Planning, trigger[e] \notin patched
  PROVE  LET p == PlannerPatch(journal[trigger[e]]) IN
         \/ trigger[e] = 1 /\ Nodes = {} /\ edges = {} /\ p = FirstPatch
         \/ \E t \in Nodes, ok \in BOOLEAN :
              /\ OutcomesOf(t) = {trigger[e]} /\ ~Decided(t)
              /\ state[t] = "succeeded" <=> ok
              /\ state[t] \in {"succeeded", "failed"}
              /\ RulePatch(p, t, ok) /\ RuleAnswer(p, t, ok)
              /\ Fits(p, t)
<1> DEFINE event == journal[trigger[e]]
           p == PlannerPatch(event)
<1>1. CASE event.kind = "run_started" /\ trigger[e] = 1 /\ Nodes = {} /\ edges = {}
  BY <1>1 DEF PlannerPatch
<1>2. ASSUME event.kind # "run_started", NEW t \in Nodes,
             event.tasks = {t}, OutcomesOf(t) = {trigger[e]}, ~Decided(t),
             state[t] = "succeeded" <=> event.kind = "task_succeeded",
             state[t] \in {"succeeded", "failed"}
      PROVE  \E u \in Nodes, ok \in BOOLEAN :
               /\ OutcomesOf(u) = {trigger[e]} /\ ~Decided(u)
               /\ state[u] = "succeeded" <=> ok
               /\ state[u] \in {"succeeded", "failed"}
               /\ RulePatch(p, u, ok) /\ RuleAnswer(p, u, ok)
               /\ Fits(p, u)
  <2> DEFINE ok == event.kind = "task_succeeded"
  <2>1. ok \in BOOLEAN /\ (state[t] = "succeeded" <=> ok)
    BY <1>2
  <2>2. RulePatch(p, t, ok) /\ RuleAnswer(p, t, ok)
    BY <1>2, <2>1, PlannerAnswersARule
  <2> HIDE DEF ok, p
  <2>3. Fits(p, t)
    BY <1>2, <2>1, <2>2, RuleFits DEF RunInv, PlannerInv
  <2>4. QED
    BY <1>2, <2>1, <2>2, <2>3
<1>3. QED
  BY <1>1, <1>2, TriggerFacts

LEMMA PlannerPatchIsValid ==
  ASSUME NEW e \in Executors, RunInv(e), pc[e] \in Planning, trigger[e] \notin patched
  PROVE  LET p == PlannerPatch(journal[trigger[e]]) IN p \in PatchType /\ ValidPatch(p)
<1> DEFINE p == PlannerPatch(journal[trigger[e]])
<1>1. ~finished /\ edges \subseteq Tasks \X Tasks
  BY DEF RunInv, PlannerInv, AskedInv, TypeOK, StoreTypeOK
<1>2. /\ p \in PatchType /\ p.add \subseteq Tasks \ Nodes
      /\ p.cancel = {} /\ p.wait = {} /\ p.resume = {} /\ p.finish \in BOOLEAN
      /\ \A c \in p.connect : \E a \in Nodes, b \in p.add : c = <<a, b>> /\ Rank(a) < Rank(b)
  <2>1. RequestTypeOK
    BY DEF RunInv, PlannerInv
  <2> HIDE DEF p
  <2>2. CASE Nodes = {} /\ p = FirstPatch
    BY <2>1, <2>2, FirstPatchFits
  <2>3. ASSUME NEW t \in Nodes, Fits(p, t)
        PROVE  /\ p \in PatchType /\ p.add \subseteq Tasks \ Nodes
               /\ p.cancel = {} /\ p.wait = {} /\ p.resume = {} /\ p.finish \in BOOLEAN
               /\ \A c \in p.connect : \E a \in Nodes, b \in p.add : c = <<a, b>> /\ Rank(a) < Rank(b)
    BY <2>3 DEF Fits
  <2>4. QED
    BY <2>2, <2>3, PlannerAnswer DEF p
<1> HIDE DEF p
<1>3. \A c \in edges \cup p.connect : Rank(c[1]) < Rank(c[2])
  BY <1>2 DEF RunInv, PlannerInv, GrowthInv
<1>4. \A c \in p.connect : c[1] \in Nodes \cup p.add /\ c[2] \in Nodes \cup p.add /\ c[1] # c[2]
  BY <1>2, <1>3, RankType
<1>5. ValidPatch(p)
  BY <1>1, <1>2, <1>3, <1>4, RankedIsAcyclic DEF ValidPatch
<1>6. QED
  BY <1>2, <1>5 DEF p

-----------------------------------------------------------------------------
(* The steps of a run with one executor.                                   *)

(* What such a step may be: neither does the store refuse the planner's    *)
(* patch, nor does a result come too late.                                 *)
OneStep(e) ==
  \/ BeginRun(e) \/ ResumeRun(e) \/ ReplayNext(e) \/ ReplayEnds(e) \/ PlanDuplicate(e)
  \/ trigger[e] \notin patched /\ PlanApplied(e, PlannerPatch(journal[trigger[e]]))
  \/ Launch(e) \/ NothingToLaunch(e) \/ WorkerEnds(e)
  \/ Wake(e) \/ DiscardResult(e) \/ RecordResult(e) \/ BatchEnds(e)
  \/ Crash \/ UNCHANGED vars

LEMMA AgentSteps ==
  ASSUME NEW e \in Executors, Executors = {e}, RunInv(e), [AgentNext]_agentVars
  PROVE  /\ OneStep(e)
         /\ request' = request
         /\ CommitPayload \/ UNCHANGED found
<1>1. CASE UNCHANGED agentVars
  BY <1>1 DEF agentVars, OneStep
<1>2. CASE (BeginRun(e) \/ ResumeRun(e) \/ Crash) /\ UNCHANGED <<request, found>>
  BY <1>2 DEF OneStep
<1>3. CASE AgentWorkerEnds(e)
  BY <1>3 DEF AgentWorkerEnds, OneStep
<1>4. CASE AgentStep(e)
  <2>1. request' = request /\ CommitPayload /\ ExecutorStep(e, PlannerAnswers(e))
    BY <1>4 DEF AgentStep
  <2>2. ASSUME NEW p \in PlannerAnswers(e), PlanApplied(e, p)
        PROVE  trigger[e] \notin patched /\ PlanApplied(e, PlannerPatch(journal[trigger[e]]))
    BY <2>2 DEF PlannerAnswers, PlanApplied, ApplyPatch
  <2>3. ASSUME NEW p \in PlannerAnswers(e), PlanRejected(e, p) PROVE FALSE
    <3>1. /\ pc[e] \in Planning /\ trigger[e] \notin patched /\ ~ValidPatch(p)
          /\ p = PlannerPatch(journal[trigger[e]])
      BY <2>3 DEF PlannerAnswers, PlanRejected
    <3>2. QED
      BY <3>1, PlannerPatchIsValid
  <2>4. ASSUME ResultRefused(e) PROVE FALSE
    <3>1. PICK a \in batch[e] : ~Discardable(a) /\ state[a.task] # "running"
      BY <2>4 DEF ResultRefused
    <3>2. a \in inflight[e]
      BY DEF RunInv, WorkInv, Ended
    <3>3. QED
      BY <3>1, <3>2 DEF RunInv, WorkInv, Discardable
  <2>5. OneStep(e)
    BY <2>1, <2>2, <2>3, <2>4 DEF ExecutorStep, OneStep
  <2>6. QED
    BY <2>1, <2>5
<1>5. QED
  BY <1>1, <1>2, <1>3, <1>4 DEF AgentNext

LEMMA OneStepIsAny ==
  ASSUME NEW e \in Executors, RunInv(e), OneStep(e)
  PROVE  [AnyNext]_vars
<1>1. CASE trigger[e] \notin patched /\ PlanApplied(e, PlannerPatch(journal[trigger[e]]))
  <2>1. pc[e] \in Planning
    BY <1>1 DEF PlanApplied
  <2>2. PlannerPatch(journal[trigger[e]]) \in PatchType
    BY <1>1, <2>1, PlannerPatchIsValid
  <2>3. QED
    BY <1>1, <2>2 DEF AnyNext, ExecutorStep
<1>2. CASE \/ BeginRun(e) \/ ResumeRun(e) \/ ReplayNext(e) \/ ReplayEnds(e) \/ PlanDuplicate(e)
           \/ Launch(e) \/ NothingToLaunch(e) \/ WorkerEnds(e)
           \/ Wake(e) \/ DiscardResult(e) \/ RecordResult(e) \/ BatchEnds(e)
           \/ Crash \/ UNCHANGED vars
  BY <1>2 DEF AnyNext, ExecutorStep
<1>3. QED
  BY <1>1, <1>2 DEF OneStep

LEMMA PayloadStep ==
  ASSUME RequestTypeOK, request' = request, CommitPayload \/ UNCHANGED found
  PROVE  /\ RequestTypeOK'
         /\ \A t \in Tasks : state[t] # "running" => found'[t] = found[t]
<1>1. CASE UNCHANGED found
  BY <1>1 DEF RequestTypeOK, Findings, Lists, Hits, Researches, Searches
<1>2. ASSUME NEW t \in Tasks, state[t] = "running", NEW items \in Findings(t),
             found' = [found EXCEPT ![t] = items]
      PROVE  /\ RequestTypeOK'
             /\ \A u \in Tasks : state[u] # "running" => found'[u] = found[u]
  <2>1. Findings(t) \in {Lists, Hits, Researches, {{}}}
    BY DEF Findings
  <2>2. items \in SUBSET (0 .. 2)
    BY <2>1 DEF Lists, Hits, Researches
  <2>3. QED
    BY <1>2, <2>2 DEF RequestTypeOK, Findings, Lists, Hits, Researches, Searches
<1>3. QED
  BY <1>1, <1>2 DEF CommitPayload

LEMMA DecisionsKept ==
  ASSUME TypeOK, DecidedOnce, StoreStep, patched' = patched
  PROVE  /\ Nodes' = Nodes /\ edges' = edges
         /\ \A t \in Tasks : Decided(t)' <=> Decided(t)
<1>0. state \in [Tasks -> NodeState]
  BY DEF TypeOK, StoreTypeOK
<1>1. Nodes' = Nodes /\ edges' = edges
  <2>1. CASE UNCHANGED store
    BY <2>1 DEF store, Nodes
  <2>2. CASE Start
    BY <2>2 DEF Start, Nodes
  <2>3. CASE Resume
    BY <1>0, <2>3 DEF Resume, Nodes
  <2>4. ASSUME NEW R \in SUBSET Runnable, MarkRunning(R) PROVE Nodes' = Nodes /\ edges' = edges
    BY <1>0, <2>4 DEF MarkRunning, Nodes
  <2>5. ASSUME NEW t \in Tasks, NEW b \in BOOLEAN, RecordOutcome(t, b)
        PROVE  Nodes' = Nodes /\ edges' = edges
    BY <1>0, <2>5 DEF RecordOutcome, Nodes
  <2>6. ASSUME NEW p, NEW n, ApplyPatch(p, n) PROVE FALSE
    BY <2>6 DEF ApplyPatch
  <2>7. QED
    BY <2>1, <2>2, <2>3, <2>4, <2>5, <2>6 DEF StoreStep
<1>2. ASSUME NEW t \in Tasks PROVE Decided(t)' <=> Decided(t)
  <2>1. \A i \in DOMAIN journal : i \in DOMAIN journal' /\ journal'[i] = journal[i]
    BY JournalStep
  <2>2. patched \subseteq DOMAIN journal
    BY PatchedAreEvents
  <2>3. QED
    BY <2>1, <2>2 DEF Decided, OutcomesOf
<1>3. QED
  BY <1>1, <1>2

(* What only a patch can disturb.                                          *)
LEMMA GrowthKept ==
  ASSUME NEW e \in Executors, RunInv(e), StoreStep, patched' = patched, request' = request,
         \A t \in Tasks : state[t] # "running" => found'[t] = found[t]
  PROVE  GrowthInv' /\ RetryInv' /\ DistillHasEvidence'
<1>1. /\ GrowthInv /\ RetryInv /\ DistillHasEvidence /\ OutcomeOnce
      /\ TypeOK /\ DecidedOnce
  BY DEF RunInv, PlannerInv
<1>2. /\ Nodes' = Nodes /\ edges' = edges
      /\ \A t \in Tasks : Decided(t)' <=> Decided(t)
  BY <1>1, DecisionsKept
<1>3. \A t \in Tasks : state[t] \in Terminal => state'[t] = state[t] /\ found'[t] = found[t]
  BY <1>1, TerminalStep DEF Terminal
<1>4. /\ ListDirectory \in Tasks /\ Search \in Tasks /\ IndexFile \in Tasks
      /\ Remember \in Tasks /\ Distill \in Tasks
      /\ \A i \in Items : SearchFor(i) \in Tasks /\ Retry(i) \in Tasks
  BY NodeNames DEF Initially, Searches, Retries
<1>5. GrowthInv'
  BY <1>1, <1>2, <1>4 DEF GrowthInv
<1>6. RetryInv'
  <2> SUFFICES ASSUME NEW i \in Items
               PROVE  /\ Retry(i) \in Nodes' => state'[SearchFor(i)] = "succeeded"
                      /\ /\ request'.mode = "compose_research" /\ Decided(SearchFor(i))'
                         /\ state'[SearchFor(i)] = "succeeded" /\ found'[SearchFor(i)] = {}
                         => Retry(i) \in Nodes'
    BY DEF RetryInv
  <2>1. Retry(i) \in Nodes => state[SearchFor(i)] = "succeeded"
    BY <1>1 DEF RetryInv
  <2>2. Decided(SearchFor(i)) => state[SearchFor(i)] \in Terminal
    BY <1>1, <1>4 DEF OutcomeOnce, Decided, Terminal
  <2>3. QED
    BY <1>1, <1>2, <1>3, <1>4, <2>1, <2>2 DEF RetryInv, Terminal
<1>7. DistillHasEvidence'
  <2> SUFFICES ASSUME request.mode = "compose_research", Distill \in Nodes, NEW i \in Items
               PROVE  /\ state'[SearchFor(i)] \in Terminal
                      /\ state'[SearchFor(i)] = "succeeded" /\ found'[SearchFor(i)] = {} =>
                           state'[Retry(i)] \in Terminal
    BY <1>2 DEF DistillHasEvidence
  <2>1. /\ state[SearchFor(i)] \in Terminal
        /\ state[SearchFor(i)] = "succeeded" /\ found[SearchFor(i)] = {} =>
             state[Retry(i)] \in Terminal
    BY <1>1 DEF DistillHasEvidence
  <2>2. QED
    BY <1>3, <1>4, <2>1
<1>8. QED
  BY <1>5, <1>6, <1>7

(* What the patch p does to the graph when event n is decided by it.       *)
PatchEffect(p, n) ==
  /\ Nodes' = Nodes \cup p.add /\ edges' = edges \cup p.connect /\ patched' = patched \cup {n}
  /\ found' = found /\ request' = request
  /\ \A t \in Tasks : /\ state[t] \in Terminal => state'[t] = state[t]
                      /\ state'[t] = "succeeded" => state[t] = "succeeded"
                      /\ Decided(t)' <=> Decided(t) \/ n \in OutcomesOf(t)

LEMMA PlannerPatchEffect ==
  ASSUME NEW e \in Executors, RunInv(e), trigger[e] \notin patched, NEW p \in PatchType,
         p.cancel = {}, p.wait = {}, p.resume = {},
         PlanApplied(e, p), request' = request, CommitPayload \/ UNCHANGED found
  PROVE  PatchEffect(p, trigger[e])
<1>0. TypeOK /\ state \in [Tasks -> NodeState] /\ trigger[e] \in Nat
  BY DEF RunInv, TypeOK, StoreTypeOK
<1>1. ApplyPatch(p, trigger[e]) /\ pc[e] \in Planning
  BY DEF PlanApplied
<1>2. p.add \cap Nodes = {} /\ p.add \subseteq Tasks
  BY <1>1, PatchFields DEF ApplyPatch, ValidPatch
<1>3. \A t \in Tasks : Edited(p)[t] = IF t \in p.add THEN "pending" ELSE state[t]
  BY DEF Edited
<1>4. \A t \in Tasks : state'[t] = IF t \in Leftovers(p) THEN "cancelled" ELSE Edited(p)[t]
  BY <1>1 DEF ApplyPatch
<1>5. \A t \in Tasks : t \in Leftovers(p) => Edited(p)[t] \in Open
  BY DEF Leftovers
<1>6. \A t \in Tasks : state'[t] = "succeeded" => state[t] = "succeeded"
  BY <1>3, <1>4
<1>7. Nodes' = Nodes \cup p.add
  BY <1>0, <1>2, <1>3, <1>4, <1>5 DEF Nodes, Open
<1>8. edges' = edges \cup p.connect /\ patched' = patched \cup {trigger[e]}
  BY <1>1 DEF ApplyPatch
<1>9. found' = found
  BY <1>6 DEF CommitPayload
<1>10. StoreStep
  BY <1>1 DEF StoreStep
<1>11. \A t \in Tasks : state[t] \in Terminal => state'[t] = state[t]
  BY <1>0, <1>10, TerminalStep
<1>12. \A t \in Tasks : OutcomesOf(t)' = OutcomesOf(t)
  <2> DEFINE x == [kind |-> "graph_patched", tasks |-> p.cancel \cup Leftovers(p),
                   trigger |-> trigger[e]]
  <2>1. p.cancel \cup Leftovers(p) \subseteq Tasks
    BY PatchFields DEF Leftovers
  <2>2. x \in Entry /\ x.kind \notin OutcomeKinds
    BY <1>0, <2>1 DEF Entry, Kinds, OutcomeKinds
  <2>3. journal' = Append(journal, x)
    BY <1>1 DEF ApplyPatch
  <2> HIDE DEF x
  <2>4. QED
    BY <1>0, <2>2, <2>3, OutcomesUnmoved DEF Appends
<1>13. \A t \in Tasks : Decided(t)' <=> Decided(t) \/ trigger[e] \in OutcomesOf(t)
  BY <1>8, <1>12 DEF Decided
<1>14. QED
  BY <1>6, <1>7, <1>8, <1>9, <1>11, <1>13 DEF PatchEffect

LEMMA FirstPatchStep ==
  ASSUME RequestTypeOK, Nodes = {}, edges = {}, PatchEffect(FirstPatch, 1)
  PROVE  GrowthInv' /\ RetryInv' /\ DistillHasEvidence'
<1>1. Nodes' = FirstPatch.add /\ edges' = {} /\ 1 \in patched' /\ request' = request
  BY FirstPatchFits DEF PatchEffect
<1>2. \A i \in Items : Retry(i) \in Retries /\ SearchFor(i) \in Tasks
  BY NodeNames DEF Retries, Searches, Initially
<1>3. GrowthInv'
  BY <1>1, FirstPatchFits DEF GrowthInv
<1>4. \A t \in Tasks : state'[t] # "succeeded"
  BY DEF PatchEffect, Nodes
<1>5. RetryInv'
  BY <1>1, <1>2, <1>4, FirstPatchFits DEF RetryInv
<1>6. DistillHasEvidence'
  BY <1>1, FirstPatchFits DEF DistillHasEvidence
<1>7. QED
  BY <1>3, <1>5, <1>6

LEMMA WhoAddsDistill ==
  ASSUME RequestTypeOK, request.mode = "compose_research", NEW t, NEW ok \in BOOLEAN, NEW p,
         RulePatch(p, t, ok), Distill \in p.add
  PROVE  /\ t \in Searches \cup Retries /\ p = ResearchPatch(t, ok)
         /\ AllLanded(ResearchLeaves)
         /\ \A i \in Items : ok /\ t = SearchFor(i) /\ found[t] = {} => Retry(i) \in Nodes
<1>1. /\ Distill \notin NoPatch.add /\ Distill \notin FinishPatch.add
      /\ \A S, parents : AddAfter(S, parents).add = S
  BY DEF NoPatch, FinishPatch, AddAfter
<1>2. /\ Distill \notin {Answer, Surface, Recall, Reminder, Validate} \cup IndexDocs \cup Fetches \cup Retries
  BY DEF Answer, Surface, Distill, Validate, Recall, Reminder, IndexDocs, IndexDoc, Fetches, Fetch,
         Retries, Retry, Items
<1>3. Distill \notin AnswerPatch.add /\ FrontierPatch = AnswerPatch
  BY <1>1, <1>2 DEF AnswerPatch, FrontierPatch
<1>4. CASE t = ListDirectory /\ p = AddAfter({IndexDoc(i) : i \in found[t]}, {ListDirectory})
  <2> DEFINE S == {IndexDoc(i) : i \in found[t]}
  <2>1. S \subseteq IndexDocs
    BY <1>4, FoundItems DEF IndexDocs
  <2> HIDE DEF S
  <2>2. QED
    BY <1>1, <1>2, <1>4, <2>1 DEF S
<1>5. CASE t = Search /\ p = AddAfter({Fetch(i) : i \in found[t] \ {0}}, {Search})
  <2> DEFINE S == {Fetch(i) : i \in found[t] \ {0}}
  <2>1. S \subseteq Fetches
    BY <1>5, FoundItems DEF Fetches
  <2> HIDE DEF S
  <2>2. QED
    BY <1>1, <1>2, <1>5, <2>1 DEF S
<1>6. t \in Searches \cup Retries /\ p = ResearchPatch(t, ok)
  BY <1>1, <1>2, <1>3, <1>4, <1>5 DEF RulePatch
<1>7. {i \in Items : ok /\ t = SearchFor(i) /\ found[t] = {} /\ Retry(i) \notin Nodes} = {}
  <2> DEFINE corrected == {i \in Items : ok /\ t = SearchFor(i) /\ found[t] = {} /\ Retry(i) \notin Nodes}
             S == {Retry(i) : i \in corrected}
  <2>1. SUFFICES ASSUME corrected # {} PROVE FALSE
    OBVIOUS
  <2>2. p = AddAfter(S, {})
    BY <1>6, <2>1 DEF ResearchPatch
  <2>3. S \subseteq Retries
    BY DEF Retries
  <2> HIDE DEF S
  <2>4. QED
    BY <1>1, <1>2, <2>2, <2>3
<1>8. AllLanded(ResearchLeaves)
  <2>1. p = IF Distill \notin Nodes /\ AllLanded(ResearchLeaves)
            THEN AddAfter({Distill}, ResearchLeaves) ELSE NoPatch
    BY <1>6, <1>7 DEF ResearchPatch
  <2>2. QED
    BY <1>1, <2>1
<1>9. QED
  BY <1>6, <1>7, <1>8

LEMMA RulePatchStep ==
  ASSUME NEW e \in Executors, RunInv(e), NEW n \in Nat, n \notin patched, n \in PendingPlannerEvents,
         NEW t \in Nodes, NEW ok \in BOOLEAN, NEW p,
         OutcomesOf(t) = {n}, state[t] = "succeeded" <=> ok, state[t] \in {"succeeded", "failed"},
         RulePatch(p, t, ok), Fits(p, t), PatchEffect(p, n),
         request.mode = "compose_research" /\ t \in Searches \cup Retries => p = ResearchPatch(t, ok),
         ~finished
  PROVE  GrowthInv' /\ RetryInv' /\ DistillHasEvidence'
<1>1. RequestTypeOK /\ GrowthInv /\ RetryInv /\ DistillHasEvidence /\ OutcomeOnce /\ JournalShape
  BY DEF RunInv, PlannerInv
<1>2. \A i \in PendingPlannerEvents : i = n
  BY DEF RunInv, PlannerInv, AskedInv
<1>3. \A u \in Tasks : n \in OutcomesOf(u) => u = t
  BY <1>1 DEF OutcomesOf, JournalShape
<1>4. /\ t \in Tasks /\ ListDirectory \in Tasks /\ Search \in Tasks /\ IndexFile \in Tasks
      /\ Remember \in Tasks /\ Distill \in Tasks
      /\ \A i \in Items : SearchFor(i) \in Tasks /\ Retry(i) \in Tasks
  BY NodeNames DEF Initially, Searches, Retries, Nodes
<1>5. /\ Nodes' = Nodes \cup p.add /\ edges' = edges \cup p.connect /\ patched' = patched \cup {n}
      /\ found' = found /\ request' = request
      /\ \A u \in Tasks : /\ state[u] \in Terminal => state'[u] = state[u]
                          /\ state'[u] = "succeeded" => state[u] = "succeeded"
                          /\ Decided(u)' <=> Decided(u) \/ u = t
  BY <1>3 DEF PatchEffect
<1>6. GrowthInv'
  <2>1. 1 \in patched /\ 1 \in patched'
    BY <1>1, <1>5 DEF GrowthInv
  <2>2. request.mode = "compose_research" => Searches \subseteq Nodes'
    BY <1>1, <1>5, <2>1 DEF GrowthInv
  <2>3. \A c \in edges' : c[1] \in Nodes' /\ c[2] \in Nodes' /\ Rank(c[1]) < Rank(c[2])
    BY <1>1, <1>5 DEF GrowthInv, Fits
  <2>4. /\ Search \in Nodes' => request.mode = "search_fetch"
        /\ IndexFile \in Nodes' => request.mode = "index_file"
    BY <1>1, <1>5 DEF GrowthInv, Fits, Initially
  <2>5. /\ IndexDocs \cap Nodes' # {} => Decided(ListDirectory)'
        /\ Fetches \cap Nodes' # {} => request.mode = "fetch" \/ Decided(Search)'
    BY <1>1, <1>4, <1>5 DEF GrowthInv, Fits
  <2>6. /\ Recall \in Nodes' => request.mode \in {"birthday_reminder", "memory"} \/ Decided(IndexFile)'
        /\ Reminder \in Nodes' => Decided(Remember)'
        /\ Validate \in Nodes' => Decided(Distill)'
    BY <1>1, <1>4, <1>5 DEF GrowthInv, Fits
  <2>7. QED
    BY <1>5, <2>1, <2>2, <2>3, <2>4, <2>5, <2>6 DEF GrowthInv
<1>7. RetryInv'
  <2> SUFFICES ASSUME NEW i \in Items
               PROVE  /\ Retry(i) \in Nodes' => state'[SearchFor(i)] = "succeeded"
                      /\ /\ request.mode = "compose_research" /\ Decided(SearchFor(i))'
                         /\ state'[SearchFor(i)] = "succeeded" /\ found[SearchFor(i)] = {}
                         => Retry(i) \in Nodes'
    BY <1>5 DEF RetryInv
  <2>1. Retry(i) \in Nodes' => state[SearchFor(i)] = "succeeded"
    BY <1>1, <1>5 DEF RetryInv, Fits
  <2>2. ASSUME request.mode = "compose_research", state[SearchFor(i)] = "succeeded",
               found[SearchFor(i)] = {}, SearchFor(i) = t, Retry(i) \notin Nodes
        PROVE  Retry(i) \in p.add
    <3> DEFINE corrected == {j \in Items : ok /\ t = SearchFor(j) /\ found[t] = {} /\ Retry(j) \notin Nodes}
               S == {Retry(j) : j \in corrected}
    <3>1. i \in corrected
      BY <2>2
    <3>2. p = AddAfter(S, {})
      BY <2>2, <3>1 DEF ResearchPatch, Searches
    <3>3. Retry(i) \in S
      BY <3>1
    <3> HIDE DEF S
    <3>4. QED
      BY <3>2, <3>3 DEF AddAfter, NoPatch
  <2>3. QED
    BY <1>1, <1>4, <1>5, <2>1, <2>2 DEF RetryInv, Terminal
<1>8. DistillHasEvidence'
  <2> SUFFICES ASSUME request.mode = "compose_research", Distill \in Nodes \cup p.add, NEW i \in Items
               PROVE  /\ state'[SearchFor(i)] \in Terminal
                      /\ state'[SearchFor(i)] = "succeeded" /\ found[SearchFor(i)] = {} =>
                           state'[Retry(i)] \in Terminal
    BY <1>5 DEF DistillHasEvidence
  <2>1. CASE Distill \in Nodes
    BY <1>1, <1>4, <1>5, <2>1 DEF DistillHasEvidence
  <2>2. CASE Distill \in p.add
    <3>1. /\ AllLanded(ResearchLeaves)
          /\ ok /\ t = SearchFor(i) /\ found[t] = {} => Retry(i) \in Nodes
      BY <1>1, <2>2, WhoAddsDistill
    <3>2. SearchFor(i) \in Nodes
      BY <1>1 DEF GrowthInv, Searches
    <3>3. Retry(i) \notin Nodes => SearchFor(i) \in ResearchLeaves
      BY <3>2 DEF ResearchLeaves
    <3>4. Retry(i) \in Nodes => state[SearchFor(i)] = "succeeded" /\ Retry(i) \in ResearchLeaves
      BY <1>1 DEF RetryInv, ResearchLeaves, Retries
    <3>5. state[SearchFor(i)] \in Terminal
      BY <3>1, <3>3, <3>4 DEF AllLanded, Terminal
    <3>6. ASSUME state[SearchFor(i)] = "succeeded", found[SearchFor(i)] = {}
          PROVE  Retry(i) \in Nodes
      <4>1. PICK k : k \in OutcomesOf(SearchFor(i))
        BY <1>1, <1>4, <3>6 DEF OutcomeOnce
      <4>2. CASE k \in patched
        BY <1>1, <3>6, <4>1, <4>2 DEF RetryInv, Decided
      <4>3. CASE k \notin patched
        <5>1. k = n
          BY <1>2, <4>1, <4>3 DEF OutcomesOf, PendingPlannerEvents, PlannerKinds
        <5>2. QED
          BY <1>3, <1>4, <3>1, <3>6, <4>1, <5>1
      <4>4. QED
        BY <4>2, <4>3
    <3>7. QED
      BY <1>4, <1>5, <3>1, <3>4, <3>5, <3>6 DEF AllLanded
  <2>3. QED
    BY <2>1, <2>2
<1>9. QED
  BY <1>6, <1>7, <1>8

LEMMA AskedStep ==
  ASSUME NEW e \in Executors, Executors = {e}, RunInv(e), OneStep(e)
  PROVE  AskedInv(e)'
<1> USE DEF Goto, Planning
<1>0. /\ TypeOK /\ AskedInv(e) /\ pc \in [Executors -> PC] /\ journal \in Seq(Entry)
      /\ trigger[e] \in Nat
  BY DEF RunInv, PlannerInv, TypeOK, StoreTypeOK
(* A step that leaves the store alone.                                     *)
<1>a. ASSUME UNCHANGED store, pc'[e] # "aborted", pc'[e] \in Planning => ~finished
      PROVE  AskedInv(e)'
  BY <1>0, <1>a DEF AskedInv, store, PendingPlannerEvents
(* A transaction that appends no event for the planner.                    *)
<1>b. ASSUME NEW x \in Entry, Appends(x), x.kind \notin PlannerKinds, patched \subseteq patched',
             finished' => pc'[e] \notin Planning, ~finished' => ~finished,
             pc'[e] # "aborted"
      PROVE  AskedInv(e)'
  <2>1. PendingPlannerEvents' \subseteq PendingPlannerEvents
    BY <1>0, <1>b, PendingAfter
  <2>2. QED
    BY <1>0, <1>b, <2>1 DEF AskedInv
<1>1. CASE BeginRun(e)
  <2>1. PendingPlannerEvents' \subseteq {1}
    BY <1>1 DEF BeginRun, Start, PendingPlannerEvents
  <2>2. pc'[e] = "replay"
    BY <1>0, <1>1 DEF BeginRun
  <2>3. QED
    BY <2>1, <2>2 DEF AskedInv
<1>2. CASE ResumeRun(e)
  <2> DEFINE x == Event("run_resumed", {})
  <2>1. x \in Entry /\ x.kind \notin PlannerKinds
    BY DEF Event, Entry, Kinds, PlannerKinds, OutcomeKinds
  <2>2. journal' = Append(journal, x) /\ patched' = patched /\ finished' = finished /\ pc'[e] = "replay"
    BY <1>0, <1>2 DEF ResumeRun, Resume
  <2> HIDE DEF x
  <2>3. QED
    BY <1>b, <2>1, <2>2 DEF Appends
<1>3. CASE ReplayNext(e) \/ ReplayEnds(e)
  BY <1>0, <1>3, <1>a DEF ReplayNext, ReplayEnds
<1>4. CASE PlanDuplicate(e)
  BY <1>0, <1>4, <1>a DEF PlanDuplicate, AfterPlan
<1>5. CASE trigger[e] \notin patched /\ PlanApplied(e, PlannerPatch(journal[trigger[e]]))
  <2> DEFINE p == PlannerPatch(journal[trigger[e]])
             x == [kind |-> "graph_patched", tasks |-> p.cancel \cup Leftovers(p),
                   trigger |-> trigger[e]]
  <2>1. p \in PatchType
    BY <1>5, PlannerPatchIsValid DEF PlanApplied
  <2> HIDE DEF p
  <2>2. ApplyPatch(p, trigger[e]) /\ AfterPlan(e)
    BY <1>5 DEF PlanApplied, p
  <2>3. p.cancel \cup Leftovers(p) \subseteq Tasks
    BY <2>1, PatchFields DEF Leftovers
  <2>4. x \in Entry /\ x.kind \notin PlannerKinds
    BY <1>0, <2>3 DEF Entry, Kinds, PlannerKinds, OutcomeKinds
  <2>5. journal' = Append(journal, x) /\ patched \subseteq patched' /\ ~finished
    BY <2>2 DEF ApplyPatch, ValidPatch
  <2>6. pc'[e] \in {"replay", "batch"}
    BY <1>0, <2>2 DEF AfterPlan
  <2> HIDE DEF x
  <2>7. QED
    BY <1>b, <2>4, <2>5, <2>6 DEF Appends
<1>6. CASE Launch(e)
  <2>1. PICK R \in SUBSET Runnable : MarkRunning(R)
    BY <1>6 DEF Launch
  <2> DEFINE x == Event("task_started", R)
  <2>2. x \in Entry /\ x.kind \notin PlannerKinds
    BY DEF Event, Entry, Kinds, PlannerKinds, OutcomeKinds, Runnable
  <2>3. journal' = Append(journal, x) /\ patched' = patched /\ finished' = finished /\ pc'[e] = "waiting"
    BY <1>0, <1>6, <2>1 DEF Launch, MarkRunning
  <2> HIDE DEF x
  <2>4. QED
    BY <1>b, <2>2, <2>3 DEF Appends
<1>7. CASE NothingToLaunch(e) \/ Wake(e) \/ DiscardResult(e) \/ BatchEnds(e)
  BY <1>0, <1>7, <1>a DEF NothingToLaunch, Wake, DiscardResult, BatchEnds, AskedInv
<1>8. CASE WorkerEnds(e)
  BY <1>0, <1>8, <1>a DEF WorkerEnds, AskedInv
<1>9. CASE RecordResult(e)
  <2>1. PICK a \in batch[e] : RecordOutcome(a.task, a.status = "ok")
    BY <1>9 DEF RecordResult
  <2> DEFINE x == Event(IF a.status = "ok" THEN "task_succeeded" ELSE "task_failed", {a.task})
  <2>2. x \in Entry
    BY DEF Event, Entry, Kinds, PlannerKinds, OutcomeKinds, RunInv, TypeOK, Attempt
  <2>3. journal' = Append(journal, x) /\ patched' = patched /\ finished' = finished
    BY <2>1 DEF RecordOutcome
  <2>4. ~finished => PendingPlannerEvents = {}
    BY <1>9 DEF RecordResult, RunInv, NobodyForgets, InHand
  <2>5. pc'[e] = IF finished THEN "batch" ELSE "batch_plan"
    BY <1>0, <1>9 DEF RecordResult
  <2> HIDE DEF x
  <2>6. ~finished => PendingPlannerEvents' \subseteq {Len(journal) + 1}
    BY <1>0, <2>2, <2>3, <2>4, PendingAfter DEF Appends
  <2>7. QED
    BY <2>3, <2>5, <2>6 DEF AskedInv
<1>10. CASE Crash
  BY <1>0, <1>10, <1>a DEF Crash
<1>11. CASE UNCHANGED vars
  BY <1>0, <1>11, <1>a DEF vars, local, AskedInv
<1>12. QED
  BY <1>1, <1>2, <1>3, <1>4, <1>5, <1>6, <1>7, <1>8, <1>9, <1>10, <1>11 DEF OneStep

(* Whatever the step, the planner's invariant survives it.                 *)
LEMMA PlannerStep ==
  ASSUME NEW e \in Executors, Executors = {e}, RunInv(e), [AgentNext]_agentVars
  PROVE  PlannerInv(e)'
<1>1. OneStep(e) /\ request' = request /\ (CommitPayload \/ UNCHANGED found)
  BY AgentSteps
<1>2. RequestTypeOK' /\ \A t \in Tasks : state[t] # "running" => found'[t] = found[t]
  BY <1>1, PayloadStep DEF RunInv, PlannerInv
<1>3. AskedInv(e)'
  BY <1>1, AskedStep
<1>4. GrowthInv' /\ RetryInv' /\ DistillHasEvidence'
  <2>1. TypeOK /\ [AnyNext]_vars /\ StoreStep
    BY <1>1, OneStepIsAny, AnyStepIsStoreStep DEF RunInv
  <2>2. CASE patched' = patched
    BY <1>1, <1>2, <2>1, <2>2, GrowthKept
  <2>3. CASE patched' # patched
    <3> DEFINE p == PlannerPatch(journal[trigger[e]])
    <3>1. trigger[e] \notin patched /\ PlanApplied(e, p) /\ pc[e] \in Planning
      BY <1>1, <2>3 DEF OneStep, BeginRun, Start, ResumeRun, Resume, ReplayNext, ReplayEnds,
           PlanDuplicate, Launch, MarkRunning, NothingToLaunch, WorkerEnds, Wake, DiscardResult,
           RecordResult, RecordOutcome, BatchEnds, Crash, vars, store, PlanApplied
    <3>2. /\ ~finished /\ trigger[e] \in PendingPlannerEvents /\ trigger[e] \in Nat
          /\ RequestTypeOK
      BY <3>1 DEF RunInv, PlannerInv, AskedInv, AsksAboutEvents, PlannerEvents, PendingPlannerEvents,
           TypeOK
    <3>3. p \in PatchType
      BY <3>1, PlannerPatchIsValid
    <3>4. CASE trigger[e] = 1 /\ Nodes = {} /\ edges = {} /\ p = FirstPatch
      <4>1. PatchEffect(FirstPatch, 1)
        BY <1>1, <3>1, <3>2, <3>3, <3>4, FirstPatchFits, PlannerPatchEffect
      <4>2. QED
        BY <3>2, <3>4, <4>1, FirstPatchStep
    <3>5. ASSUME NEW t \in Nodes, NEW ok \in BOOLEAN,
                 OutcomesOf(t) = {trigger[e]}, state[t] = "succeeded" <=> ok,
                 state[t] \in {"succeeded", "failed"}, RulePatch(p, t, ok), Fits(p, t),
                 RuleAnswer(p, t, ok)
          PROVE  GrowthInv' /\ RetryInv' /\ DistillHasEvidence'
      <4>1. PatchEffect(p, trigger[e])
        BY <1>1, <3>1, <3>3, <3>5, PlannerPatchEffect DEF Fits
      <4> HIDE DEF p
      <4>2. QED
        BY <3>1, <3>2, <3>5, <4>1, RulePatchStep DEF RuleAnswer
    <3>6. QED
      BY <3>1, <3>4, <3>5, PlannerAnswer
  <2>4. QED
    BY <2>2, <2>3
<1>5. QED
  BY <1>2, <1>3, <1>4 DEF PlannerInv

-----------------------------------------------------------------------------
(* The theorems.                                                           *)

LEMMA RunInvInit ==
  ASSUME NEW e \in Executors, Executors = {e}, AgentInit
  PROVE  RunInv(e)
<1>1. /\ state = [t \in Tasks |-> "absent"] /\ edges = {} /\ journal = <<>> /\ patched = {}
      /\ finished = FALSE /\ pc = [f \in Executors |-> "idle"]
      /\ replay = [f \in Executors |-> {}] /\ trigger = [f \in Executors |-> 0]
      /\ inflight = [f \in Executors |-> {}] /\ batch = [f \in Executors |-> {}]
      /\ resumes = 0 /\ crashes = 0
      /\ request \in Requests /\ found = [t \in Tasks |-> {}]
  BY DEF AgentInit, Init, StoreInit
<1>2. Nodes = {} /\ Running = {} /\ TasksOf({}) = {}
  BY <1>1 DEF Nodes, Running, TasksOf
<1>3. TypeOK
  <2>1. <<>> \in Seq(Entry)
    OBVIOUS
  <2>2. QED
    BY <1>1, <2>1 DEF TypeOK, StoreTypeOK, NodeState, PC, Suspended
<1>4. FinishedIsQuiet /\ OutcomeOnce /\ DecidedOnce /\ AsksAboutEvents /\ JournalShape /\ NobodyForgets
  <2>1. \A t \in Tasks : OutcomesOf(t) = {}
    BY <1>1 DEF OutcomesOf
  <2>2. OutcomeOnce
    BY <1>1, <2>1 DEF OutcomeOnce
  <2>3. DecidedOnce
    BY <1>1 DEF DecidedOnce
  <2>4. QED
    BY <1>1, <2>2, <2>3 DEF FinishedIsQuiet, AsksAboutEvents, JournalShape, NobodyForgets, Planning
<1>5. WorkInv(e)
  <2>1. pc[e] = "idle" /\ inflight[e] = {} /\ batch[e] = {}
    BY <1>1
  <2>2. QED
    BY <1>2, <2>1, FS_EmptySet, LimitsAssumption DEF WorkInv, OnePerTask, InLoop
<1>6. RequestTypeOK
  BY <1>1, RequestsAssumption DEF RequestTypeOK
<1>7. GrowthInv /\ RetryInv /\ DistillHasEvidence
  <2>1. \A i \in Items : SearchFor(i) \in Tasks /\ state[SearchFor(i)] = "absent"
    BY <1>1, NodeNames DEF Initially, Searches
  <2>2. GrowthInv /\ DistillHasEvidence
    BY <1>1, <1>2 DEF GrowthInv, DistillHasEvidence
  <2>3. RetryInv
    BY <1>2, <2>1 DEF RetryInv
  <2>4. QED
    BY <2>2, <2>3
<1>8. AskedInv(e)
  BY <1>1 DEF AskedInv, Planning, PendingPlannerEvents
<1>9. QED
  BY <1>3, <1>4, <1>5, <1>6, <1>7, <1>8 DEF RunInv, PlannerInv

LEMMA RunInvStep ==
  ASSUME NEW e \in Executors, Executors = {e}, RunInv(e), [AgentNext]_agentVars
  PROVE  RunInv(e)' /\ [AnyNext]_vars
<1>1. [AnyNext]_vars
  BY AgentSteps, OneStepIsAny
<1>2. /\ TypeOK /\ FinishedIsQuiet /\ OutcomeOnce /\ DecidedOnce /\ AsksAboutEvents /\ JournalShape
      /\ NobodyForgets /\ WorkInv(e)
  BY DEF RunInv
<1>3. StoreStep
  BY <1>1, <1>2, AnyStepIsStoreStep
<1>4. TypeOK'
  BY <1>1, <1>2, <1>3, StoreTypes, LocalTypes DEF TypeOK, LocalTypeOK
<1>5. FinishedIsQuiet' /\ OutcomeOnce' /\ DecidedOnce'
  BY <1>2, <1>3, QuietStep, OutcomeOnceStep, DecidedOnceStep
<1>6. AsksAboutEvents' /\ JournalShape' /\ NobodyForgets'
  BY <1>1, <1>2, <1>3, AsksStep, ShapeStep, ForgetsStep
<1>7. WorkInv(e)'
  BY <1>1, <1>2, WorkStep
<1>8. PlannerInv(e)'
  BY PlannerStep
<1>9. QED
  BY <1>1, <1>4, <1>5, <1>6, <1>7, <1>8 DEF RunInv

(* The invariant of a run that makes one call of run() at a time.          *)
LEMMA RunInvariant ==
  ASSUME NEW e \in Executors, Executors = {e}
  PROVE  AgentSpec => []RunInv(e)
<1>1. AgentInit => RunInv(e)
  BY RunInvInit
<1>2. RunInv(e) /\ [AgentNext]_agentVars => RunInv(e)'
  BY RunInvStep
<1>3. QED
  BY <1>1, <1>2, PTL DEF AgentSpec

(* Whatever was replayed after crashes, and in whatever order outcomes     *)
(* came, apply_patch accepts what the deterministic planner returns, and   *)
(* record_outcome what a worker did: run() raises for no request.          *)
THEOREM AgentRunPlannerNeverRejected ==
  ASSUME NEW e \in Executors, Executors = {e}
  PROVE  AgentSpec => []PlannerNeverRejected
<1>1. RunInv(e) => PlannerNeverRejected
  BY DEF RunInv, PlannerInv, AskedInv, PlannerNeverRejected
<1>2. QED
  BY <1>1, RunInvariant, PTL

(* An interface request's synthesis has the evidence it waited for: every  *)
(* subject landed, and each weak one after its corrective retry.           *)
THEOREM AgentRunDistillHasEvidence ==
  ASSUME NEW e \in Executors, Executors = {e}
  PROVE  AgentSpec => []DistillHasEvidence
<1>1. RunInv(e) => DistillHasEvidence
  BY DEF RunInv, PlannerInv
<1>2. QED
  BY <1>1, RunInvariant, PTL

(* The live graph under any planner whatever.                              *)
AnySpec == Init /\ [][AnyNext]_vars

(* A request's run is a run of the live graph: its planner and its workers *)
(* do nothing that the executor's invariants do not cover, so that they    *)
(* hold of the program's own planner too.                                  *)
THEOREM AgentRunIsLiveGraph ==
  ASSUME NEW e \in Executors, Executors = {e}
  PROVE  AgentSpec => AnySpec
<1>1. AgentInit => Init
  BY DEF AgentInit
<1>2. RunInv(e) /\ [AgentNext]_agentVars => [AnyNext]_vars
  BY RunInvStep
<1>3. QED
  BY <1>1, <1>2, RunInvariant, PTL DEF AgentSpec, AnySpec

-----------------------------------------------------------------------------
(* That requests are answered.                                             *)

(* The outcome of t was decided, and it was a success.                     *)
DecidedOk(t) == Decided(t) /\ state[t] = "succeeded"

AllDecided(S) == \A t \in S : Decided(t)

(* What a decided outcome is followed by while the run is not finished:    *)
(* whichever outcome of several was decided last, the node that waited for *)
(* them was added.                                                         *)
ResearchFollowed ==
  LET m == request.mode
      leaves == (Searches \cup Retries) \cap Nodes
  IN /\ m = "compose_research" /\ 1 \in patched /\ AllDecided(leaves) => Distill \in Nodes
     /\ m = "compose_research" /\ DecidedOk(Distill) => Surface \in Nodes
     /\ m \in {"compose_research", "compose_answer"} => ~Decided(Surface)
     /\ m = "compose_answer" /\ Decided(Content) => DecidedOk(Content) /\ Surface \in Nodes

IndexFollowed ==
  LET m == request.mode
      docs == IndexDocs \cap Nodes
  IN /\ DecidedOk(IndexFile) => Recall \in Nodes
     /\ m = "index_file" /\ Decided(Recall) => Distill \in Nodes
     /\ DecidedOk(ListDirectory) => IF found[ListDirectory] = {} THEN Answer \in Nodes ELSE docs # {}
     /\ m = "index_directory" /\ ~request.explicit /\ Decided(ListDirectory) =>
          Answer \in Nodes \/ state[ListDirectory] = "succeeded"
     /\ docs # {} /\ AllDecided(docs) => Answer \in Nodes

MemoryFollowed ==
  LET m == request.mode
  IN /\ m = "memory" /\ Decided(Recall) => Answer \in Nodes
     /\ m = "read_file" /\ Decided(ReadFile) => Answer \in Nodes
     /\ m = "birthday_reminder" /\ DecidedOk(Remember) => Reminder \in Nodes
     /\ m = "birthday_reminder" /\ Decided(Reminder) => Answer \in Nodes

FetchFollowed ==
  LET m == request.mode
      fetches == Fetches \cap Nodes
  IN /\ DecidedOk(Search) /\ found[Search] # {0} =>
          IF found[Search] = {} THEN Answer \in Nodes ELSE fetches # {}
     /\ m \in {"fetch", "search_fetch"} /\ fetches # {} /\ AllDecided(fetches) => Distill \in Nodes
     /\ m \in {"structured_compare", "parallel_search"} /\ 1 \in patched /\ AllDecided(Searches) =>
          Distill \in Nodes

DistillFollowed ==
  LET m == request.mode
  IN /\ m \notin {"compose_research", "structured_compare"} /\ Decided(Distill) => Answer \in Nodes
     /\ m = "structured_compare" /\ Decided(Distill) => Validate \in Nodes
     /\ m = "structured_compare" /\ Decided(Validate) => Answer \in Nodes

(* The graph of a run under way: nothing is parked or cancelled, only a    *)
(* synthesis depends on what may have failed.                              *)
GraphInv ==
  /\ \A t \in Tasks : state[t] \notin {"waiting", "cancelled"}
  /\ 1 \in patched => FirstPatch.add \subseteq Nodes
  /\ Searches \cap Nodes # {} =>
       request.mode \in {"compose_research", "structured_compare", "parallel_search"}
  /\ request.mode = "index_directory" /\ ~request.explicit =>
       Nodes \subseteq {ListDirectory, Answer} \cup IndexDocs
  /\ \A c \in edges :
       \/ state[c[1]] = "succeeded"
       \/ c[2] \in {Distill, Validate}
       \/ c[2] = Surface /\ request.mode # "compose_answer"

FollowInv ==
  ~finished =>
    /\ GraphInv /\ ~Decided(Answer)
    /\ ResearchFollowed /\ IndexFollowed /\ MemoryFollowed /\ FetchFollowed /\ DistillFollowed

(* A call under way has an event to start from.                            *)
StartedInv(e) == pc[e] # "idle" => journal # <<>>

LEMMA FirstPatchAdds ==
  FirstPatch.add = InitialFrontier \cup (IF request.explicit THEN {Remember} ELSE {})
<1> DEFINE S == InitialFrontier \cup (IF request.explicit THEN {Remember} ELSE {})
<1>1. FirstPatch = AddAfter(S, {})
  BY Zenon DEF FirstPatch
<1>2. AddAfter(S, {}).add = S
  BY PatchAdds
<1>3. QED
  BY <1>1, <1>2

(* The same request, the same first patch.                                 *)
LEMMA FirstPatchKept ==
  ASSUME request' = request
  PROVE  (FirstPatch.add)' = FirstPatch.add
BY DEF FirstPatch, InitialFrontier, AddAfter, NoPatch

LEMMA FollowKept ==
  ASSUME NEW e \in Executors, RunInv(e), FollowInv, StoreStep, patched' = patched, request' = request,
         \A t \in Tasks : state[t] # "running" => found'[t] = found[t]
  PROVE  FollowInv'
<1>0. /\ GrowthInv /\ OutcomeOnce /\ TypeOK /\ DecidedOnce /\ state \in [Tasks -> NodeState]
  BY DEF RunInv, PlannerInv, TypeOK, StoreTypeOK
<1>1. /\ finished' = finished
      /\ (\A t \in Tasks : state[t] \notin {"waiting", "cancelled"}) =>
            \A t \in Tasks : state'[t] \notin {"waiting", "cancelled"}
  <2>1. CASE UNCHANGED store
    BY <2>1 DEF store
  <2>2. CASE Start
    BY <2>2 DEF Start
  <2>3. CASE Resume
    BY <1>0, <2>3 DEF Resume
  <2>4. ASSUME NEW R \in SUBSET Runnable, MarkRunning(R)
        PROVE  /\ finished' = finished
               /\ (\A t \in Tasks : state[t] \notin {"waiting", "cancelled"}) =>
                     \A t \in Tasks : state'[t] \notin {"waiting", "cancelled"}
    BY <1>0, <2>4 DEF MarkRunning
  <2>5. ASSUME NEW t \in Tasks, NEW b \in BOOLEAN, RecordOutcome(t, b)
        PROVE  /\ finished' = finished
               /\ (\A u \in Tasks : state[u] \notin {"waiting", "cancelled"}) =>
                     \A u \in Tasks : state'[u] \notin {"waiting", "cancelled"}
    BY <1>0, <2>5 DEF RecordOutcome
  <2>6. ASSUME NEW p, NEW n, ApplyPatch(p, n) PROVE FALSE
    BY <2>6 DEF ApplyPatch
  <2>7. QED
    BY <2>1, <2>2, <2>3, <2>4, <2>5, <2>6 DEF StoreStep
<1> SUFFICES ASSUME ~finished
             PROVE  /\ GraphInv' /\ ~Decided(Answer)'
                    /\ ResearchFollowed' /\ IndexFollowed' /\ MemoryFollowed'
                    /\ FetchFollowed' /\ DistillFollowed'
  BY <1>1 DEF FollowInv
<1>2. /\ GraphInv /\ ~Decided(Answer)
      /\ ResearchFollowed /\ IndexFollowed /\ MemoryFollowed /\ FetchFollowed /\ DistillFollowed
  BY DEF FollowInv
<1>3. /\ Nodes' = Nodes /\ edges' = edges
      /\ \A t \in Tasks : Decided(t)' <=> Decided(t)
  BY <1>0, DecisionsKept
<1>4. \A t \in Tasks : state[t] \in Terminal => state'[t] = state[t] /\ found'[t] = found[t]
  BY <1>0, TerminalStep DEF Terminal
<1>5. \A t \in Tasks : Decided(t) => state[t] \in Terminal
  BY <1>0 DEF OutcomeOnce, Decided, Terminal
<1>6. \A t \in Tasks : DecidedOk(t)' <=> DecidedOk(t)
  BY <1>3, <1>4, <1>5 DEF DecidedOk
<1>7. /\ {Answer, Surface, Validate, Distill, Recall, Reminder, Content, IndexFile} \subseteq Tasks
      /\ {ListDirectory, ReadFile, Remember, Search} \subseteq Tasks
      /\ Fetches \cup IndexDocs \cup Retries \cup Searches \subseteq Tasks
  BY NodeNames DEF Initially
<1>8. \A S \in SUBSET Tasks : AllDecided(S)' <=> AllDecided(S)
  BY <1>3 DEF AllDecided
<1>9. GraphInv'
  <2>1. 1 \in patched => (FirstPatch.add)' \subseteq Nodes'
    BY <1>2, <1>3, FirstPatchKept DEF GraphInv
  <2>2. \A c \in edges : c[1] \in Tasks
    BY <1>0 DEF GrowthInv, Nodes
  <2>3. \A c \in edges' : \/ state'[c[1]] = "succeeded"
                          \/ c[2] \in {Distill, Validate}
                          \/ c[2] = Surface /\ request.mode # "compose_answer"
    BY <1>2, <1>3, <1>4, <2>2 DEF GraphInv, Terminal
  <2>4. QED
    BY <1>1, <1>2, <1>3, <2>1, <2>3 DEF GraphInv
<1>10. ResearchFollowed'
  <2>1. AllDecided((Searches \cup Retries) \cap Nodes)' <=> AllDecided((Searches \cup Retries) \cap Nodes)
    BY <1>3 DEF AllDecided, Nodes
  <2>2. QED
    BY <1>2, <1>3, <1>6, <1>7, <2>1 DEF ResearchFollowed
<1>11. IndexFollowed'
  <2>1. AllDecided(IndexDocs \cap Nodes)' <=> AllDecided(IndexDocs \cap Nodes)
    BY <1>3 DEF AllDecided, Nodes
  <2>2. DecidedOk(ListDirectory)' => found'[ListDirectory] = found[ListDirectory]
    BY <1>4, <1>5, <1>6, <1>7 DEF DecidedOk
  <2>3. Decided(ListDirectory) => state'[ListDirectory] = state[ListDirectory]
    BY <1>4, <1>5, <1>7
  <2>4. QED
    BY <1>2, <1>3, <1>6, <1>7, <2>1, <2>2, <2>3 DEF IndexFollowed
<1>12. MemoryFollowed'
  BY <1>2, <1>3, <1>6, <1>7 DEF MemoryFollowed
<1>13. FetchFollowed'
  <2>1. AllDecided(Fetches \cap Nodes)' <=> AllDecided(Fetches \cap Nodes)
    BY <1>3 DEF AllDecided, Nodes
  <2>2. AllDecided(Searches)' <=> AllDecided(Searches)
    BY <1>3, <1>7 DEF AllDecided
  <2>3. DecidedOk(Search)' => found'[Search] = found[Search]
    BY <1>4, <1>5, <1>6, <1>7 DEF DecidedOk
  <2>4. QED
    BY <1>2, <1>3, <1>6, <1>7, <2>1, <2>2, <2>3 DEF FetchFollowed
<1>14. DistillFollowed'
  BY <1>2, <1>3, <1>6, <1>7 DEF DistillFollowed
<1>15. ~Decided(Answer)'
  BY <1>2, <1>3, <1>7
<1>16. QED
  BY <1>9, <1>10, <1>11, <1>12, <1>13, <1>14, <1>15

(* A patch that parks and cancels nothing and does not finish the run.     *)
LEMMA PatchStates ==
  ASSUME TypeOK, NEW p \in PatchType, NEW n, ApplyPatch(p, n), p.cancel = {}, p.wait = {}, p.resume = {}
  PROVE  /\ finished' = p.finish
         /\ ~p.finish => \A t \in Tasks : state'[t] = IF t \in p.add THEN "pending" ELSE state[t]
<1>1. finished' = p.finish
  BY DEF ApplyPatch
<1>2. \A t \in Tasks : Edited(p)[t] = IF t \in p.add THEN "pending" ELSE state[t]
  BY DEF Edited
<1>3. ~p.finish => Leftovers(p) = {}
  BY DEF Leftovers
<1>4. \A t \in Tasks : state'[t] = IF t \in Leftovers(p) THEN "cancelled" ELSE Edited(p)[t]
  BY DEF ApplyPatch
<1>5. QED
  BY <1>1, <1>2, <1>3, <1>4

LEMMA FollowFirst ==
  ASSUME RequestTypeOK, Nodes = {}, edges = {}, PatchEffect(FirstPatch, 1), FollowInv, OutcomeOnce, ~finished,
         finished' = FALSE, \A t \in Tasks : OutcomesOf(t) = {} /\ 1 \notin OutcomesOf(t),
         \A t \in Tasks : state'[t] = IF t \in FirstPatch.add THEN "pending" ELSE state[t]
  PROVE  FollowInv'
<1>1. Nodes' = FirstPatch.add /\ edges' = {} /\ request' = request /\ FirstPatch.add \subseteq Tasks
  BY FirstPatchFits DEF PatchEffect
<1>2. \A t \in Tasks : ~Decided(t)' /\ ~DecidedOk(t)'
  BY DEF PatchEffect, Decided, DecidedOk
<1>3. /\ {Answer, Surface, Validate, Distill, Recall, Reminder, Content, IndexFile} \subseteq Tasks
      /\ {ListDirectory, ReadFile, Remember, Search} \subseteq Tasks
      /\ Fetches \cup IndexDocs \cup Retries \cup Searches \subseteq Tasks
  BY NodeNames DEF Initially
<1>4. \A S \in SUBSET Tasks : AllDecided(S)' => S = {}
  BY <1>2 DEF AllDecided
<1>5. GraphInv'
  <2>1. \A t \in Tasks : state'[t] \notin {"waiting", "cancelled"}
    BY DEF FollowInv, GraphInv
  <2>2. (FirstPatch.add)' \subseteq Nodes'
    BY <1>1, FirstPatchKept
  <2>3. Searches \cap FirstPatch.add # {} =>
          request.mode \in {"compose_research", "structured_compare", "parallel_search"}
    BY FrontierOfMode, FirstPatchAdds
       DEF Searches, SearchFor, Fetches, Fetch, Items, Content, IndexFile, ListDirectory, ReadFile,
           Recall, Remember, Search
  <2>4. request.mode = "index_directory" /\ ~request.explicit => FirstPatch.add \subseteq {ListDirectory}
    BY FrontierOfMode, FirstPatchAdds
  <2>5. QED
    BY <1>1, <2>1, <2>2, <2>3, <2>4 DEF GraphInv
<1>6. ResearchFollowed'
  <2>1. request.mode = "compose_research" => Searches \subseteq Nodes'
    BY <1>1, FirstPatchFits
  <2>2. SearchFor(1) \in Searches
    BY DEF Searches, Items
  <2>3. request.mode = "compose_research" => ~AllDecided((Searches \cup Retries) \cap Nodes)'
    BY <1>2, <1>3, <2>1, <2>2 DEF AllDecided
  <2>4. QED
    BY <1>1, <1>2, <1>3, <2>3 DEF ResearchFollowed
<1>7. IndexFollowed'
  <2>1. IndexDocs \cap Nodes' = {}
    BY <1>1, FirstPatchFits
  <2>2. QED
    BY <1>1, <1>2, <1>3, <2>1 DEF IndexFollowed
<1>8. MemoryFollowed' /\ DistillFollowed' /\ ~Decided(Answer)'
  BY <1>1, <1>2, <1>3 DEF MemoryFollowed, DistillFollowed
<1>9. FetchFollowed'
  <2>1. AllDecided(Fetches \cap Nodes)' => (Fetches \cap Nodes)' = {}
    BY <1>2, <1>3 DEF AllDecided
  <2>2. SearchFor(1) \in Searches
    BY DEF Searches, Items
  <2>3. ~AllDecided(Searches)'
    BY <1>2, <1>3, <2>2 DEF AllDecided
  <2>4. QED
    BY <1>1, <1>2, <1>3, <2>1, <2>3 DEF FetchFollowed
<1>10. QED
  BY <1>5, <1>6, <1>7, <1>8, <1>9 DEF FollowInv

(* Where the edges of a rule's patch come from.                            *)
LEMMA RuleEdges ==
  ASSUME NEW t, NEW ok \in BOOLEAN, ok => state[t] = "succeeded", NEW p, RulePatch(p, t, ok)
  PROVE  \A c \in p.connect : \/ state[c[1]] = "succeeded"
                              \/ c[2] \in {Distill, Validate}
                              \/ c[2] = Surface /\ request.mode # "compose_answer"
<1>1. /\ NoPatch.connect = {} /\ FinishPatch.connect = {}
      /\ \A S, parents : AddAfter(S, parents).connect = parents \X S
  BY DEF NoPatch, FinishPatch, AddAfter
<1> DEFINE Good(q) == \A c \in q.connect : \/ state[c[1]] = "succeeded"
                                           \/ c[2] \in {Distill, Validate}
                                           \/ c[2] = Surface /\ request.mode # "compose_answer"
<1>2. \A S : \A parents : (\A u \in parents : state[u] = "succeeded") => Good(AddAfter(S, parents))
  BY <1>1
<1>3. \A parents : Good(AddAfter({Distill}, parents)) /\ Good(AddAfter({Validate}, parents))
  BY <1>1
<1>4. \A parents : request.mode # "compose_answer" => Good(AddAfter({Surface}, parents))
  BY <1>1
<1>5. \A S : Good(AddAfter(S, {})) /\ Good(NoPatch) /\ Good(FinishPatch)
  BY <1>1
<1> HIDE DEF Good
<1>6. Good(AnswerPatch) /\ Good(FrontierPatch) /\ Good(ResearchPatch(t, ok))
  <2>1. Good(AnswerPatch)
    BY <1>2, <1>5 DEF AnswerPatch
  <2>2. Good(FrontierPatch)
    BY <1>3, <2>1 DEF FrontierPatch
  <2>3. Good(ResearchPatch(t, ok))
    BY <1>3, <1>5 DEF ResearchPatch
  <2>4. QED
    BY <2>1, <2>2, <2>3
<1>7. Good(p)
  BY <1>2, <1>3, <1>4, <1>5, <1>6 DEF RulePatch
<1>8. QED
  BY <1>7 DEF Good

(* A directory's request that remembers nothing has the documents alone.   *)
LEMMA DirectoryPatch ==
  ASSUME RequestTypeOK, request.mode = "index_directory", NEW t \in {ListDirectory, Answer} \cup IndexDocs,
         NEW ok \in BOOLEAN, NEW p, RulePatch(p, t, ok)
  PROVE  p.add \subseteq {Answer} \cup IndexDocs
<1>1. /\ NoPatch.add = {} /\ FinishPatch.add = {} /\ AnswerPatch.add \subseteq {Answer}
      /\ FrontierPatch = AnswerPatch
  BY PatchAdds DEF NoPatch, FinishPatch, AnswerPatch, FrontierPatch
<1>2. t \notin {Content, Distill, IndexFile, Remember, Search, Recall} \cup Searches \cup Retries
  BY GroupNames DEF Retry, IndexDoc, SearchFor, Answer, Content, Distill, IndexFile, ListDirectory, Recall,
     Remember, Search
<1>3. {IndexDoc(i) : i \in found[ListDirectory]} \subseteq IndexDocs
  BY FoundItems DEF IndexDocs
<1>4. CASE p \in {NoPatch, FinishPatch, AnswerPatch} \/ p = FrontierPatch
  BY <1>1, <1>4
<1>5. CASE t = ListDirectory /\ p = AddAfter({IndexDoc(i) : i \in found[t]}, {ListDirectory})
  <2>1. p.add = {IndexDoc(i) : i \in found[ListDirectory]}
    BY <1>5, PatchAdds
  <2>2. QED
    BY <1>3, <2>1
<1>6. QED
  BY <1>2, <1>4, <1>5 DEF RulePatch

(* The patch of a rule keeps what decided outcomes are followed by.        *)
LEMMA FollowPatch ==
  ASSUME NEW e \in Executors, RunInv(e), FollowInv, NEW n \in Nat, n \notin patched,
         NEW t \in Nodes, NEW ok \in BOOLEAN, NEW p,
         OutcomesOf(t) = {n}, state[t] = "succeeded" <=> ok, state[t] \in {"succeeded", "failed"},
         RulePatch(p, t, ok), RuleAnswer(p, t, ok), Fits(p, t), PatchEffect(p, n), ~finished,
         finished' = p.finish,
         ~p.finish => \A u \in Tasks : state'[u] = IF u \in p.add THEN "pending" ELSE state[u]
  PROVE  FollowInv'
<1> SUFFICES ASSUME ~finished'
             PROVE  /\ GraphInv' /\ ~Decided(Answer)'
                    /\ ResearchFollowed' /\ IndexFollowed' /\ MemoryFollowed'
                    /\ FetchFollowed' /\ DistillFollowed'
  BY DEF FollowInv
<1>1. /\ RequestTypeOK /\ GrowthInv /\ OutcomeOnce /\ JournalShape
      /\ GraphInv /\ ~Decided(Answer)
      /\ ResearchFollowed /\ IndexFollowed /\ MemoryFollowed /\ FetchFollowed /\ DistillFollowed
  BY DEF RunInv, PlannerInv, FollowInv
<1>2. /\ p # FinishPatch /\ p.add \subseteq Tasks \ Nodes /\ t \in Tasks /\ ~Decided(t)
      /\ \A u \in Tasks : state'[u] = IF u \in p.add THEN "pending" ELSE state[u]
  <2>1. FinishPatch.finish = TRUE /\ p.finish = FALSE
    BY DEF FinishPatch, NoPatch, Fits
  <2>2. QED
    BY <2>1 DEF Fits, Nodes, Decided
<1>3. \A u \in Tasks : n \in OutcomesOf(u) => u = t
  BY <1>1 DEF OutcomesOf, JournalShape
<1>4. /\ Nodes' = Nodes \cup p.add /\ edges' = edges \cup p.connect
      /\ found' = found /\ request' = request /\ 1 \in patched
      /\ \A u \in Tasks : Decided(u)' <=> Decided(u) \/ u = t
  BY <1>1, <1>3 DEF PatchEffect, GrowthInv
<1>5. \A u \in Tasks : Decided(u) => state[u] \in Terminal /\ u \in Nodes
  BY <1>1 DEF OutcomeOnce, Decided, Terminal, Nodes
<1>6. \A u \in Tasks : DecidedOk(u)' <=> DecidedOk(u) \/ (u = t /\ ok)
  BY <1>2, <1>4, <1>5 DEF DecidedOk, Nodes
<1>7. /\ {Answer, Surface, Validate, Distill, Recall, Reminder, Content, IndexFile} \subseteq Tasks
      /\ {ListDirectory, ReadFile, Remember, Search} \subseteq Tasks
      /\ Fetches \cup IndexDocs \cup Retries \cup Searches \subseteq Tasks
  BY NodeNames DEF Initially
(* When all of a group are decided, the last of them has just been.        *)
<1>8. ASSUME NEW S \in SUBSET Tasks, \A u \in S \cap Nodes' : Decided(u)'
      PROVE  /\ S \cap p.add = {} /\ S \cap Nodes' = S \cap Nodes /\ AllLanded(S \cap Nodes)
             /\ t \notin S => \A u \in S \cap Nodes : Decided(u)
  <2>1. \A u \in S \cap Nodes' : Decided(u) \/ u = t
    BY <1>4, <1>8
  <2>2. S \cap Nodes' \subseteq Nodes
    BY <1>5, <2>1
  <2>3. \A u \in S \cap Nodes : state[u] \in Terminal
    BY <1>4, <1>5, <2>1 DEF Terminal
  <2>4. QED
    BY <1>2, <1>4, <2>1, <2>2, <2>3 DEF AllLanded
<1>9. GraphInv'
  <2>1. (FirstPatch.add)' \subseteq Nodes'
    BY <1>1, <1>4, FirstPatchKept DEF GraphInv
  <2>2. Searches \cap Nodes' = Searches \cap Nodes
    BY <1>4 DEF Fits, Initially
  <2>3. request.mode = "index_directory" /\ ~request.explicit =>
          Nodes' \subseteq {ListDirectory, Answer} \cup IndexDocs
    BY <1>1, <1>4, DirectoryPatch DEF GraphInv
  <2>4. \A c \in p.connect : \/ state[c[1]] = "succeeded"
                             \/ c[2] \in {Distill, Validate}
                             \/ c[2] = Surface /\ request.mode # "compose_answer"
    BY RuleEdges
  <2>5. \A c \in edges \cup p.connect : c[1] \in Nodes
    BY <1>1 DEF GrowthInv, Fits
  <2>6. \A c \in edges' : \/ state'[c[1]] = "succeeded"
                          \/ c[2] \in {Distill, Validate}
                          \/ c[2] = Surface /\ request.mode # "compose_answer"
    BY <1>1, <1>2, <1>4, <2>4, <2>5 DEF GraphInv, Nodes
  <2>7. \A u \in Tasks : state'[u] \notin {"waiting", "cancelled"}
    BY <1>1, <1>2 DEF GraphInv
  <2>8. QED
    BY <1>1, <1>4, <2>1, <2>2, <2>3, <2>6, <2>7 DEF GraphInv
<1>10. ResearchFollowed'
  <2> DEFINE leaves == Searches \cup Retries
  <2>1. ASSUME request.mode = "compose_research", AllDecided(leaves \cap Nodes)', Distill \notin Nodes
        PROVE  Distill \in p.add
    <3>1. leaves \cap p.add = {} /\ AllLanded(leaves \cap Nodes)
      BY <1>7, <1>8, <2>1 DEF AllDecided
    <3>2. t \in leaves
      BY <1>1, <1>4, <1>7, <1>8, <2>1 DEF AllDecided, ResearchFollowed
    <3>3. p = ResearchPatch(t, ok)
      BY <2>1, <3>2 DEF RuleAnswer
    <3> DEFINE corrected == {i \in Items : ok /\ t = SearchFor(i) /\ found[t] = {} /\ Retry(i) \notin Nodes}
    <3>4. corrected = {}
      <4>1. SUFFICES ASSUME NEW i \in corrected PROVE FALSE
        OBVIOUS
      <4> DEFINE S == {Retry(j) : j \in corrected}
      <4>2. p = AddAfter(S, {})
        BY <3>3, <4>1 DEF ResearchPatch
      <4>3. Retry(i) \in S /\ Retry(i) \in Retries
        BY DEF Retries
      <4> HIDE DEF S
      <4>4. QED
        BY <3>1, <4>2, <4>3, PatchAdds
    <3>5. AllLanded(ResearchLeaves)
      BY <3>1, LeavesAre DEF AllLanded
    <3>6. p = AddAfter({Distill}, ResearchLeaves)
      BY <2>1, <3>3, <3>4, <3>5 DEF ResearchPatch
    <3>7. QED
      BY <3>6, PatchAdds
  <2>2. request.mode = "compose_research" /\ DecidedOk(Distill)' => Surface \in Nodes'
    BY <1>1, <1>4, <1>6, <1>7 DEF ResearchFollowed, RuleAnswer
  <2>3. request.mode \in {"compose_research", "compose_answer"} => ~Decided(Surface)'
    BY <1>1, <1>2, <1>4, <1>7 DEF ResearchFollowed, RuleAnswer
  <2>4. request.mode = "compose_answer" /\ Decided(Content)' => DecidedOk(Content)' /\ Surface \in Nodes'
    BY <1>1, <1>2, <1>4, <1>6, <1>7 DEF ResearchFollowed, RuleAnswer
  <2>5. QED
    BY <1>4, <2>1, <2>2, <2>3, <2>4 DEF ResearchFollowed
<1>11. IndexFollowed'
  <2>1. DecidedOk(IndexFile)' => Recall \in Nodes'
    BY <1>1, <1>4, <1>6, <1>7 DEF IndexFollowed, RuleAnswer
  <2>2. request.mode = "index_file" /\ Decided(Recall)' => Distill \in Nodes'
    BY <1>1, <1>4, <1>7 DEF IndexFollowed, RuleAnswer
  <2>3. DecidedOk(ListDirectory)' =>
          IF found[ListDirectory] = {} THEN Answer \in Nodes' ELSE IndexDocs \cap Nodes' # {}
    <3>1. CASE t = ListDirectory /\ ok
      <4>1. found[ListDirectory] \subseteq Items
        BY <1>1, FoundItems
      <4>2. ASSUME found[ListDirectory] # {} PROVE IndexDocs \cap p.add # {}
        <5>1. PICK i \in found[ListDirectory] : TRUE
          BY <4>2
        <5>2. p.add = {IndexDoc(j) : j \in found[ListDirectory]}
          BY <3>1, <4>2 DEF RuleAnswer
        <5>3. IndexDoc(i) \in p.add /\ IndexDoc(i) \in IndexDocs
          BY <4>1, <5>1, <5>2 DEF IndexDocs
        <5>4. QED
          BY <5>3
      <4>3. QED
        BY <1>4, <3>1, <4>2 DEF RuleAnswer
    <3>2. QED
      BY <1>1, <1>4, <1>6, <1>7, <3>1 DEF IndexFollowed
  <2>4. request.mode = "index_directory" /\ ~request.explicit /\ Decided(ListDirectory)' =>
          Answer \in Nodes' \/ state'[ListDirectory] = "succeeded"
    <3>1. CASE request.mode = "index_directory" /\ ~request.explicit /\ t = ListDirectory /\ ~ok
      <4>1. IndexDocs \cap Nodes = {}
        BY <1>1, <1>2, <3>1 DEF GrowthInv
      <4>2. AllLanded(Nodes \ {Answer})
        BY <1>1, <3>1, <4>1 DEF GraphInv, AllLanded, Terminal
      <4>3. QED
        BY <1>4, <3>1, <4>2 DEF RuleAnswer
    <3>2. QED
      BY <1>1, <1>2, <1>4, <1>5, <1>7, <3>1 DEF IndexFollowed, Nodes
  <2>5. ASSUME IndexDocs \cap Nodes' # {}, AllDecided(IndexDocs \cap Nodes)'
        PROVE  Answer \in Nodes'
    <3>1. /\ IndexDocs \cap Nodes' = IndexDocs \cap Nodes /\ AllLanded(IndexDocs \cap Nodes)
          /\ t \notin IndexDocs => \A u \in IndexDocs \cap Nodes : Decided(u)
      BY <1>7, <1>8, <2>5 DEF AllDecided
    <3>2. QED
      BY <1>1, <1>4, <2>5, <3>1 DEF IndexFollowed, RuleAnswer, AllDecided
  <2>6. QED
    BY <1>4, <2>1, <2>2, <2>3, <2>4, <2>5 DEF IndexFollowed
<1>12. MemoryFollowed'
  BY <1>1, <1>4, <1>6, <1>7 DEF MemoryFollowed, RuleAnswer
<1>13. FetchFollowed'
  <2>1. ASSUME DecidedOk(Search)', found[Search] # {0}
        PROVE  IF found[Search] = {} THEN Answer \in Nodes' ELSE Fetches \cap Nodes' # {}
    <3>1. CASE t = Search /\ ok
      <4>1. found[Search] \ {0} \subseteq Items
        BY <1>1, FoundItems
      <4>2. ASSUME found[Search] # {} PROVE Fetches \cap p.add # {}
        <5>1. PICK i \in found[Search] \ {0} : TRUE
          BY <2>1, <4>2
        <5>2. p.add = {Fetch(j) : j \in found[Search] \ {0}}
          BY <3>1, <4>2 DEF RuleAnswer
        <5>3. Fetch(i) \in p.add /\ Fetch(i) \in Fetches
          BY <4>1, <5>1, <5>2 DEF Fetches
        <5>4. QED
          BY <5>3
      <4>3. QED
        BY <1>4, <3>1, <4>2 DEF RuleAnswer
    <3>2. QED
      BY <1>1, <1>4, <1>6, <1>7, <2>1, <3>1 DEF FetchFollowed
  <2>2. ASSUME request.mode \in {"fetch", "search_fetch"}, Fetches \cap Nodes' # {},
               AllDecided(Fetches \cap Nodes)'
        PROVE  Distill \in Nodes'
    <3>1. /\ Fetches \cap Nodes' = Fetches \cap Nodes /\ AllLanded(Fetches \cap Nodes)
          /\ t \notin Fetches => \A u \in Fetches \cap Nodes : Decided(u)
      BY <1>7, <1>8, <2>2 DEF AllDecided
    <3>2. (Fetches \cup Searches) \cap Nodes = Fetches \cap Nodes
      BY <1>1, <2>2 DEF GraphInv
    <3>3. t \in Fetches => Distill \in Nodes'
      BY <1>4, <2>2, <3>1, <3>2 DEF RuleAnswer
    <3>4. QED
      BY <1>1, <1>4, <2>2, <3>1, <3>3 DEF FetchFollowed, AllDecided
  <2>3. ASSUME request.mode \in {"structured_compare", "parallel_search"}, AllDecided(Searches)'
        PROVE  Distill \in Nodes'
    <3>1. Searches \subseteq Nodes
      BY <1>1, <1>4, <2>3, FirstPatchAdds, FrontierOfMode DEF GraphInv
    <3>2. Fetches \cap Nodes = {}
      BY <1>1, <1>5, <1>7, <2>3 DEF GrowthInv
    <3>3. (Fetches \cup Searches) \cap Nodes = Searches /\ Searches \cap Nodes = Searches
      BY <3>1, <3>2
    <3>4. AllLanded(Searches) /\ (t \notin Searches => \A u \in Searches : Decided(u))
      BY <1>7, <1>8, <2>3, <3>3 DEF AllDecided
    <3>5. t \in Searches => Distill \in Nodes'
      BY <1>4, <2>3, <3>3, <3>4 DEF RuleAnswer
    <3>6. QED
      BY <1>1, <1>4, <2>3, <3>4, <3>5 DEF FetchFollowed, AllDecided
  <2>4. QED
    BY <1>4, <2>1, <2>2, <2>3 DEF FetchFollowed
<1>14. DistillFollowed'
  BY <1>1, <1>4, <1>7 DEF DistillFollowed, RuleAnswer
<1>15. ~Decided(Answer)'
  BY <1>1, <1>2, <1>4, <1>7 DEF RuleAnswer
<1>16. QED
  BY <1>9, <1>10, <1>11, <1>12, <1>13, <1>14, <1>15

LEMMA FollowStep ==
  ASSUME NEW e \in Executors, Executors = {e}, RunInv(e), FollowInv, [AgentNext]_agentVars
  PROVE  FollowInv'
<1>1. OneStep(e) /\ request' = request /\ (CommitPayload \/ UNCHANGED found)
  BY AgentSteps
<1>2. \A t \in Tasks : state[t] # "running" => found'[t] = found[t]
  BY <1>1, PayloadStep DEF RunInv, PlannerInv
<1>3. TypeOK /\ StoreStep
  BY <1>1, OneStepIsAny, AnyStepIsStoreStep DEF RunInv
<1>4. CASE patched' = patched
  BY <1>1, <1>2, <1>3, <1>4, FollowKept
<1>5. CASE patched' # patched
  <2> DEFINE p == PlannerPatch(journal[trigger[e]])
  <2>1. trigger[e] \notin patched /\ PlanApplied(e, p) /\ pc[e] \in Planning
    BY <1>1, <1>5 DEF OneStep, BeginRun, Start, ResumeRun, Resume, ReplayNext, ReplayEnds,
         PlanDuplicate, Launch, MarkRunning, NothingToLaunch, WorkerEnds, Wake, DiscardResult,
         RecordResult, RecordOutcome, BatchEnds, Crash, vars, store, PlanApplied
  <2>2. ~finished /\ trigger[e] \in Nat /\ RequestTypeOK /\ OutcomeOnce /\ JournalShape
    BY <2>1 DEF RunInv, PlannerInv, AskedInv, TypeOK
  <2>3. p \in PatchType /\ ApplyPatch(p, trigger[e])
    BY <2>1, PlannerPatchIsValid DEF PlanApplied
  <2>4. CASE trigger[e] = 1 /\ Nodes = {} /\ edges = {} /\ p = FirstPatch
    <3>1. PatchEffect(FirstPatch, 1)
      BY <1>1, <2>1, <2>2, <2>3, <2>4, FirstPatchFits, PlannerPatchEffect
    <3>2. /\ finished' = FALSE
          /\ \A t \in Tasks : state'[t] = IF t \in FirstPatch.add THEN "pending" ELSE state[t]
      <4> HIDE DEF p
      <4>1. /\ p.cancel = {} /\ p.wait = {} /\ p.resume = {} /\ p.finish = FALSE
        BY <2>2, <2>4, FirstPatchFits
      <4>2. QED
        BY <1>3, <2>3, <2>4, <4>1, PatchStates
    <3>3. \A t \in Tasks : OutcomesOf(t) = {}
      BY <2>2, <2>4 DEF OutcomeOnce, Nodes
    <3>4. QED
      BY <2>2, <2>4, <3>1, <3>2, <3>3, FollowFirst
  <2>5. ASSUME NEW t \in Nodes, NEW ok \in BOOLEAN,
               OutcomesOf(t) = {trigger[e]}, state[t] = "succeeded" <=> ok,
               state[t] \in {"succeeded", "failed"}, RulePatch(p, t, ok), Fits(p, t),
               RuleAnswer(p, t, ok)
        PROVE  FollowInv'
    <3>1. PatchEffect(p, trigger[e])
      BY <1>1, <2>1, <2>3, <2>5, PlannerPatchEffect DEF Fits
    <3> HIDE DEF p
    <3>2. /\ finished' = p.finish
          /\ ~p.finish => \A u \in Tasks : state'[u] = IF u \in p.add THEN "pending" ELSE state[u]
      BY <1>3, <2>3, <2>5, PatchStates DEF Fits
    <3>3. QED
      BY <2>1, <2>2, <2>5, <3>1, <3>2, FollowPatch
  <2>6. QED
    BY <2>1, <2>4, <2>5, PlannerAnswer
<1>6. QED
  BY <1>4, <1>5

LEMMA StartedStep ==
  ASSUME NEW e \in Executors, Executors = {e}, RunInv(e), StartedInv(e), [AgentNext]_agentVars
  PROVE  StartedInv(e)'
<1>1. OneStep(e) /\ TypeOK /\ pc \in [Executors -> PC] /\ StoreStep
  BY AgentSteps, OneStepIsAny, AnyStepIsStoreStep DEF RunInv, TypeOK
<1>2. journal # <<>> => journal' # <<>>
  <2>1. journal \in Seq(Entry) /\ \A i \in DOMAIN journal : i \in DOMAIN journal'
    BY <1>1, JournalStep DEF TypeOK, StoreTypeOK
  <2>2. journal # <<>> => 1 \in DOMAIN journal
    BY <2>1
  <2>3. QED
    BY <2>1, <2>2
<1> USE DEF StartedInv, Goto
<1>3. CASE BeginRun(e)
  BY <1>3 DEF BeginRun, Start
<1>4. CASE ResumeRun(e)
  BY <1>2, <1>4 DEF ResumeRun, Resume
<1>5. CASE trigger[e] \notin patched /\ PlanApplied(e, PlannerPatch(journal[trigger[e]]))
  BY <1>2, <1>5 DEF PlanApplied, Planning
<1>6. CASE \/ ReplayNext(e) \/ ReplayEnds(e) \/ PlanDuplicate(e) \/ Launch(e) \/ NothingToLaunch(e)
           \/ Wake(e) \/ DiscardResult(e) \/ RecordResult(e) \/ BatchEnds(e)
  BY <1>2, <1>6 DEF ReplayNext, ReplayEnds, PlanDuplicate, Planning, Launch, NothingToLaunch, Wake,
       DiscardResult, RecordResult, BatchEnds
<1>7. CASE WorkerEnds(e) \/ UNCHANGED vars
  BY <1>2, <1>7 DEF WorkerEnds, vars, local
<1>8. CASE Crash
  BY <1>8 DEF Crash
<1>9. QED
  BY <1>1, <1>3, <1>4, <1>5, <1>6, <1>7, <1>8 DEF OneStep

-----------------------------------------------------------------------------
(* What a run that returned unfinished would look like.                    *)

AnswerInv(e) == RunInv(e) /\ FollowInv /\ NothingRunnableLeft /\ StartedInv(e)

(* Every parent of t succeeded.                                            *)
Unblocked(t) == \A c \in edges : c[2] = t => state[c[1]] = "succeeded"

LEMMA LeftByReturn ==
  ASSUME NEW e \in Executors, Executors = {e}, AnswerInv(e), Returned, ~finished
  PROVE  /\ 1 \in patched
         /\ \A t \in Nodes : state[t] \in {"pending", "succeeded", "failed"}
         /\ \A t \in Nodes : Unblocked(t) => Decided(t)
<1>1. /\ pc[e] = "done" /\ RunInv(e) /\ GraphInv /\ journal # <<>> /\ Runnable = {}
      /\ TypeOK /\ OutcomeOnce /\ JournalShape /\ NobodyForgets /\ WorkInv(e)
  BY DEF AnswerInv, Returned, FollowInv, NothingRunnableLeft, StartedInv, RunInv
<1>2. PendingPlannerEvents = {}
  BY <1>1 DEF NobodyForgets, InHand, Planning
<1>3. 1 \in patched
  <2>1. journal \in Seq(Entry)
    BY <1>1 DEF TypeOK, StoreTypeOK
  <2>2. 1 \in DOMAIN journal
    BY <1>1, <2>1
  <2>3. QED
    BY <1>1, <1>2, <2>2 DEF JournalShape, PendingPlannerEvents, PlannerKinds
<1>4. \A t \in Nodes : state[t] \in {"pending", "succeeded", "failed"}
  <2>1. Running = {}
    BY <1>1 DEF WorkInv, InLoop, TasksOf
  <2>2. QED
    BY <1>1, <2>1 DEF Running, GraphInv, Nodes, TypeOK, StoreTypeOK, NodeState, Open, Terminal
<1>5. ASSUME NEW t \in Nodes, Unblocked(t)
      PROVE  Decided(t)
  <2>1. state[t] # "pending"
    BY <1>1, <1>5 DEF Runnable, Parents, Unblocked, Nodes
  <2>2. PICK i : i \in OutcomesOf(t)
    BY <1>1, <1>4, <2>1 DEF OutcomeOnce, Nodes
  <2>3. i \in patched
    BY <1>2, <2>2 DEF OutcomesOf, PendingPlannerEvents, PlannerKinds
  <2>4. QED
    BY <2>2, <2>3 DEF Decided
<1>6. QED
  BY <1>3, <1>4, <1>5

(* Where nothing failed, nothing waits for what will not come.             *)
LEMMA AllSucceed ==
  ASSUME NEW e \in Executors, Executors = {e}, AnswerInv(e), Returned, ~finished, NothingFailed
  PROVE  \A t \in Nodes : DecidedOk(t)
<1>1. \A t \in Nodes : state[t] \in {"pending", "succeeded"} /\ (Unblocked(t) => Decided(t))
  BY LeftByReturn DEF NothingFailed, Nodes
<1>2. GrowthInv /\ OutcomeOnce
  BY DEF AnswerInv, RunInv, PlannerInv
<1> DEFINE Left == {t \in Nodes : state[t] = "pending"}
           R == {Rank(t) : t \in Left}
<1>3. Left = {}
  <2>1. SUFFICES ASSUME Left # {} PROVE FALSE
    OBVIOUS
  <2>2. R \subseteq Nat /\ R # {}
    BY <2>1, RankType
  <2>3. PICK r \in R : \A x \in R : r <= x
    BY <2>2, LeastNumber
  <2>4. PICK t \in Left : r = Rank(t)
    BY <2>3
  <2>5. Unblocked(t)
    <3>1. SUFFICES ASSUME NEW c \in edges, c[2] = t, state[c[1]] # "succeeded" PROVE FALSE
      BY DEF Unblocked
    <3>2. c[1] \in Left /\ Rank(c[1]) < Rank(t)
      BY <1>1, <1>2, <3>1 DEF GrowthInv
    <3>3. Rank(t) <= Rank(c[1]) /\ Rank(t) \in 1 .. 6 /\ Rank(c[1]) \in 1 .. 6
      BY <2>3, <2>4, <3>2, RankType
    <3>4. QED
      BY <3>2, <3>3
  <2>6. Decided(t)
    BY <1>1, <2>5
  <2>7. QED
    BY <1>2, <2>6 DEF Decided, OutcomeOnce, Nodes
<1>4. \A t \in Nodes : Unblocked(t)
  BY <1>1, <1>2, <1>3 DEF GrowthInv, Unblocked
<1>5. QED
  BY <1>1, <1>3, <1>4 DEF DecidedOk

LEMMA AnsweredAtReturn ==
  ASSUME NEW e \in Executors, Executors = {e}, AnswerInv(e)
  PROVE  RequestsAreAnswered
<1>0. SUFFICES ASSUME Returned, ~finished,
                      \/ /\ NothingFailed /\ found[Search] # {0}
                         /\ request.mode = "birthday_reminder" => request.explicit
                      \/ request.mode \in {"memory", "read_file", "compose_answer"}
                      \/ request.mode = "index_directory" /\ ~request.explicit
               PROVE  FALSE
  BY DEF RequestsAreAnswered
<1>1. /\ RequestTypeOK /\ GrowthInv /\ OutcomeOnce /\ GraphInv /\ ~Decided(Answer)
      /\ ResearchFollowed /\ IndexFollowed /\ MemoryFollowed /\ FetchFollowed /\ DistillFollowed
  BY <1>0 DEF AnswerInv, RunInv, PlannerInv, FollowInv
<1>2. /\ 1 \in patched
      /\ \A t \in Nodes : Unblocked(t) => Decided(t)
  BY <1>0, LeftByReturn
<1>3. \A t \in Nodes : t \notin {Distill, Validate, Surface} => \A c \in edges : c[2] = t => state[c[1]] = "succeeded"
  BY <1>1 DEF GraphInv
<1>4. \A t \in Nodes : t \notin {Distill, Validate, Surface} => Decided(t)
  BY <1>2, <1>3 DEF Unblocked
<1>5. Answer \notin {Distill, Validate, Surface}
  BY DEF Answer, Distill, Validate, Surface
<1>6. Answer \notin Nodes
  BY <1>1, <1>4, <1>5
<1>7. InitialFrontier \subseteq Nodes /\ (request.explicit => Remember \in Nodes)
  BY <1>1, <1>2, FirstPatchAdds DEF GraphInv
<1> USE FrontierOfMode
<1>8. ASSUME NothingFailed, found[Search] # {0},
             request.mode = "birthday_reminder" => request.explicit
      PROVE  FALSE
  <2>1. \A t \in Nodes : DecidedOk(t) /\ Decided(t) /\ state[t] = "succeeded"
    BY <1>0, <1>8, AllSucceed DEF DecidedOk
  <2>2. \A S : AllDecided(S \cap Nodes)
    BY <2>1 DEF AllDecided
  <2>3. CASE request.mode = "compose_research"
    BY <1>1, <1>2, <2>1, <2>2, <2>3 DEF ResearchFollowed
  <2>4. CASE request.mode = "compose_answer"
    BY <1>1, <1>7, <2>1, <2>4 DEF ResearchFollowed
  <2>5. CASE request.mode = "index_directory"
    BY <1>1, <1>6, <1>7, <2>1, <2>2, <2>5 DEF IndexFollowed
  <2>6. CASE request.mode = "index_file"
    BY <1>1, <1>6, <1>7, <2>1, <2>6 DEF IndexFollowed, DistillFollowed
  <2>7. CASE request.mode = "read_file" \/ request.mode = "memory"
    BY <1>1, <1>6, <1>7, <2>1, <2>7 DEF MemoryFollowed
  <2>8. CASE request.mode = "birthday_reminder"
    BY <1>1, <1>6, <1>7, <1>8, <2>1, <2>8 DEF MemoryFollowed
  <2>9. CASE request.mode = "fetch"
    <3>1. Fetches \cap Nodes # {}
      BY <1>1, <1>7, <2>9, GroupNames
    <3>2. QED
      BY <1>1, <1>6, <2>1, <2>2, <2>9, <3>1 DEF FetchFollowed, DistillFollowed
  <2>10. CASE request.mode = "search_fetch"
    BY <1>1, <1>6, <1>7, <1>8, <2>1, <2>2, <2>10 DEF FetchFollowed, DistillFollowed
  <2>11. CASE request.mode \in {"structured_compare", "parallel_search"}
    <3>1. AllDecided(Searches)
      BY <1>1, <1>7, <2>1, <2>11 DEF AllDecided
    <3>2. Distill \in Nodes
      BY <1>1, <1>2, <2>11, <3>1 DEF FetchFollowed
    <3>3. QED
      BY <1>1, <1>6, <2>1, <2>11, <3>2 DEF DistillFollowed
  <2>12. QED
    BY <1>1, <2>3, <2>4, <2>5, <2>6, <2>7, <2>8, <2>9, <2>10, <2>11 DEF RequestTypeOK, Modes
<1>9. CASE request.mode \in {"memory", "read_file"}
  <2>1. Recall \notin {Distill, Validate, Surface} /\ ReadFile \notin {Distill, Validate, Surface}
    BY DEF Recall, ReadFile, Distill, Validate, Surface
  <2>2. QED
    BY <1>1, <1>4, <1>6, <1>7, <1>9, <2>1 DEF MemoryFollowed
<1>10. CASE request.mode = "compose_answer"
  <2>1. Content \notin {Distill, Validate, Surface} /\ Surface \notin {Distill, Validate}
    BY DEF Content, Distill, Validate, Surface
  <2>2. Surface \in Nodes
    BY <1>1, <1>4, <1>7, <1>10, <2>1 DEF ResearchFollowed
  <2>3. Unblocked(Surface)
    BY <1>1, <1>10, <2>1 DEF GraphInv, Unblocked
  <2>4. QED
    BY <1>1, <1>2, <1>10, <2>2, <2>3 DEF ResearchFollowed
<1>11. CASE request.mode = "index_directory" /\ ~request.explicit
  <2>1. ListDirectory \notin {Distill, Validate, Surface} /\ IndexDocs \cap {Distill, Validate, Surface} = {}
    BY GroupNames DEF ListDirectory, IndexDoc, Distill, Validate, Surface
  <2>2. DecidedOk(ListDirectory)
    BY <1>1, <1>4, <1>6, <1>7, <1>11, <2>1 DEF IndexFollowed, DecidedOk
  <2>3. IndexDocs \cap Nodes # {} /\ AllDecided(IndexDocs \cap Nodes)
    BY <1>1, <1>4, <1>6, <2>1, <2>2 DEF IndexFollowed, AllDecided
  <2>4. QED
    BY <1>1, <1>6, <2>3 DEF IndexFollowed
<1>12. QED
  BY <1>0, <1>8, <1>9, <1>10, <1>11

LEMMA AnswerInvariant ==
  ASSUME NEW e \in Executors, Executors = {e}
  PROVE  AgentSpec => []AnswerInv(e)
<1>1. AgentInit => AnswerInv(e)
  <2> SUFFICES ASSUME AgentInit PROVE AnswerInv(e)
    OBVIOUS
  <2>1. /\ state = [t \in Tasks |-> "absent"] /\ edges = {} /\ journal = <<>> /\ patched = {}
        /\ finished = FALSE /\ pc = [f \in Executors |-> "idle"]
    BY DEF AgentInit, Init, StoreInit
  <2>2. Nodes = {} /\ Runnable = {}
    BY <2>1 DEF Nodes, Runnable
  <2>3. \A t : ~Decided(t) /\ ~DecidedOk(t)
    BY <2>1 DEF Decided, DecidedOk
  <2>4. /\ Answer \in Tasks /\ Fetches \cap Nodes = {} /\ IndexDocs \cap Nodes = {}
    BY <2>2, NodeNames
  <2>5. GraphInv
    BY <2>1, <2>2 DEF GraphInv
  <2>6. FollowInv
    BY <2>1, <2>2, <2>3, <2>4, <2>5 DEF FollowInv, ResearchFollowed, IndexFollowed, MemoryFollowed,
         FetchFollowed, DistillFollowed
  <2>7. QED
    BY <2>1, <2>2, <2>6, RunInvInit DEF AnswerInv, NothingRunnableLeft, StartedInv
<1>2. AnswerInv(e) /\ [AgentNext]_agentVars => AnswerInv(e)'
  <2> SUFFICES ASSUME AnswerInv(e), [AgentNext]_agentVars PROVE AnswerInv(e)'
    OBVIOUS
  <2>1. RunInv(e) /\ TypeOK /\ FollowInv /\ NothingRunnableLeft /\ StartedInv(e)
    BY DEF AnswerInv, RunInv
  <2>2. RunInv(e)' /\ [AnyNext]_vars
    BY <2>1, RunInvStep
  <2>3. FollowInv' /\ StartedInv(e)'
    BY <2>1, FollowStep, StartedStep
  <2>4. NothingRunnableLeft'
    BY <2>1, <2>2, LeftStep
  <2>5. QED
    BY <2>2, <2>3, <2>4 DEF AnswerInv
<1>3. QED
  BY <1>1, <1>2, PTL DEF AgentSpec

(* A request none of whose workers failed ends with its answer, whatever   *)
(* was interrupted and replayed and in whatever order outcomes came, in    *)
(* every mode but the two the rules leave hanging; some requests whatever  *)
(* failed.                                                                 *)
THEOREM AgentRunRequestsAreAnswered ==
  ASSUME NEW e \in Executors, Executors = {e}
  PROVE  AgentSpec => []RequestsAreAnswered
<1>1. AnswerInv(e) => RequestsAreAnswered
  BY AnsweredAtReturn
<1>2. QED
  BY <1>1, AnswerInvariant, PTL

-----------------------------------------------------------------------------
(* That nothing is missed.                                                 *)

(* The nodes a request of mode m may have.                                 *)
Universe(m) ==
  {Answer, Remember} \cup
  CASE m = "index_directory"    -> {ListDirectory} \cup IndexDocs
    [] m = "index_file"         -> {IndexFile, Recall, Distill}
    [] m = "read_file"          -> {ReadFile}
    [] m = "birthday_reminder"  -> {Recall, Reminder}
    [] m = "fetch"              -> Fetches \cup {Distill}
    [] m = "search_fetch"       -> {Search, Distill} \cup Fetches
    [] m = "compose_research"   -> Searches \cup Retries \cup {Distill, Surface}
    [] m = "compose_answer"     -> {Content, Surface}
    [] m = "structured_compare" -> Searches \cup {Distill, Validate}
    [] m = "parallel_search"    -> Searches \cup {Distill}
    [] m = "memory"             -> {Recall}

UniverseInv == Nodes \subseteq Universe(request.mode)

(* What puts together the outcomes of others.                              *)
Joins == {Distill, Validate, Surface, Answer}

(* A node that puts others together is added when those were decided.      *)
LayerInv ==
  /\ \A x \in Joins \cap Nodes : \A t \in Nodes \ {Remember} : Rank(t) < Rank(x) => Decided(t)
  /\ request.mode = "birthday_reminder" /\ {Answer, Remember} \subseteq Nodes => Decided(Remember)

(* The immediate workers end within the batch they are launched for.       *)
SettleInv(e) ==
  /\ pc[e] \in {"batch", "batch_plan"} =>
       \A a \in inflight[e] : a.task \in Immediate => a \in batch[e]
  /\ pc[e] = "fill" => \A a \in inflight[e] : a.task \notin Immediate

(* What is to be remembered is launched at once, but for fetches that go   *)
(* before it, and never after an answer or a page was asked for.           *)
RememberInv ==
  /\ state[Remember] = "pending" =>
       /\ \A t \in Nodes : state[t] = "pending" \/ (request.mode = "fetch" /\ t \in Fetches)
       /\ Answer \notin Nodes /\ Surface \notin Nodes
  /\ request.mode = "birthday_reminder" =>
       /\ state[Remember] = "running" => state[Recall] # "pending"
       /\ state[Remember] \in {"succeeded", "failed"} => state[Recall] \in {"succeeded", "failed"}

(* What an attempt to put others together has before it.                   *)
HasBefore(a, t) == \E i \in OutcomesOf(t) : i < a.number

JoinInv(e) ==
  \A a \in inflight[e] : a.task \in Joins =>
    /\ \A t \in Nodes \ {a.task, Remember} : HasBefore(a, t)
    /\ a.task \in {Answer, Surface} /\ Remember \in Nodes => HasBefore(a, Remember)

MissInv(e) ==
  /\ UniverseInv /\ SettleInv(e)
  /\ crashes = 0 =>
       /\ pc[e] = "idle" => journal = <<>>
       /\ JoinInv(e)
       /\ ~finished => LayerInv /\ RememberInv

(* What node tells of the mode.                                            *)
LEMMA NodesOfMode ==
  ASSUME NEW m \in Modes
  PROVE  LET U == Universe(m) IN
         /\ {Answer, Remember} \subseteq U
         /\ Content \in U => m = "compose_answer" /\ U = {Answer, Remember, Content, Surface}
         /\ IndexFile \in U => m = "index_file" /\ U = {Answer, Remember, IndexFile, Recall, Distill}
         /\ ListDirectory \in U \/ IndexDocs \cap U # {} =>
              m = "index_directory" /\ U = {Answer, Remember, ListDirectory} \cup IndexDocs
         /\ ReadFile \in U => m = "read_file" /\ U = {Answer, Remember, ReadFile}
         /\ Recall \in U =>
              \/ m = "index_file" /\ U = {Answer, Remember, IndexFile, Recall, Distill}
              \/ m = "birthday_reminder" /\ U = {Answer, Remember, Recall, Reminder}
              \/ m = "memory" /\ U = {Answer, Remember, Recall}
         /\ Reminder \in U => m = "birthday_reminder"
         /\ m = "birthday_reminder" => U = {Answer, Remember, Recall, Reminder}
         /\ Search \in U => m = "search_fetch" /\ U = {Answer, Remember, Search, Distill} \cup Fetches
         /\ Fetches \cap U # {} =>
              \/ m = "fetch" /\ U = {Answer, Remember, Distill} \cup Fetches
              \/ m = "search_fetch" /\ U = {Answer, Remember, Search, Distill} \cup Fetches
         /\ m \in {"structured_compare", "parallel_search"} =>
              U \subseteq Searches \cup {Answer, Remember, Distill, Validate}
         /\ Searches \cap U # {} => m \in {"compose_research", "structured_compare", "parallel_search"}
         /\ m = "compose_research" => U = {Answer, Remember, Distill, Surface} \cup Searches \cup Retries
         /\ m = "structured_compare" => Validate \in U
         /\ m \in {"fetch", "search_fetch", "parallel_search", "structured_compare", "index_file"} =>
              Distill \in U
         /\ Validate \in U => m = "structured_compare"
         /\ Retries \cap U # {} => m = "compose_research"
<1>1. /\ m = "index_directory" => Universe(m) = {1, 12, 9, 6, 7}
      /\ m = "index_file" => Universe(m) = {1, 12, 8, 11, 3}
      /\ m = "read_file" => Universe(m) = {1, 12, 10}
      /\ m = "birthday_reminder" => Universe(m) = {1, 12, 11, 13}
      /\ m = "fetch" => Universe(m) = {1, 12, 4, 5, 3}
      /\ m = "search_fetch" => Universe(m) = {1, 12, 16, 3, 4, 5}
      /\ m = "compose_research" => Universe(m) = {1, 12, 17, 18, 14, 15, 3, 19}
      /\ m = "compose_answer" => Universe(m) = {1, 12, 2, 19}
      /\ m = "structured_compare" => Universe(m) = {1, 12, 17, 18, 3, 20}
      /\ m = "parallel_search" => Universe(m) = {1, 12, 17, 18, 3}
      /\ m = "memory" => Universe(m) = {1, 12, 11}
  BY GroupNames DEF Universe, Fetch, IndexDoc, SearchFor, Retry, Answer, Content, Distill, IndexFile,
     ListDirectory, ReadFile, Recall, Remember, Reminder, Search, Surface, Validate
<1>2. QED
  BY <1>1, GroupNames DEF Modes, Fetch, IndexDoc, SearchFor, Retry, Answer, Content, Distill, IndexFile,
     ListDirectory, ReadFile, Recall, Remember, Reminder, Search, Surface, Validate

LEMMA FirstPatchInUniverse ==
  ASSUME RequestTypeOK
  PROVE  FirstPatch.add \subseteq Universe(request.mode)
<1>1. FirstPatch.add \subseteq InitialFrontier \cup {Remember}
  BY FirstPatchAdds
<1>2. InitialFrontier \subseteq Universe(request.mode) /\ Remember \in Universe(request.mode)
  BY FrontierOfMode DEF Universe
<1>3. QED
  BY <1>1, <1>2

(* What the rules for the outcome of t add, name by name.                  *)
Addition(t, ok, A) ==
  LET frontier == (Fetches \cup Searches) \cap Nodes
      m == request.mode
  IN \/ A = {}
     \/ A = {Answer} /\ Answer \notin Nodes /\ AnswersAfter(t, ok)
     \/ /\ A = {Answer} /\ Answer \notin Nodes /\ t \in frontier /\ AllLanded(frontier)
        /\ Distill \in Nodes \/ m \notin {"fetch", "search_fetch", "parallel_search", "structured_compare"}
     \/ A = {Surface} /\ m = "compose_answer" /\ t = Content
     \/ A = {Surface} /\ m = "compose_research" /\ t = Distill
     \/ A \subseteq Retries /\ m = "compose_research" /\ t \in Searches \cup Retries
     \/ A = {Distill} /\ m = "compose_research" /\ t \in Searches \cup Retries
     \/ A = {Recall} /\ t = IndexFile
     \/ A = {Reminder} /\ m = "birthday_reminder" /\ t = Remember
     \/ A \subseteq IndexDocs /\ t = ListDirectory
     \/ A \subseteq Fetches /\ t = Search
     \/ A = {Distill} /\ t = Recall /\ m = "index_file"
     \/ /\ A = {Distill} /\ t \in frontier /\ AllLanded(frontier) /\ Distill \notin Nodes
        /\ m \in {"fetch", "search_fetch", "parallel_search", "structured_compare"}
     \/ A = {Validate} /\ m = "structured_compare" /\ t = Distill

LEMMA RuleAddition ==
  ASSUME RequestTypeOK, NEW t, NEW ok \in BOOLEAN, NEW p, RulePatch(p, t, ok)
  PROVE  Addition(t, ok, p.add)
<1>1. /\ NoPatch.add = {} /\ FinishPatch.add = {}
      /\ \A S, parents : AddAfter(S, parents).add = S
  BY DEF NoPatch, FinishPatch, AddAfter
<1>2. AnswerPatch.add = {} \/ (Answer \notin Nodes /\ AnswerPatch.add = {Answer})
  BY <1>1 DEF AnswerPatch
<1>3. CASE p \in {NoPatch, FinishPatch}
  BY <1>1, <1>3 DEF Addition
<1>4. CASE p = AnswerPatch /\ AnswersAfter(t, ok)
  <2> DEFINE A == p.add
  <2>1. A = {} \/ (A = {Answer} /\ Answer \notin Nodes)
    BY <1>2, <1>4
  <2> HIDE DEF A
  <2>2. Addition(t, ok, A)
    BY <1>4, <2>1, Zenon DEF Addition
  <2>3. QED
    BY <2>2 DEF A
<1>5. CASE \/ request.mode = "compose_answer" /\ t = Content /\ p = AddAfter({Surface}, {Content})
           \/ /\ request.mode = "compose_research" /\ t = Distill
              /\ p = AddAfter({Surface}, ResearchLeaves \cup {Distill})
  BY <1>1, <1>5 DEF Addition
<1>6. CASE request.mode = "compose_research" /\ t \in Searches \cup Retries /\ p = ResearchPatch(t, ok)
  <2> DEFINE corrected == {i \in Items : ok /\ t = SearchFor(i) /\ found[t] = {} /\ Retry(i) \notin Nodes}
             S == {Retry(i) : i \in corrected}
  <2>1. S \subseteq Retries
    BY DEF Retries
  <2>2. p.add = S \/ p.add = {Distill} \/ p.add = {}
    BY <1>1, <1>6 DEF ResearchPatch
  <2> HIDE DEF S
  <2>3. QED
    BY <1>6, <2>1, <2>2 DEF Addition
<1>7. CASE \/ t = IndexFile /\ p = AddAfter({Recall}, {IndexFile})
           \/ request.mode = "birthday_reminder" /\ t = Remember /\ p = AddAfter({Reminder}, {Remember})
  BY <1>1, <1>7 DEF Addition
<1>8. CASE t = ListDirectory /\ p = AddAfter({IndexDoc(i) : i \in found[t]}, {ListDirectory})
  <2>1. {IndexDoc(i) : i \in found[t]} \subseteq IndexDocs
    BY <1>8, FoundItems DEF IndexDocs
  <2>2. QED
    BY <1>1, <1>8, <2>1 DEF Addition
<1>9. CASE t = Search /\ p = AddAfter({Fetch(i) : i \in found[t] \ {0}}, {Search})
  <2>1. {Fetch(i) : i \in found[t] \ {0}} \subseteq Fetches
    BY <1>9, FoundItems DEF Fetches
  <2>2. QED
    BY <1>1, <1>9, <2>1 DEF Addition
<1>10. CASE t = Recall /\ request.mode = "index_file" /\ p = AddAfter({Distill}, {Recall})
  BY <1>1, <1>10 DEF Addition
<1>11. CASE /\ p = FrontierPatch /\ t \in (Fetches \cup Searches) \cap Nodes
            /\ AllLanded((Fetches \cup Searches) \cap Nodes)
  <2>1. CASE /\ request.mode \in {"fetch", "search_fetch", "parallel_search", "structured_compare"}
             /\ Distill \notin Nodes
    <3>1. p.add = {Distill}
      BY <1>1, <1>11, <2>1 DEF FrontierPatch
    <3>2. QED
      BY <1>11, <2>1, <3>1 DEF Addition
  <2>2. CASE ~ (/\ request.mode \in {"fetch", "search_fetch", "parallel_search", "structured_compare"}
                /\ Distill \notin Nodes)
    <3>1. p = AnswerPatch
      BY <1>11, <2>2 DEF FrontierPatch
    <3>2. QED
      BY <1>2, <1>11, <2>2, <3>1 DEF Addition
  <2>3. QED
    BY <2>1, <2>2
<1>12. CASE request.mode = "structured_compare" /\ t = Distill /\ p = AddAfter({Validate}, {Distill})
  BY <1>1, <1>12 DEF Addition
<1>13. QED
  BY <1>3, <1>4, <1>5, <1>6, <1>7, <1>8, <1>9, <1>10, <1>11, <1>12, Zenon DEF RulePatch

LEMMA AdditionInUniverse ==
  ASSUME RequestTypeOK, UniverseInv, NEW t \in Nodes, NEW ok \in BOOLEAN, NEW A, Addition(t, ok, A)
  PROVE  A \subseteq Universe(request.mode)
<1> DEFINE m == request.mode
           U == Universe(m)
<1>1. m \in Modes /\ t \in U
  BY DEF RequestTypeOK, UniverseInv
<1>2. /\ {Answer, Remember} \subseteq U
      /\ t = Content => Surface \in U
      /\ t = IndexFile => Recall \in U
      /\ t = ListDirectory => IndexDocs \subseteq U
      /\ m = "birthday_reminder" => Reminder \in U
      /\ t = Search => Fetches \subseteq U
      /\ m \in {"fetch", "search_fetch", "parallel_search", "structured_compare", "index_file"} => Distill \in U
      /\ m = "compose_research" => Retries \cup {Distill, Surface} \subseteq U
      /\ m = "structured_compare" => Validate \in U
  BY <1>1, NodesOfMode
<1> HIDE DEF m, U
<1>3. A \subseteq U
  BY <1>2 DEF Addition, m
<1>4. QED
  BY <1>3 DEF U, m

(* No rule adds what ranks below the task whose outcome it is asked about. *)
LEMMA AdditionRank ==
  ASSUME NEW t, NEW ok \in BOOLEAN, NEW A, Addition(t, ok, A), NEW b \in A
  PROVE  b = Answer \/ Rank(t) <= Rank(b)
<1>1. /\ Rank(t) \in 1 .. 6 /\ Rank(b) \in 1 .. 6
      /\ b \in IndexDocs \cup Fetches => Rank(b) = 2
      /\ t \in Fetches => Rank(t) = 2
      /\ t \in Initially \cup Retries => Rank(t) = 1
  BY RankType, Ranks
<1>2. QED
  BY <1>1, Ranks DEF Addition, Initially

LEMMA JoinRanks ==
  /\ \A x \in Joins : Rank(x) >= 3
  /\ \A u : Rank(u) >= 3 => u \in Joins
  /\ \A u, x : Rank(x) >= 3 /\ Rank(u) = Rank(x) => u = x
<1>1. \A x \in Joins : Rank(x) >= 3
  BY Ranks DEF Joins
<1>2. ASSUME NEW u, Rank(u) >= 3 PROVE u \in Joins
  BY <1>2 DEF Joins, Rank
<1>3. ASSUME NEW u, NEW x, Rank(x) >= 3, Rank(u) = Rank(x) PROVE u = x
  <2>1. u \in Joins /\ x \in Joins
    BY <1>2, <1>3
  <2>2. QED
    BY <1>3, <2>1, Ranks DEF Joins
<1>4. QED
  BY <1>1, <1>2, <1>3

(* The planner is asked about the one event that waits, the outcome of t.  *)
Answering(t, ok) ==
  /\ t \in Nodes /\ ok \in BOOLEAN /\ ~finished /\ ~Decided(t)
  /\ state[t] = "succeeded" <=> ok
  /\ state[t] \in {"succeeded", "failed"}
  /\ PendingPlannerEvents \subseteq OutcomesOf(t)

LEMMA LandedIsDecided ==
  ASSUME OutcomeOnce, JournalShape, GraphInv, NEW t, NEW ok, Answering(t, ok), NEW u \in Nodes,
         state[u] \in Terminal
  PROVE  Decided(u) \/ u = t
<1>1. u \in Tasks /\ state[u] \in {"succeeded", "failed"}
  BY DEF GraphInv, Terminal, Nodes
<1>2. PICK i : i \in OutcomesOf(u)
  BY <1>1 DEF OutcomeOnce
<1>3. CASE i \in patched
  BY <1>2, <1>3 DEF Decided
<1>4. CASE i \notin patched
  <2>1. i \in OutcomesOf(t) /\ t \in Tasks
    BY <1>2, <1>4 DEF Answering, OutcomesOf, PendingPlannerEvents, PlannerKinds, Nodes
  <2>2. u = t
    BY <1>2, <2>1 DEF OutcomesOf, JournalShape
  <2>3. QED
    BY <2>2
<1>5. QED
  BY <1>3, <1>4

(* What the first rule that holds leaves of the possible additions.        *)
FirstAddition(t, A) ==
  LET m == request.mode
  IN /\ m = "birthday_reminder" /\ t = Recall => A = {}
     /\ m = "index_file" /\ t = Recall => Distill \in Nodes \cup A
     /\ m = "compose_research" /\ t \in Searches \cup Retries =>
          A \subseteq Retries \/ (A = {Distill} /\ AllLanded(ResearchLeaves))

LEMMA RuleFirstAddition ==
  ASSUME RequestTypeOK, NEW t, NEW ok \in BOOLEAN, NEW p, RulePatch(p, t, ok), RuleAnswer(p, t, ok)
  PROVE  FirstAddition(t, p.add)
<1>1. NoPatch.add = {} /\ \A S, parents : AddAfter(S, parents).add = S
  BY DEF NoPatch, AddAfter
<1>2. ASSUME request.mode = "compose_research", t \in Searches \cup Retries
      PROVE  p.add \subseteq Retries \/ (p.add = {Distill} /\ AllLanded(ResearchLeaves))
  <2> DEFINE corrected == {i \in Items : ok /\ t = SearchFor(i) /\ found[t] = {} /\ Retry(i) \notin Nodes}
             S == {Retry(i) : i \in corrected}
  <2>1. p = ResearchPatch(t, ok)
    BY <1>2 DEF RuleAnswer
  <2>2. S \subseteq Retries
    BY DEF Retries
  <2>3. p.add = S \/ p.add = {} \/ (p.add = {Distill} /\ AllLanded(ResearchLeaves))
    BY <1>1, <2>1 DEF ResearchPatch
  <2> HIDE DEF S
  <2>4. QED
    BY <2>2, <2>3
<1>3. request.mode = "birthday_reminder" /\ t = Recall => p.add = {}
  BY <1>1 DEF RuleAnswer
<1>4. request.mode = "index_file" /\ t = Recall => Distill \in Nodes \cup p.add
  BY DEF RuleAnswer
<1>5. QED
  BY <1>2, <1>3, <1>4 DEF FirstAddition

LEMMA LayerAdded ==
  ASSUME NEW e \in Executors, RunInv(e), GraphInv, UniverseInv, LayerInv, RememberInv,
         NEW t, NEW ok, Answering(t, ok), NEW A, Addition(t, ok, A), FirstAddition(t, A)
  PROVE  /\ \A x \in Joins \cap A : A = {x}
         /\ \A x \in Joins \cap A : \A u \in Nodes \ {Remember} :
              Rank(u) < Rank(x) => Decided(u) \/ u = t
         /\ \A x \in Joins \cap Nodes : \A b \in A : ~(Rank(b) < Rank(x))
         /\ request.mode = "birthday_reminder" /\ Answer \in A /\ Remember \in Nodes =>
              Decided(Remember) \/ Remember = t
<1> DEFINE m == request.mode
           U == Universe(m)
           frontier == (Fetches \cup Searches) \cap Nodes
<1>1. /\ RequestTypeOK /\ GrowthInv /\ RetryInv /\ OutcomeOnce /\ JournalShape /\ m \in Modes
      /\ t \in Nodes /\ t \in U /\ Nodes \subseteq U /\ ok \in BOOLEAN /\ ~Decided(t)
  BY DEF RunInv, PlannerInv, RequestTypeOK, UniverseInv, Answering
<1>2. /\ \A u \in Nodes : state[u] \in Terminal => Decided(u) \/ u = t
      /\ \A S \in SUBSET Nodes : AllLanded(S) => \A u \in S : Decided(u) \/ u = t
  <2>1. \A u \in Nodes : state[u] \in Terminal => Decided(u) \/ u = t
    BY <1>1, LandedIsDecided
  <2>2. QED
    BY <2>1 DEF AllLanded
<1>3. \A x \in Joins \cap Nodes : t = Remember \/ ~(Rank(t) < Rank(x))
  BY <1>1 DEF LayerInv
<1>4. \A u : Rank(u) \in 1 .. 6
  BY RankType
<1>5. /\ Answer \notin Fetches \cup IndexDocs \cup Retries /\ Surface \notin Fetches \cup IndexDocs \cup Retries
      /\ Distill \notin Fetches \cup IndexDocs \cup Retries /\ Validate \notin Fetches \cup IndexDocs \cup Retries
      /\ {Recall, Reminder} \cap Joins = {} /\ Remember \notin Joins
  BY GroupNames DEF Joins, Fetch, IndexDoc, Retry, Answer, Surface, Distill, Validate, Recall, Reminder, Remember
<1>6. \A x \in Joins \cap A : A = {x}
  BY <1>5 DEF Addition, Joins
(* Who puts others together does so when all the rest was decided.         *)
<1>7. t \in Joins => \A u \in Nodes \ {Remember} : Decided(u) \/ u = t
  <2>1. SUFFICES ASSUME t \in Joins, NEW u \in Nodes \ {Remember} PROVE Decided(u) \/ u = t
    OBVIOUS
  <2>2. CASE Rank(u) < Rank(t)
    BY <1>1, <2>1, <2>2 DEF LayerInv
  <2>3. CASE ~(Rank(u) < Rank(t))
    <3>1. Rank(t) >= 3 /\ Rank(u) >= 3
      BY <1>4, <2>1, <2>3, JoinRanks
    <3>2. u \in Joins
      BY <3>1, JoinRanks
    <3>3. Rank(u) = Rank(t)
      BY <1>3, <1>4, <1>5, <2>1, <2>3, <3>2
    <3>4. QED
      BY <3>1, <3>3, JoinRanks
  <2>4. QED
    BY <2>2, <2>3
<1>8. ASSUME NEW x \in Joins \cap Nodes, NEW b \in A, Rank(b) < Rank(x) PROVE FALSE
  <2>1. b # Answer
    BY <1>4, <1>8, Ranks
  <2>2. t = Remember
    BY <1>1, <1>3, <1>4, <1>8, <2>1, AdditionRank
  <2>3. t \notin {Content, Distill, Recall, IndexFile, ListDirectory, Search} \cup Searches \cup Retries \cup Fetches
    BY <2>2, GroupNames DEF Fetch, Retry, SearchFor, Content, Distill, Recall, IndexFile, ListDirectory, Search, Remember
  <2>4. b = Reminder /\ m = "birthday_reminder"
    BY <1>8, <2>1, <2>3 DEF Addition
  <2>5. x = Answer
    BY <1>1, <1>5, <1>8, <2>4, NodesOfMode
  <2>6. QED
    BY <1>1, <1>8, <2>2, <2>4, <2>5 DEF LayerInv
<1>9. ASSUME Answer \in A
      PROVE  /\ \A u \in Nodes \ {Remember, Answer} : Decided(u) \/ u = t
             /\ m = "birthday_reminder" /\ Remember \in Nodes => Decided(Remember) \/ Remember = t
  <2> DEFINE Goal == /\ \A u \in Nodes \ {Remember, Answer} : Decided(u) \/ u = t
                     /\ m = "birthday_reminder" /\ Remember \in Nodes =>
                          Decided(Remember) \/ Remember = t
  <2>1. CASE ~ok /\ AllLanded(Nodes \ {Answer})
    <3>1. Answer # Remember
      BY DEF Answer, Remember
    <3>2. QED
      BY <1>2, <2>1, <3>1
  <2>2. CASE t = Reminder
    <3>1. m = "birthday_reminder" /\ Nodes \subseteq {Answer, Remember, Recall, Reminder} /\ Decided(Remember)
      BY <1>1, <2>2, NodesOfMode DEF GrowthInv
    <3>2. state[Remember] \in {"succeeded", "failed"}
      BY <1>1, <3>1, NodeNames DEF OutcomeOnce, Decided, Initially
    <3>3. state[Recall] \in Terminal
      BY <3>1, <3>2 DEF RememberInv, Terminal
    <3>4. QED
      BY <1>2, <2>2, <3>1, <3>3
  <2>3. CASE t = ReadFile
    BY <1>1, <2>3, NodesOfMode
  <2>4. CASE t = Recall
    <3>1. m # "birthday_reminder"
      BY <1>9, <2>4 DEF FirstAddition
    <3>2. CASE m = "index_file"
      <4>1. A = {Answer}
        BY <1>6, <1>9 DEF Joins
      <4>2. Distill \in Nodes \cup A
        BY <2>4, <3>2 DEF FirstAddition
      <4>3. Distill \in Nodes
        BY <4>1, <4>2 DEF Answer, Distill
      <4>4. QED
        BY <1>3, <2>4, <4>3, Ranks DEF Joins, Recall, Remember
    <3>3. CASE m # "index_file"
      BY <1>1, <2>4, <3>1, <3>3, NodesOfMode
    <3>4. QED
      BY <3>2, <3>3
  <2>5. CASE t \in {Distill, Validate}
    <3>1. m # "birthday_reminder"
      BY <1>1, <2>5, NodesOfMode DEF Answer, Remember, Recall, Reminder, Distill, Validate
    <3>2. QED
      BY <1>7, <2>5, <3>1 DEF Joins
  <2>6. CASE t = ListDirectory
    <3>1. m = "index_directory" /\ Nodes \subseteq {Answer, Remember, ListDirectory} \cup IndexDocs
      BY <1>1, <2>6, NodesOfMode
    <3>2. IndexDocs \cap Nodes = {}
      BY <1>1, <2>6 DEF GrowthInv
    <3>3. QED
      BY <2>6, <3>1, <3>2
  <2>7. CASE t = Search
    <3>1. m = "search_fetch" /\ Nodes \subseteq {Answer, Remember, Search, Distill} \cup Fetches
      BY <1>1, <2>7, NodesOfMode
    <3>2. Fetches \cap Nodes = {}
      BY <1>1, <2>7, <3>1 DEF GrowthInv
    <3>3. Distill \notin Nodes
      BY <1>3, <2>7, Ranks DEF Joins, Initially, Search, Remember
    <3>4. QED
      BY <2>7, <3>1, <3>2, <3>3
  <2>8. CASE t \in IndexDocs /\ AllLanded(IndexDocs \cap Nodes)
    <3>1. m = "index_directory" /\ Nodes \subseteq {Answer, Remember, ListDirectory} \cup IndexDocs
      BY <1>1, <2>8, NodesOfMode
    <3>2. Decided(ListDirectory)
      BY <1>1, <2>8 DEF GrowthInv
    <3>3. \A u \in IndexDocs \cap Nodes : Decided(u) \/ u = t
      BY <1>2, <2>8
    <3>4. QED
      BY <3>1, <3>2, <3>3
  <2>9. CASE /\ t \in frontier
             /\ Distill \in Nodes \/ m \notin {"fetch", "search_fetch", "parallel_search", "structured_compare"}
    <3>1. t # Remember /\ Rank(t) < Rank(Distill)
      BY <2>9, Ranks, GroupNames DEF Initially, Fetch, SearchFor, Remember
    <3>2. Distill \notin Nodes
      BY <1>3, <3>1 DEF Joins
    <3>3. t \in Searches /\ m = "compose_research"
      BY <1>1, <2>9, <3>2, NodesOfMode
    <3>4. QED
      BY <1>5, <1>9, <3>3 DEF FirstAddition, Answer, Distill
  <2>10. QED
    <3>1. A = {Answer}
      BY <1>6, <1>9 DEF Joins
    <3>2. \/ AnswersAfter(t, ok)
          \/ /\ t \in frontier
             /\ Distill \in Nodes \/ m \notin {"fetch", "search_fetch", "parallel_search", "structured_compare"}
      BY <1>5, <3>1 DEF Addition, Answer, Surface, Distill, Validate, Recall, Reminder
    <3>3. QED
      BY <2>1, <2>2, <2>3, <2>4, <2>5, <2>6, <2>7, <2>8, <2>9, <3>2, Zenon DEF AnswersAfter
<1>10. ASSUME NEW u \in Nodes \ {Remember}, Rank(u) < 5, Surface \in A PROVE Decided(u) \/ u = t
  <2>1. A = {Surface}
    BY <1>6, <1>10 DEF Joins
  <2>2. (m = "compose_answer" /\ t = Content) \/ t = Distill
    BY <1>5, <2>1 DEF Addition, Answer, Surface, Distill, Validate, Recall, Reminder
  <2>3. CASE t = Content
    BY <1>1, <1>10, <2>3, NodesOfMode, Ranks
  <2>4. QED
    BY <1>7, <1>10, <2>2, <2>3 DEF Joins
<1>11. ASSUME NEW u \in Nodes \ {Remember}, Rank(u) < 4, Validate \in A PROVE Decided(u) \/ u = t
  <2>1. A = {Validate}
    BY <1>6, <1>11 DEF Joins
  <2>2. t = Distill
    BY <1>5, <2>1 DEF Addition, Answer, Surface, Distill, Validate, Recall, Reminder
  <2>3. QED
    BY <1>7, <1>11, <2>2 DEF Joins
<1>12. ASSUME NEW u \in Nodes \ {Remember}, Rank(u) < 3, Distill \in A PROVE Decided(u) \/ u = t
  <2>1. A = {Distill}
    BY <1>6, <1>12 DEF Joins
  <2>2. \/ m = "compose_research" /\ t \in Searches \cup Retries
        \/ t = Recall /\ m = "index_file"
        \/ /\ t \in frontier /\ AllLanded(frontier)
           /\ m \in {"fetch", "search_fetch", "parallel_search", "structured_compare"}
    BY <1>5, <2>1 DEF Addition, Answer, Surface, Distill, Validate, Recall, Reminder
  <2>3. CASE m = "compose_research" /\ t \in Searches \cup Retries
    <3>1. AllLanded(ResearchLeaves)
      BY <1>5, <2>1, <2>3 DEF FirstAddition
    <3>2. PICK i \in Items : u = SearchFor(i) \/ u = Retry(i)
      BY <1>1, <1>12, <2>3, NodesOfMode, Ranks DEF Searches, Retries
    <3>3. u \in ResearchLeaves \/ (u = SearchFor(i) /\ Retry(i) \in Nodes)
      BY <3>2 DEF ResearchLeaves, Retries
    <3>4. u = SearchFor(i) /\ Retry(i) \in Nodes => state[u] \in Terminal
      BY <1>1 DEF RetryInv, Terminal
    <3>5. state[u] \in Terminal
      BY <3>1, <3>3, <3>4 DEF AllLanded
    <3>6. QED
      BY <1>2, <3>5
  <2>4. CASE t = Recall /\ m = "index_file"
    <3>1. Nodes \subseteq {Answer, Remember, IndexFile, Recall, Distill} /\ Decided(IndexFile)
      BY <1>1, <2>4, NodesOfMode DEF GrowthInv
    <3>2. QED
      BY <1>12, <2>4, <3>1, Ranks
  <2>5. CASE /\ t \in frontier /\ AllLanded(frontier)
             /\ m \in {"fetch", "search_fetch", "parallel_search", "structured_compare"}
    <3>1. \A v \in frontier : Decided(v) \/ v = t
      BY <1>2, <2>5
    <3>2. u \in Fetches \cup Searches \/ (u = Search /\ m = "search_fetch")
      BY <1>1, <1>12, <2>5, NodesOfMode, Ranks
    <3>3. u = Search /\ m = "search_fetch" => Decided(Search)
      BY <1>1, <2>5, NodesOfMode DEF GrowthInv
    <3>4. QED
      BY <3>1, <3>2, <3>3
  <2>6. QED
    BY <2>2, <2>3, <2>4, <2>5
<1>13. QED
  <2>1. ASSUME NEW x \in Joins \cap A, NEW u \in Nodes \ {Remember}, Rank(u) < Rank(x)
        PROVE  Decided(u) \/ u = t
    BY <1>9, <1>10, <1>11, <1>12, <2>1, <1>4, Ranks DEF Joins
  <2> HIDE DEF m
  <2>2. QED
    BY <1>6, <1>8, <1>9, <2>1 DEF m

(* The two ways a patch is committed.                                      *)
FirstPatched ==
  /\ Nodes = {} /\ Nodes' = FirstPatch.add /\ finished' = FALSE
  /\ \A u \in Tasks : ~Decided(u)'
  /\ \A u \in Tasks : state'[u] = IF u \in FirstPatch.add THEN "pending" ELSE state[u]

RulePatched(t, ok, A) ==
  /\ Answering(t, ok) /\ Addition(t, ok, A) /\ FirstAddition(t, A)
  /\ Nodes' = Nodes \cup A /\ A \subseteq Tasks \ Nodes /\ A \cap Initially = {}
  /\ \A u \in Tasks : Decided(u)' <=> Decided(u) \/ u = t
  /\ finished' => A = {}
  /\ ~finished' => \A u \in Tasks : state'[u] = IF u \in A THEN "pending" ELSE state[u]

LEMMA FinishAddsNothing ==
  ASSUME NEW t, NEW ok \in BOOLEAN, NEW p, RulePatch(p, t, ok), p.finish
  PROVE  p.add = {}
<1>1. /\ NoPatch.finish = FALSE /\ FinishPatch.add = {}
      /\ \A S, parents : AddAfter(S, parents).finish = FALSE
  BY DEF NoPatch, FinishPatch, AddAfter
<1>2. AnswerPatch.finish = FALSE /\ FrontierPatch.finish = FALSE /\ ResearchPatch(t, ok).finish = FALSE
  <2>1. AnswerPatch.finish = FALSE
    BY <1>1 DEF AnswerPatch
  <2>2. FrontierPatch.finish = FALSE
    BY <1>1, <2>1 DEF FrontierPatch
  <2>3. ResearchPatch(t, ok).finish = FALSE
    BY <1>1 DEF ResearchPatch
  <2>4. QED
    BY <2>1, <2>2, <2>3
<1>3. QED
  BY <1>1, <1>2 DEF RulePatch

LEMMA PatchedStep ==
  ASSUME NEW e \in Executors, Executors = {e}, RunInv(e), [AgentNext]_agentVars, patched' # patched
  PROVE  /\ FirstPatched \/ \E t, ok, A : RulePatched(t, ok, A)
         /\ PlanApplied(e, PlannerPatch(journal[trigger[e]])) /\ ~finished
<1>1. OneStep(e) /\ request' = request /\ (CommitPayload \/ UNCHANGED found)
  BY AgentSteps
<1>3. TypeOK /\ OutcomeOnce /\ JournalShape /\ AskedInv(e)
  BY DEF RunInv, PlannerInv
<1> DEFINE p == PlannerPatch(journal[trigger[e]])
<1>4. trigger[e] \notin patched /\ PlanApplied(e, p) /\ pc[e] \in Planning
  BY <1>1 DEF OneStep, BeginRun, Start, ResumeRun, Resume, ReplayNext, ReplayEnds,
       PlanDuplicate, Launch, MarkRunning, NothingToLaunch, WorkerEnds, Wake, DiscardResult,
       RecordResult, RecordOutcome, BatchEnds, Crash, vars, store, PlanApplied
<1>5. ~finished /\ trigger[e] \in Nat /\ RequestTypeOK /\ trigger[e] \in PendingPlannerEvents
  BY <1>4 DEF RunInv, PlannerInv, AskedInv, TypeOK, AsksAboutEvents, PlannerEvents, PendingPlannerEvents
<1>6. p \in PatchType /\ ApplyPatch(p, trigger[e])
  BY <1>4, PlannerPatchIsValid DEF PlanApplied
<1>7. CASE trigger[e] = 1 /\ Nodes = {} /\ edges = {} /\ p = FirstPatch
  <2>1. PatchEffect(FirstPatch, 1)
    BY <1>1, <1>4, <1>5, <1>6, <1>7, FirstPatchFits, PlannerPatchEffect
  <2>2. /\ finished' = FALSE
        /\ \A t \in Tasks : state'[t] = IF t \in FirstPatch.add THEN "pending" ELSE state[t]
    <3> HIDE DEF p
    <3>1. /\ p.cancel = {} /\ p.wait = {} /\ p.resume = {} /\ p.finish = FALSE
      BY <1>5, <1>7, FirstPatchFits
    <3>2. QED
      BY <1>3, <1>6, <1>7, <3>1, PatchStates
  <2>3. \A t \in Tasks : OutcomesOf(t) = {} /\ 1 \notin OutcomesOf(t)
    BY <1>3, <1>7 DEF OutcomeOnce, Nodes
  <2>4. \A t \in Tasks : ~Decided(t)'
    BY <2>1, <2>3 DEF PatchEffect, Decided
  <2>5. Nodes' = FirstPatch.add
    BY <1>7, <2>1 DEF PatchEffect
  <2>6. FirstPatched
    BY <1>7, <2>2, <2>4, <2>5 DEF FirstPatched
  <2>7. QED
    BY <1>4, <1>5, <2>6
<1>8. ASSUME NEW t \in Nodes, NEW ok \in BOOLEAN,
             OutcomesOf(t) = {trigger[e]}, state[t] = "succeeded" <=> ok, ~Decided(t),
             state[t] \in {"succeeded", "failed"}, RulePatch(p, t, ok), Fits(p, t),
             RuleAnswer(p, t, ok)
      PROVE  RulePatched(t, ok, p.add)
  <2>1. PatchEffect(p, trigger[e])
    BY <1>1, <1>4, <1>6, <1>8, PlannerPatchEffect DEF Fits
  <2> HIDE DEF p
  <2>2. /\ finished' = p.finish
        /\ ~p.finish => \A u \in Tasks : state'[u] = IF u \in p.add THEN "pending" ELSE state[u]
    BY <1>3, <1>6, <1>8, PatchStates DEF Fits
  <2>3. Answering(t, ok)
    BY <1>3, <1>5, <1>8 DEF Answering, AskedInv
  <2>4. Addition(t, ok, p.add) /\ FirstAddition(t, p.add) /\ (p.finish => p.add = {})
    BY <1>5, <1>8, RuleAddition, RuleFirstAddition, FinishAddsNothing
  <2>5. \A u \in Tasks : Decided(u)' <=> Decided(u) \/ u = t
    <3>1. \A u \in Tasks : trigger[e] \in OutcomesOf(u) => u = t
      BY <1>3, <1>8 DEF OutcomesOf, JournalShape
    <3>2. t \in Tasks
      BY DEF Nodes
    <3>3. QED
      BY <1>8, <2>1, <3>1, <3>2 DEF PatchEffect
  <2>6. Nodes' = Nodes \cup p.add /\ p.add \subseteq Tasks \ Nodes /\ p.add \cap Initially = {}
    BY <1>8, <2>1 DEF PatchEffect, Fits
  <2>7. QED
    BY <2>2, <2>3, <2>4, <2>5, <2>6, Zenon DEF RulePatched
<1>9. QED
  BY <1>4, <1>5, <1>7, <1>8, PlannerAnswer

LEMMA UniverseStep ==
  ASSUME NEW e \in Executors, Executors = {e}, RunInv(e), UniverseInv, [AgentNext]_agentVars
  PROVE  UniverseInv'
<1>1. OneStep(e) /\ request' = request /\ TypeOK /\ DecidedOnce /\ RequestTypeOK
  BY AgentSteps DEF RunInv, PlannerInv
<1>2. Universe(request.mode)' = Universe(request.mode)
  BY <1>1
<1>3. CASE patched' = patched
  <2>1. StoreStep
    BY <1>1, OneStepIsAny, AnyStepIsStoreStep
  <2>2. QED
    BY <1>1, <1>2, <1>3, <2>1, DecisionsKept DEF UniverseInv
<1>4. CASE FirstPatched
  BY <1>1, <1>2, <1>4, FirstPatchInUniverse DEF FirstPatched, UniverseInv
<1>5. ASSUME NEW t, NEW ok, NEW A, RulePatched(t, ok, A) PROVE UniverseInv'
  <2>1. t \in Nodes /\ ok \in BOOLEAN /\ Addition(t, ok, A)
    BY <1>5 DEF RulePatched, Answering
  <2>2. A \subseteq Universe(request.mode)
    BY <1>1, <2>1, AdditionInUniverse
  <2>3. QED
    BY <1>1, <1>2, <1>5, <2>2 DEF RulePatched, UniverseInv
<1>6. QED
  BY <1>3, <1>4, <1>5, PatchedStep

(* The loop wakes when the immediate workers are done.                     *)
LEMMA WakeIsSettled ==
  ASSUME NEW e \in Executors, Executors = {e}, RunInv(e), [AgentNext]_agentVars, Wake(e)
  PROVE  Settled(e)
<1>1. pc \in [Executors -> PC] /\ pc[e] = "waiting" /\ pc'[e] = "batch"
  BY DEF RunInv, TypeOK, Wake, Goto
<1>2. CASE UNCHANGED agentVars
  BY <1>1, <1>2 DEF agentVars, vars, local
<1>3. CASE BeginRun(e) \/ ResumeRun(e) \/ Crash
  BY <1>1, <1>3 DEF BeginRun, ResumeRun, Crash, Goto
<1>4. CASE AgentWorkerEnds(e)
  BY <1>1, <1>4 DEF AgentWorkerEnds, WorkerEnds
<1>5. CASE AgentStep(e)
  BY <1>1, <1>5 DEF AgentStep
<1>6. QED
  BY <1>2, <1>3, <1>4, <1>5 DEF AgentNext

LEMMA SettleStep ==
  ASSUME NEW e \in Executors, Executors = {e}, RunInv(e), SettleInv(e), [AgentNext]_agentVars
  PROVE  SettleInv(e)'
<1> USE DEF Goto
<1>0. /\ OneStep(e) /\ WorkInv(e) /\ pc \in [Executors -> PC]
      /\ inflight \in [Executors -> SUBSET Attempt] /\ batch \in [Executors -> SUBSET Attempt]
  BY AgentSteps DEF RunInv, TypeOK
<1>1. batch[e] \subseteq Ended(e)
  BY <1>0 DEF WorkInv
<1>2. CASE BeginRun(e) \/ ResumeRun(e) \/ ReplayNext(e) \/ Launch(e) \/ NothingToLaunch(e) \/ Crash
  BY <1>0, <1>2 DEF BeginRun, ResumeRun, ReplayNext, Launch, NothingToLaunch, Crash, SettleInv
<1>3. CASE ReplayEnds(e)
  BY <1>0, <1>3 DEF ReplayEnds, SettleInv, WorkInv, InLoop
<1>4. ASSUME pc[e] \in Planning, AfterPlan(e), batch' = batch PROVE SettleInv(e)'
  <2>1. CASE pc[e] = "replay_plan"
    BY <1>0, <1>4, <2>1 DEF AfterPlan, SettleInv
  <2>2. CASE pc[e] = "batch_plan"
    <3> DEFINE S == {a \in inflight[e] : state'[a.task] = "cancelled"}
    <3>1. pc'[e] = "batch" /\ inflight'[e] = CancelAll(inflight[e], S)
      BY <1>0, <1>4, <2>2 DEF AfterPlan
    <3>2. inflight[e] \in SUBSET Attempt
      BY <1>0
    <3> HIDE DEF S
    <3>3. ASSUME NEW b \in inflight'[e], b.task \in Immediate PROVE b \in batch[e]
      <4>1. CASE b \in inflight[e]
        BY <2>2, <3>3, <4>1 DEF SettleInv
      <4>2. ASSUME NEW a \in inflight[e] \cap S, a.status = "running", b = [a EXCEPT !.status = "cancelling"]
            PROVE  FALSE
        <5>1. b.task = a.task
          BY <1>0, <4>2 DEF Attempt
        <5>2. a \in batch[e]
          BY <2>2, <3>3, <4>2, <5>1 DEF SettleInv
        <5>3. QED
          BY <1>1, <4>2, <5>2 DEF Ended, DoneStatus
      <4>3. \/ b \in inflight[e]
            \/ \E a \in inflight[e] \cap S : a.status = "running" /\ b = [a EXCEPT !.status = "cancelling"]
        <5>1. b \in CancelAll(inflight[e], S)
          BY <3>1, <3>3
        <5>2. \A d \in CancelAll(inflight[e], S) :
                 \/ d \in inflight[e] /\ ~(d \in S /\ d.status = "running")
                 \/ \E a \in inflight[e] \cap S : a.status = "running" /\ d = [a EXCEPT !.status = "cancelling"]
          BY <3>2, CancelAllFacts
        <5>3. QED
          BY <5>1, <5>2, Zenon
      <4>4. QED
        BY <4>1, <4>2, <4>3
    <3>4. QED
      BY <1>4, <3>1, <3>3 DEF SettleInv
  <2>3. QED
    BY <1>4, <2>1, <2>2 DEF Planning
<1>5. CASE PlanDuplicate(e)
  BY <1>4, <1>5 DEF PlanDuplicate
<1>6. CASE PlanApplied(e, PlannerPatch(journal[trigger[e]]))
  BY <1>4, <1>6 DEF PlanApplied
<1>7. CASE WorkerEnds(e)
  <2>1. PICK a \in inflight[e], s \in DoneStatus :
          /\ a.status \in {"running", "cancelling"}
          /\ inflight' = [inflight EXCEPT ![e] = (@ \ {a}) \cup {[a EXCEPT !.status = s]}]
    BY <1>7 DEF WorkerEnds
  <2>2. pc' = pc /\ batch' = batch /\ pc[e] # "fill" /\ pc[e] # "batch"
    BY <1>7 DEF WorkerEnds, Suspended, Planning
  <2>3. a \notin batch[e]
    BY <1>1, <2>1 DEF Ended, DoneStatus
  <2>4. [a EXCEPT !.status = s].task = a.task
    BY <1>0, <2>1 DEF Attempt
  <2> DEFINE c == [a EXCEPT !.status = s]
  <2>5. inflight'[e] = (inflight[e] \ {a}) \cup {c}
    BY <1>0, <2>1
  <2> HIDE DEF c
  <2>6. ASSUME pc[e] = "batch_plan", NEW b \in inflight'[e], b.task \in Immediate PROVE b \in batch[e]
    <3>1. b # c
      BY <2>1, <2>3, <2>4, <2>6 DEF SettleInv, c
    <3>2. QED
      BY <2>5, <2>6, <3>1 DEF SettleInv
  <2>7. QED
    BY <2>2, <2>6 DEF SettleInv
<1>8. CASE Wake(e)
  <2>1. Settled(e)
    BY <1>8, WakeIsSettled
  <2>2. QED
    BY <1>0, <1>8, <2>1 DEF Wake, Settled, Ended, SettleInv
<1>9. CASE DiscardResult(e) \/ RecordResult(e)
  <2>1. PICK a \in batch[e] : Pop(e, a)
    BY <1>9 DEF DiscardResult, RecordResult
  <2>2. pc[e] = "batch" /\ pc'[e] \in {"batch", "batch_plan"}
    BY <1>0, <1>9 DEF DiscardResult, RecordResult
  <2>3. QED
    BY <1>0, <2>1, <2>2 DEF Pop, SettleInv
<1>10. CASE BatchEnds(e)
  <2>1. pc[e] = "batch" /\ batch[e] = {} /\ pc'[e] = "fill"
    BY <1>0, <1>10 DEF BatchEnds
  <2>2. TasksOf(inflight'[e]) = TasksOf(inflight[e])
    <3>1. inflight'[e] = inflight[e] \/ inflight'[e] = CancelAll(inflight[e], inflight[e])
      BY <1>0, <1>10 DEF BatchEnds
    <3>2. QED
      BY <1>0, <3>1, CancelAllFacts
  <2>3. \A b \in inflight'[e] : \E a \in inflight[e] : a.task = b.task
    BY <2>2 DEF TasksOf
  <2>4. QED
    BY <2>1, <2>3 DEF SettleInv
<1>11. CASE UNCHANGED vars
  BY <1>0, <1>11 DEF vars, local, SettleInv
<1>12. QED
  BY <1>0, <1>2, <1>3, <1>5, <1>6, <1>7, <1>8, <1>9, <1>10, <1>11 DEF OneStep

(* Without a crash a call that has not begun has no journal.               *)
FreshInv(e) == crashes = 0 /\ pc[e] = "idle" => journal = <<>>

LEMMA FreshStep ==
  ASSUME NEW e \in Executors, Executors = {e}, RunInv(e), FreshInv(e), [AgentNext]_agentVars
  PROVE  FreshInv(e)'
<1> USE DEF Goto
<1>0. /\ OneStep(e) /\ pc \in [Executors -> PC] /\ crashes \in Nat
  BY AgentSteps DEF RunInv, TypeOK
<1>1. CASE BeginRun(e) \/ ResumeRun(e) \/ ReplayNext(e) \/ ReplayEnds(e) \/ Launch(e) \/ NothingToLaunch(e)
  BY <1>0, <1>1 DEF BeginRun, ResumeRun, ReplayNext, ReplayEnds, Launch, NothingToLaunch, FreshInv
<1>2. CASE PlanDuplicate(e) \/ PlanApplied(e, PlannerPatch(journal[trigger[e]]))
  BY <1>0, <1>2 DEF PlanDuplicate, PlanApplied, AfterPlan, FreshInv
<1>3. CASE Wake(e) \/ DiscardResult(e) \/ RecordResult(e) \/ BatchEnds(e)
  BY <1>0, <1>3 DEF Wake, DiscardResult, RecordResult, BatchEnds, FreshInv
<1>4. CASE WorkerEnds(e) \/ UNCHANGED vars
  BY <1>0, <1>4 DEF WorkerEnds, vars, store, local, FreshInv
<1>5. CASE Crash
  BY <1>0, <1>5 DEF Crash, FreshInv
<1>6. QED
  BY <1>0, <1>1, <1>2, <1>3, <1>4, <1>5 DEF OneStep

(* While a node that puts others together is undecided, all the rest but   *)
(* what is remembered was decided.                                         *)
LEMMA OthersDecided ==
  ASSUME LayerInv, NEW x \in Joins \cap Nodes, ~Decided(x), NEW t \in Nodes \ {x, Remember}
  PROVE  Decided(t)
<1>0. Rank(t) \in 1 .. 6 /\ Rank(x) \in 1 .. 6 /\ Rank(x) >= 3 /\ x # Remember
  BY RankType, JoinRanks DEF Joins, Answer, Distill, Surface, Validate, Remember
<1>1. CASE Rank(t) < Rank(x)
  BY <1>1 DEF LayerInv
<1>2. CASE Rank(x) < Rank(t)
  <2>1. t \in Joins
    BY <1>0, <1>2, JoinRanks
  <2>2. QED
    BY <1>0, <1>2, <2>1 DEF LayerInv
<1>3. CASE Rank(t) = Rank(x)
  BY <1>0, <1>3, JoinRanks
<1>4. QED
  BY <1>0, <1>1, <1>2, <1>3

LEMMA FirstPatchJoinless ==
  ASSUME RequestTypeOK
  PROVE  FirstPatch.add \cap Joins = {}
<1>1. FirstPatch.add \subseteq InitialFrontier \cup {Remember}
  BY FirstPatchAdds
<1>2. QED
  BY <1>1, FrontierOfMode, GroupNames
     DEF Joins, Fetch, SearchFor, Answer, Content, Distill, IndexFile, ListDirectory, ReadFile, Recall,
         Remember, Search, Surface, Validate

LEMMA FinishedStays ==
  ASSUME NEW e \in Executors, RunInv(e), StoreStep, patched' = patched
  PROVE  finished' = finished
BY DEF StoreStep, store, Start, Resume, MarkRunning, RecordOutcome, ApplyPatch

LEMMA LayerStep ==
  ASSUME NEW e \in Executors, Executors = {e}, RunInv(e), GraphInv, UniverseInv, LayerInv, RememberInv,
         [AgentNext]_agentVars
  PROVE  LayerInv'
<1>1. OneStep(e) /\ request' = request /\ TypeOK /\ DecidedOnce /\ RequestTypeOK
  BY AgentSteps DEF RunInv, PlannerInv
<1>2. Remember \in Tasks /\ Answer \in Tasks
  BY NodeNames DEF Initially
<1>3. CASE patched' = patched
  <2>1. StoreStep
    BY <1>1, OneStepIsAny, AnyStepIsStoreStep
  <2>2. Nodes' = Nodes /\ \A t \in Tasks : Decided(t)' <=> Decided(t)
    BY <1>1, <1>3, <2>1, DecisionsKept
  <2>3. QED
    BY <1>1, <1>2, <2>2 DEF LayerInv, Nodes
<1>4. CASE FirstPatched
  BY <1>1, <1>4, FirstPatchJoinless DEF FirstPatched, LayerInv, Joins
<1>5. ASSUME NEW t, NEW ok, NEW A, RulePatched(t, ok, A) PROVE LayerInv'
  <2>1. Answering(t, ok) /\ Addition(t, ok, A) /\ FirstAddition(t, A) /\ Remember \notin A /\ t \in Tasks
    BY <1>5 DEF RulePatched, Initially, Answering, Nodes
  <2>2. /\ \A x \in Joins \cap A : A = {x}
        /\ \A x \in Joins \cap A : \A u \in Nodes \ {Remember} :
             Rank(u) < Rank(x) => Decided(u) \/ u = t
        /\ \A x \in Joins \cap Nodes : \A b \in A : ~(Rank(b) < Rank(x))
        /\ request.mode = "birthday_reminder" /\ Answer \in A /\ Remember \in Nodes =>
             Decided(Remember) \/ Remember = t
    BY <2>1, LayerAdded
  <2>3. Nodes' = Nodes \cup A /\ \A u \in Tasks : Decided(u)' <=> Decided(u) \/ u = t
    BY <1>5 DEF RulePatched
  <2>4. ASSUME NEW x \in Joins \cap Nodes', NEW u \in Nodes' \ {Remember}, Rank(u) < Rank(x)
        PROVE  Decided(u)'
    <3>1. Rank(u) # Rank(x)
      BY <2>4, RankType
    <3>2. u \in Nodes
      BY <2>2, <2>3, <2>4, <3>1
    <3>3. Decided(u) \/ u = t
      BY <2>2, <2>3, <2>4, <3>2 DEF LayerInv
    <3>4. QED
      BY <2>3, <3>2, <3>3 DEF Nodes
  <2>5. request.mode = "birthday_reminder" /\ {Answer, Remember} \subseteq Nodes' => Decided(Remember)'
    BY <1>2, <2>1, <2>2, <2>3 DEF LayerInv
  <2>6. QED
    BY <1>1, <2>4, <2>5 DEF LayerInv
<1>6. QED
  BY <1>3, <1>4, <1>5, PatchedStep

(* What HasBefore says stays true.                                         *)
LEMMA BeforeKept ==
  ASSUME TypeOK, StoreStep, NEW a, NEW b, b.number = a.number, NEW t, HasBefore(a, t)
  PROVE  HasBefore(b, t)'
BY JournalStep DEF HasBefore, OutcomesOf

LEMMA Carried ==
  ASSUME NEW e \in Executors, TypeOK, StoreStep, JoinInv(e), Nodes' = Nodes,
         \A b \in inflight'[e] : \E a \in inflight[e] : b.task = a.task /\ b.number = a.number
  PROVE  JoinInv(e)'
<1> SUFFICES ASSUME NEW b \in inflight'[e], b.task \in Joins
             PROVE  /\ \A t \in Nodes \ {b.task, Remember} : HasBefore(b, t)'
                    /\ b.task \in {Answer, Surface} /\ Remember \in Nodes => HasBefore(b, Remember)'
  BY DEF JoinInv, Joins
<1>1. PICK a \in inflight[e] : b.task = a.task /\ b.number = a.number
  OBVIOUS
<1>2. /\ \A t \in Nodes \ {b.task, Remember} : HasBefore(a, t)
      /\ b.task \in {Answer, Surface} /\ Remember \in Nodes => HasBefore(a, Remember)
  BY <1>1 DEF JoinInv
<1>3. \A t : HasBefore(a, t) => HasBefore(b, t)'
  BY <1>1, BeforeKept
<1>4. QED
  BY <1>2, <1>3

(* While such an attempt is at work nothing is added to the graph.         *)
LEMMA JoinAddsNothing ==
  ASSUME NEW e \in Executors, RunInv(e), GraphInv, UniverseInv, LayerInv,
         NEW a \in inflight[e], a.task \in Joins,
         NEW t, NEW ok, Answering(t, ok), NEW A, Addition(t, ok, A)
  PROVE  A = {}
<1> DEFINE x == a.task
<1>1. x \in Nodes /\ state[x] = "running" /\ x \in Tasks
  BY DEF RunInv, WorkInv, GraphInv, Nodes, TypeOK, Attempt
<1>2. ~Decided(x) /\ ~Decided(t) /\ t \in Nodes /\ t # x /\ ok \in BOOLEAN
  BY <1>1 DEF RunInv, OutcomeOnce, Decided, Answering
<1>3. t = Remember
  BY <1>1, <1>2, OthersDecided
<1>4. t \notin {Content, Distill, Recall, IndexFile, ListDirectory, Search, Reminder, ReadFile, Validate}
        \cup Searches \cup Retries \cup Fetches \cup IndexDocs
  BY <1>3, GroupNames DEF Fetch, IndexDoc, Retry, SearchFor, Content, Distill, Recall, IndexFile,
     ListDirectory, Search, Remember, Reminder, ReadFile, Validate
<1>5. A = {} \/ (A = {Answer} /\ Answer \notin Nodes /\ AnswersAfter(t, ok))
        \/ (A = {Reminder} /\ request.mode = "birthday_reminder")
  BY <1>4, Zenon DEF Addition
<1>6. CASE A = {Answer} /\ Answer \notin Nodes /\ AnswersAfter(t, ok)
  <2>1. AllLanded(Nodes \ {Answer})
    BY <1>4, <1>6, Zenon DEF AnswersAfter
  <2>2. QED
    BY <1>1, <1>6, <2>1 DEF AllLanded, Terminal
<1>7. CASE A = {Reminder} /\ request.mode = "birthday_reminder"
  <2>1. x = Answer
    BY <1>1, <1>7, NodesOfMode
       DEF UniverseInv, RunInv, PlannerInv, RequestTypeOK, Joins, Answer, Distill, Surface, Validate, Recall, Reminder, Remember
  <2>2. QED
    BY <1>1, <1>2, <1>3, <1>7, <2>1 DEF LayerInv
<1>8. QED
  BY <1>5, <1>6, <1>7

LEMMA JoinLaunched ==
  ASSUME NEW e \in Executors, RunInv(e), GraphInv, LayerInv, RememberInv, SettleInv(e), pc[e] = "fill",
         NEW x \in Joins, state[x] = "pending", x \in Nodes,
         NEW b, b.task = x, b.number = Len(journal) + 1
  PROVE  /\ \A t \in Nodes \ {x, Remember} : HasBefore(b, t)
         /\ x \in {Answer, Surface} /\ Remember \in Nodes => HasBefore(b, Remember)
<1>1. OutcomeOnce /\ journal \in Seq(Entry) /\ WorkInv(e) /\ x \in Tasks
  BY DEF RunInv, TypeOK, StoreTypeOK, Nodes
<1>2. ASSUME NEW t \in Tasks, OutcomesOf(t) # {} PROVE HasBefore(b, t)
  <2>1. PICK i \in OutcomesOf(t) : TRUE
    BY <1>2
  <2>2. i \in DOMAIN journal
    BY <2>1 DEF OutcomesOf
  <2>3. i < Len(journal) + 1
    BY <1>1, <2>2
  <2>4. QED
    BY <2>1, <2>3 DEF HasBefore
<1>3. ~Decided(x)
  BY <1>1 DEF OutcomeOnce, Decided
<1>4. ASSUME NEW t \in Nodes \ {x, Remember} PROVE HasBefore(b, t)
  BY <1>2, <1>3, <1>4, OthersDecided DEF Decided, Nodes
<1>5. ASSUME x \in {Answer, Surface}, Remember \in Nodes PROVE HasBefore(b, Remember)
  <2>1. state[Remember] # "pending"
    BY <1>5 DEF RememberInv
  <2>2. state[Remember] # "running"
    <3>1. SUFFICES ASSUME state[Remember] = "running" PROVE FALSE
      OBVIOUS
    <3>2. PICK a \in inflight[e] : a.task = Remember
      BY <1>1, <1>5, <3>1 DEF WorkInv, InLoop, Running, TasksOf, Nodes
    <3>3. QED
      BY <3>2 DEF SettleInv, Immediate
  <2>3. Remember \in Tasks /\ state[Remember] \in {"succeeded", "failed"}
    BY <1>5, <2>1, <2>2 DEF GraphInv, Nodes, RunInv, TypeOK, StoreTypeOK, NodeState, Open, Terminal
  <2>4. QED
    BY <1>1, <1>2, <2>3 DEF OutcomeOnce
<1>6. QED
  BY <1>4, <1>5

(* Only a launch brings attempts that were not there.                      *)
LEMMA AttemptsCarried ==
  ASSUME NEW e \in Executors, RunInv(e), OneStep(e), ~Launch(e)
  PROVE  \A b \in inflight'[e] : \E a \in inflight[e] : b.task = a.task /\ b.number = a.number
<1> DEFINE Goal == \A b \in inflight'[e] : \E a \in inflight[e] : b.task = a.task /\ b.number = a.number
<1>0. inflight \in [Executors -> SUBSET Attempt]
  BY DEF RunInv, TypeOK
<1>1. ASSUME NEW S, inflight'[e] = CancelAll(inflight[e], S) PROVE Goal
  <2>1. inflight[e] \in SUBSET Attempt
    BY <1>0
  <2>2. \A d \in CancelAll(inflight[e], S) :
          \/ d \in inflight[e] /\ ~(d \in S /\ d.status = "running")
          \/ \E a \in inflight[e] \cap S : a.status = "running" /\ d = [a EXCEPT !.status = "cancelling"]
    BY <2>1, CancelAllFacts
  <2>3. \A a \in inflight[e] : [a EXCEPT !.status = "cancelling"].task = a.task
                               /\ [a EXCEPT !.status = "cancelling"].number = a.number
    BY <2>1 DEF Attempt
  <2>4. SUFFICES ASSUME NEW b \in CancelAll(inflight[e], S)
                 PROVE  \E a \in inflight[e] : b.task = a.task /\ b.number = a.number
    BY <1>1
  <2>5. CASE b \in inflight[e]
    BY <2>5
  <2>6. ASSUME NEW a \in inflight[e], b = [a EXCEPT !.status = "cancelling"]
        PROVE  b.task = a.task /\ b.number = a.number
    BY <2>3, <2>6
  <2>7. QED
    BY <2>2, <2>5, <2>6, Zenon
<1>2. CASE inflight'[e] \subseteq inflight[e]
  BY <1>2
<1>3. CASE BeginRun(e) \/ ResumeRun(e) \/ ReplayNext(e) \/ ReplayEnds(e) \/ NothingToLaunch(e) \/ Wake(e)
           \/ DiscardResult(e) \/ RecordResult(e) \/ Crash \/ UNCHANGED vars
  BY <1>0, <1>2, <1>3 DEF BeginRun, ResumeRun, ReplayNext, ReplayEnds, NothingToLaunch, Wake, DiscardResult,
     RecordResult, Pop, Crash, vars, local
<1>4. ASSUME AfterPlan(e) PROVE Goal
  <2>1. inflight'[e] = inflight[e] \/ inflight'[e] = CancelAll(inflight[e], {a \in inflight[e] : state'[a.task] = "cancelled"})
    BY <1>0, <1>4 DEF AfterPlan
  <2>2. QED
    BY <1>1, <1>2, <2>1
<1>5. CASE PlanDuplicate(e) \/ PlanApplied(e, PlannerPatch(journal[trigger[e]]))
  BY <1>4, <1>5 DEF PlanDuplicate, PlanApplied
<1>6. CASE WorkerEnds(e)
  <2>1. PICK a \in inflight[e], s \in DoneStatus :
          inflight' = [inflight EXCEPT ![e] = (@ \ {a}) \cup {[a EXCEPT !.status = s]}]
    BY <1>6 DEF WorkerEnds
  <2>2. [a EXCEPT !.status = s].task = a.task /\ [a EXCEPT !.status = s].number = a.number
    BY <1>0, <2>1 DEF Attempt
  <2> DEFINE c == [a EXCEPT !.status = s]
  <2>3. inflight'[e] = (inflight[e] \ {a}) \cup {c} /\ c.task = a.task /\ c.number = a.number
    BY <1>0, <2>1, <2>2
  <2> HIDE DEF c
  <2>4. QED
    BY <2>1, <2>3
<1>7. CASE BatchEnds(e)
  <2>1. inflight'[e] = inflight[e] \/ inflight'[e] = CancelAll(inflight[e], inflight[e])
    BY <1>0, <1>7 DEF BatchEnds
  <2>2. QED
    BY <1>1, <1>2, <2>1
<1>8. QED
  BY <1>3, <1>5, <1>6, <1>7 DEF OneStep

LEMMA JoinStep ==
  ASSUME NEW e \in Executors, Executors = {e}, RunInv(e), SettleInv(e), UniverseInv, JoinInv(e),
         ~finished => GraphInv /\ LayerInv /\ RememberInv, [AgentNext]_agentVars
  PROVE  JoinInv(e)'
<1>1. OneStep(e) /\ TypeOK /\ DecidedOnce /\ WorkInv(e) /\ OutcomeOnce
  BY AgentSteps DEF RunInv
<1>2. StoreStep
  BY <1>1, OneStepIsAny, AnyStepIsStoreStep
<1>3. CASE ~Launch(e) /\ Nodes' = Nodes
  BY <1>1, <1>2, <1>3, AttemptsCarried, Carried
<1>4. CASE patched' = patched /\ ~Launch(e)
  BY <1>1, <1>2, <1>3, <1>4, DecisionsKept
<1>5. CASE Launch(e)
  <2>1. patched' = patched /\ pc[e] = "fill" /\ ~finished
    BY <1>5 DEF Launch, MarkRunning
  <2>2. PICK R \in SUBSET Runnable :
          inflight' = [inflight EXCEPT ![e] = @ \cup
               [task : R, number : {Len(journal) + 1}, status : {"running"}]]
    BY <1>5 DEF Launch
  <2>3. inflight'[e] = inflight[e] \cup [task : R, number : {Len(journal) + 1}, status : {"running"}]
    BY <1>1, <2>2 DEF TypeOK
  <2>4. Nodes' = Nodes
    BY <1>1, <1>2, <2>1, DecisionsKept
  <2>5. SUFFICES ASSUME NEW b \in inflight'[e], b.task \in Joins
                 PROVE  /\ \A t \in Nodes \ {b.task, Remember} : HasBefore(b, t)'
                        /\ b.task \in {Answer, Surface} /\ Remember \in Nodes => HasBefore(b, Remember)'
    BY <2>4 DEF JoinInv, Joins
  <2>6. /\ \A t \in Nodes \ {b.task, Remember} : HasBefore(b, t)
        /\ b.task \in {Answer, Surface} /\ Remember \in Nodes => HasBefore(b, Remember)
    <3>1. CASE b \in inflight[e]
      BY <2>5, <3>1 DEF JoinInv
    <3>2. CASE b \in [task : R, number : {Len(journal) + 1}, status : {"running"}]
      <4>1. b.task \in R /\ b.number = Len(journal) + 1
        BY <3>2
      <4>2. state[b.task] = "pending" /\ b.task \in Nodes
        BY <2>2, <4>1 DEF Runnable, Nodes
      <4>3. GraphInv /\ LayerInv /\ RememberInv
        BY <2>1
      <4>4. QED
        BY <2>1, <2>5, <4>1, <4>2, <4>3, JoinLaunched
    <3>3. QED
      BY <2>3, <2>5, <3>1, <3>2
  <2>7. \A t : HasBefore(b, t) => HasBefore(b, t)'
    BY <1>1, <1>2, BeforeKept
  <2>8. QED
    BY <2>6, <2>7
<1>6. CASE patched' # patched
  <2>1. ~Launch(e)
    BY <1>6 DEF Launch, MarkRunning
  <2>2. /\ FirstPatched \/ \E t, ok, A : RulePatched(t, ok, A)
        /\ ~finished
    BY <1>6, PatchedStep
  <2>3. CASE FirstPatched
    <3>1. inflight[e] = {}
      BY <1>1, <2>3 DEF FirstPatched, WorkInv, Nodes, TypeOK, Attempt
    <3>2. inflight'[e] = {}
      BY <1>1, <2>1, <3>1, AttemptsCarried
    <3>3. QED
      BY <3>2 DEF JoinInv
  <2>4. ASSUME NEW t, NEW ok, NEW A, RulePatched(t, ok, A) PROVE JoinInv(e)'
    <3>1. Answering(t, ok) /\ Addition(t, ok, A) /\ Nodes' = Nodes \cup A
      BY <2>4 DEF RulePatched
    <3>2. CASE \E a \in inflight[e] : a.task \in Joins
      <4>1. A = {}
        BY <2>2, <3>1, <3>2, JoinAddsNothing
      <4>2. QED
        BY <1>3, <2>1, <3>1, <4>1
    <3>3. CASE ~\E a \in inflight[e] : a.task \in Joins
      <4>1. ~\E b \in inflight'[e] : b.task \in Joins
        BY <1>1, <2>1, <3>3, AttemptsCarried
      <4>2. QED
        BY <4>1 DEF JoinInv, Joins
    <3>4. QED
      BY <3>2, <3>3
  <2>5. QED
    BY <2>2, <2>3, <2>4
<1>7. QED
  BY <1>4, <1>5, <1>6

(* What is runnable is in the graph and pending.                           *)
LEMMA RunnableFacts ==
  ASSUME NEW R, R \subseteq Runnable
  PROVE  \A u \in R : u \in Nodes /\ u \in Tasks /\ state[u] = "pending"
BY DEF Runnable, Nodes

(* What is to be remembered waits for nobody.                              *)
LEMMA RememberIsReady ==
  ASSUME GrowthInv, state[Remember] = "pending"
  PROVE  Remember \in Runnable
<1>1. Remember \in Tasks
  BY NodeNames DEF Initially
<1>2. Rank(Remember) = 1
  BY Ranks DEF Initially
<1>3. \A c \in edges : c[2] # Remember
  BY <1>2, RankType DEF GrowthInv
<1>4. Parents(Remember) = {}
  BY <1>3 DEF Parents
<1>5. QED
  BY <1>1, <1>4 DEF Runnable

(* With two workers there is room for it beside the one node that may go   *)
(* before it, but for fetches.                                             *)
LEMMA RememberHasRoom ==
  ASSUME NEW e \in Executors, RunInv(e), GraphInv, UniverseInv, LayerInv, RememberInv, 2 <= MaxWorkers,
         state[Remember] = "pending",
         NEW R, IsReadyBatch(R, MaxWorkers - Cardinality(inflight[e])), Remember \notin R
  PROVE  request.mode = "fetch" /\ R \subseteq Fetches
<1> DEFINE m == request.mode
           U == Universe(m)
           capacity == MaxWorkers - Cardinality(inflight[e])
<1>1. /\ TypeOK /\ OutcomeOnce /\ RequestTypeOK /\ GrowthInv /\ WorkInv(e) /\ m \in Modes
      /\ Remember \in Nodes /\ Nodes \subseteq U /\ MaxWorkers \in Nat
  <2>1. Remember \in Tasks
    BY NodeNames DEF Initially
  <2>2. QED
    BY <2>1, LimitsAssumption DEF RunInv, PlannerInv, RequestTypeOK, UniverseInv, Nodes
<1>2. R \subseteq Runnable /\ Cardinality(R) = capacity /\ \A r \in R : r < Remember
  BY <1>1, RememberIsReady DEF IsReadyBatch
<1>3. \A u \in R : u \in Nodes /\ state[u] = "pending" /\ u \in 1 .. 11
  BY <1>2, RunnableFacts, NodesAssumption DEF NodeIds, Remember
<1>4. /\ \A t \in Nodes : state[t] = "pending" \/ (m = "fetch" /\ t \in Fetches)
      /\ Answer \notin Nodes
  BY DEF RememberInv
<1>5. \A t \in Nodes : Decided(t) => state[t] \in {"succeeded", "failed"}
  BY <1>1 DEF OutcomeOnce, Decided, Nodes
<1>6. InitialFrontier \subseteq Nodes
  <2>1. 1 \in patched
    BY <1>1 DEF GrowthInv
  <2>2. QED
    BY <2>1, FirstPatchAdds DEF GraphInv
(* With nothing at work one node is too little to fill the batch.          *)
<1>7. ASSUME \A t \in Nodes : state[t] # "running", NEW u, R \subseteq {u} PROVE FALSE
  <2>1. inflight[e] = {}
    BY <1>1, <1>7 DEF WorkInv, GraphInv, Nodes, TypeOK, Attempt
  <2>2. Cardinality(R) = MaxWorkers
    BY <1>1, <1>2, <2>1, FS_EmptySet
  <2>3. IsFiniteSet({u}) /\ Cardinality({u}) = 1
    BY FS_Singleton
  <2>4. Cardinality(R) \in Nat /\ Cardinality(R) <= 1
    BY <1>7, <2>3, FS_Subset, FS_CardinalityType
  <2>5. QED
    BY <1>1, <2>2, <2>4
<1>8. CASE m = "fetch"
  <2>1. Fetches \subseteq Nodes /\ U = {Answer, Remember, Distill} \cup Fetches /\ Fetches # {}
    BY <1>1, <1>6, <1>8, FrontierOfMode, NodesOfMode, GroupNames
  <2>2. R \subseteq {Distill} \cup Fetches
    BY <1>1, <1>2, <1>3, <1>4, <2>1
  <2>3. CASE Distill \in Nodes
    <3>1. \A t \in Fetches : Decided(t)
      BY <2>1, <2>3, Ranks, GroupNames DEF LayerInv, Joins, Fetch, Remember
    <3>2. \A t \in Fetches : state[t] \in {"succeeded", "failed"}
      BY <1>5, <2>1, <3>1
    <3>3. R \subseteq {Distill}
      BY <1>3, <2>2, <3>2
    <3>4. \A t \in Nodes : state[t] # "running"
      BY <1>4, <3>2
    <3>5. QED
      BY <1>7, <3>3, <3>4
  <2>4. CASE Distill \notin Nodes
    BY <1>3, <1>8, <2>2, <2>4
  <2>5. QED
    BY <2>3, <2>4
<1>9. CASE m # "fetch"
  <2>1. \A t \in Nodes : state[t] = "pending" /\ ~Decided(t)
    BY <1>4, <1>5, <1>9
  <2>2. Distill \notin Nodes
    <3>1. PICK f : f \in InitialFrontier /\ f # Remember /\ Rank(f) < 3
      BY <1>1, FrontierOfMode, Ranks, GroupNames
         DEF Initially, Searches, Items, Fetch, SearchFor, Content, IndexFile, ListDirectory, ReadFile, Recall, Remember, Search
    <3>2. QED
      BY <1>6, <2>1, <3>1, Ranks DEF LayerInv, Joins
  <2>3. /\ IndexDocs \cap Nodes = {} /\ Reminder \notin Nodes /\ Validate \notin Nodes
        /\ Fetches \cap Nodes = {}
        /\ m = "index_file" => Recall \notin Nodes
    <3>1. \A t \in Tasks : ~Decided(t)
      BY <1>1, <2>1 DEF OutcomeOnce, Decided, Nodes
    <3>2. {ListDirectory, Search, IndexFile, Remember, Distill} \subseteq Tasks
      BY NodeNames DEF Initially
    <3>3. QED
      BY <1>1, <1>9, <3>1, <3>2 DEF GrowthInv
  <2>4. R \subseteq U \ ({Answer, Remember, Distill, Reminder, Validate} \cup IndexDocs \cup Fetches)
    BY <1>1, <1>2, <1>3, <1>4, <2>2, <2>3
  <2> DEFINE only == IF m = "index_directory" THEN ListDirectory
                     ELSE IF m = "index_file" THEN IndexFile
                     ELSE IF m = "read_file" THEN ReadFile
                     ELSE IF m = "compose_answer" THEN Content
                     ELSE Recall
  <2>5. ASSUME NEW u \in R PROVE u = only
    <3>1. /\ u \in U /\ u <= 11 /\ u \notin {Answer, Remember, Distill, Reminder, Validate}
          /\ u \notin IndexDocs /\ u \notin Fetches
          /\ m = "index_file" => u # Recall
      BY <1>3, <2>3, <2>4, <2>5
    <3>2. u \notin Searches \cup Retries \cup {Search, Surface}
      BY <3>1, GroupNames DEF SearchFor, Retry, Search, Surface
    <3>3. QED
      BY <1>1, <1>9, <3>1, <3>2 DEF Universe, Modes
  <2>6. QED
    BY <1>7, <2>1, <2>5
<1>10. QED
  BY <1>8, <1>9

(* Without a crash a resumed call finds nothing at work.                   *)
LEMMA ResumeIsQuiet ==
  ASSUME NEW e \in Executors, RunInv(e), FreshInv(e), crashes = 0, ResumeRun(e)
  PROVE  \A u \in Tasks : state'[u] = state[u]
<1>1. pc[e] \in {"idle", "done", "aborted"} /\ Resume /\ journal # <<>>
  BY DEF ResumeRun, Resume
<1>2. pc[e] = "done"
  BY <1>1 DEF FreshInv, RunInv, PlannerInv, AskedInv
<1>3. Running = {}
  BY <1>2 DEF RunInv, WorkInv, InLoop, TasksOf
<1>4. QED
  BY <1>1, <1>3 DEF Resume, Running

LEMMA RememberRecorded ==
  ASSUME NEW e \in Executors, RunInv(e), SettleInv(e), GraphInv, RememberInv, request' = request, RecordResult(e)
  PROVE  RememberInv'
<1>1. PICK a \in batch[e] : /\ IsNext(e, a) /\ RecordOutcome(a.task, a.status = "ok")
  BY DEF RecordResult
<1> DEFINE t == a.task
<1>2. /\ TypeOK /\ WorkInv(e) /\ RequestTypeOK /\ GrowthInv /\ pc[e] = "batch"
      /\ Remember \in Tasks /\ Recall \in Tasks /\ inflight[e] \subseteq Attempt
      /\ state \in [Tasks -> NodeState]
  BY NodeNames DEF RunInv, PlannerInv, RecordResult, Initially, TypeOK, StoreTypeOK
<1>3. a \in inflight[e] /\ t \in Tasks
  BY <1>2 DEF WorkInv, Ended, Attempt
<1>4. /\ state[t] = "running" /\ state'[t] \in {"succeeded", "failed"}
      /\ \A u \in Tasks \ {t} : state'[u] = state[u]
      /\ Nodes' = Nodes
  <2>1. state[t] = "running" /\ state' = [state EXCEPT ![t] = IF a.status = "ok" THEN "succeeded" ELSE "failed"]
    BY <1>1 DEF RecordOutcome
  <2>2. QED
    BY <1>2, <1>3, <2>1 DEF Nodes
<1>5. ASSUME state'[Remember] = "pending"
      PROVE  /\ \A u \in Nodes' : state'[u] = "pending" \/ (request'.mode = "fetch" /\ u \in Fetches)
             /\ Answer \notin Nodes' /\ Surface \notin Nodes'
  <2>1. t # Remember /\ state[Remember] = "pending" /\ t \in Nodes
    BY <1>2, <1>3, <1>4, <1>5 DEF Nodes
  <2>2. \A u \in Nodes : state[u] = "pending" \/ (request.mode = "fetch" /\ u \in Fetches)
    BY <2>1 DEF RememberInv
  <2>3. QED
    BY <1>4, <2>1, <2>2 DEF RememberInv, Nodes
<1>6. ASSUME request.mode = "birthday_reminder"
      PROVE  /\ state'[Remember] = "running" => state'[Recall] # "pending"
             /\ state'[Remember] \in {"succeeded", "failed"} => state'[Recall] \in {"succeeded", "failed"}
  <2>1. CASE t = Remember
    <3>1. state[Recall] # "pending" /\ state'[Recall] = state[Recall]
      BY <1>2, <1>4, <1>6, <2>1 DEF RememberInv, Recall, Remember
    <3>2. Recall \in Nodes
      <4>1. 1 \in patched
        BY <1>2, <1>4, <2>1 DEF GrowthInv, Nodes
      <4>2. QED
        BY <1>2, <1>6, <4>1, FirstPatchAdds, FrontierOfMode DEF GraphInv
    <3>3. state[Recall] # "running"
      <4>1. SUFFICES ASSUME state[Recall] = "running" PROVE FALSE
        OBVIOUS
      <4>2. PICK b \in inflight[e] : b.task = Recall
        BY <1>2, <4>1 DEF WorkInv, InLoop, Running, TasksOf
      <4>3. b \in batch[e]
        BY <1>2, <4>2 DEF SettleInv, Immediate
      <4>4. Remember <= Recall
        BY <1>1, <2>1, <4>2, <4>3 DEF IsNext
      <4>5. QED
        BY <4>4 DEF Remember, Recall
    <3>4. state[Recall] \in {"succeeded", "failed"}
      BY <1>2, <3>1, <3>2, <3>3 DEF GraphInv, Nodes, NodeState, Open, Terminal
    <3>5. QED
      BY <1>4, <2>1, <3>1, <3>4
  <2>2. CASE t # Remember
    BY <1>2, <1>4, <1>6, <2>2 DEF RememberInv
  <2>3. QED
    BY <2>1, <2>2
<1>7. QED
  BY <1>5, <1>6 DEF RememberInv

LEMMA RememberLaunched ==
  ASSUME NEW e \in Executors, RunInv(e), GraphInv, UniverseInv, LayerInv, RememberInv,
         2 <= MaxWorkers, request' = request, Launch(e)
  PROVE  RememberInv'
<1>1. PICK R \in SUBSET Runnable : IsReadyBatch(R, MaxWorkers - Cardinality(inflight[e])) /\ MarkRunning(R)
  BY DEF Launch
<1>2. /\ state \in [Tasks -> NodeState] /\ Remember \in Tasks /\ Recall \in Tasks /\ GrowthInv
  BY NodeNames DEF RunInv, PlannerInv, Initially, TypeOK, StoreTypeOK
<1>3. /\ \A u \in Tasks : state'[u] = IF u \in R THEN "running" ELSE state[u]
      /\ \A u \in R : state[u] = "pending"
      /\ Nodes' = Nodes
  BY <1>1, <1>2, RunnableFacts DEF MarkRunning, Nodes
<1>4. ASSUME state'[Remember] = "pending"
      PROVE  /\ \A u \in Nodes' : state'[u] = "pending" \/ (request'.mode = "fetch" /\ u \in Fetches)
             /\ Answer \notin Nodes' /\ Surface \notin Nodes'
  <2>1. Remember \notin R /\ state[Remember] = "pending"
    BY <1>2, <1>3, <1>4
  <2>2. request.mode = "fetch" /\ R \subseteq Fetches
    BY <1>1, <2>1, RememberHasRoom
  <2>3. QED
    BY <1>3, <2>1, <2>2 DEF RememberInv, Nodes
<1>5. ASSUME request.mode = "birthday_reminder"
      PROVE  /\ state'[Remember] = "running" => state'[Recall] # "pending"
             /\ state'[Remember] \in {"succeeded", "failed"} => state'[Recall] \in {"succeeded", "failed"}
  <2>1. CASE Remember \in R
    <3>1. SUFFICES ASSUME state'[Recall] = "pending" PROVE FALSE
      BY <1>2, <1>3, <2>1
    <3>2. Recall \notin R /\ state[Recall] = "pending" /\ state[Remember] = "pending"
      BY <1>2, <1>3, <2>1, <3>1
    <3>3. \A u \in Nodes : state[u] = "pending"
      BY <1>5, <3>2 DEF RememberInv
    <3>4. Parents(Recall) = {}
      BY <1>2, <3>3 DEF Parents, GraphInv, GrowthInv, Recall, Distill, Validate, Surface
    <3>5. Recall \in Runnable \ R
      BY <1>2, <3>2, <3>4 DEF Runnable
    <3>6. Remember < Recall
      BY <1>1, <2>1, <3>5 DEF IsReadyBatch
    <3>7. QED
      BY <3>6 DEF Remember, Recall
  <2>2. CASE Remember \notin R
    BY <1>2, <1>3, <1>5, <2>2 DEF RememberInv
  <2>3. QED
    BY <2>1, <2>2
<1>6. QED
  BY <1>4, <1>5 DEF RememberInv

LEMMA RememberPatched ==
  ASSUME NEW e \in Executors, RunInv(e), GraphInv, UniverseInv, LayerInv, RememberInv, request' = request,
         NEW t, NEW ok, NEW A, RulePatched(t, ok, A), ~finished'
  PROVE  RememberInv'
<1>1. /\ Answering(t, ok) /\ Addition(t, ok, A) /\ Nodes' = Nodes \cup A /\ A \cap Initially = {}
      /\ \A u \in Tasks : state'[u] = IF u \in A THEN "pending" ELSE state[u]
      /\ t \in Nodes /\ state[t] \in {"succeeded", "failed"} /\ ~Decided(t)
  BY DEF RulePatched, Answering
<1>2. /\ GrowthInv /\ RequestTypeOK /\ Nodes \subseteq Tasks
      /\ Remember \in Tasks /\ Recall \in Tasks /\ Remember \notin A
  BY <1>1, NodeNames DEF RunInv, PlannerInv, Initially, Nodes
<1>3. ASSUME state'[Remember] = "pending"
      PROVE  /\ \A u \in Nodes' : state'[u] = "pending" \/ (request'.mode = "fetch" /\ u \in Fetches)
             /\ Answer \notin Nodes' /\ Surface \notin Nodes'
  <2>1. state[Remember] = "pending" /\ Remember \in Nodes
    BY <1>1, <1>2, <1>3 DEF Nodes
  <2>2. request.mode = "fetch" /\ t \in Fetches
    BY <1>1, <2>1 DEF RememberInv
  <2>3. Rank(t) = 2 /\ t # Remember /\ t \notin {Reminder, ReadFile, Recall, Distill, Validate, ListDirectory, Search}
        /\ t \notin IndexDocs
    BY <2>2, Ranks, GroupNames
       DEF Fetch, IndexDoc, Remember, Reminder, ReadFile, Recall, Distill, Validate, ListDirectory, Search
  <2>4. Distill \notin Nodes
    BY <1>1, <2>3, Ranks DEF LayerInv, Joins
  <2>5. ~AllLanded(Nodes \ {Answer})
    <3>1. Remember # Answer
      BY DEF Remember, Answer
    <3>2. QED
      BY <2>1, <3>1 DEF AllLanded, Terminal
  <2>6. ~AnswersAfter(t, ok)
    BY <2>3, <2>5 DEF AnswersAfter
  <2>7. Answer \notin A
    <3>1. /\ Answer \notin Fetches \cup IndexDocs \cup Retries
          /\ Answer \notin {Surface, Distill, Recall, Reminder, Validate}
      BY GroupNames DEF Fetch, IndexDoc, Retry, Answer, Surface, Distill, Recall, Reminder, Validate
    <3>2. QED
      BY <1>1, <2>2, <2>4, <2>6, <3>1 DEF Addition
  <2>8. Surface \notin A
    <3>1. /\ Surface \notin Fetches \cup IndexDocs \cup Retries
          /\ Surface \notin {Answer, Distill, Recall, Reminder, Validate}
      BY GroupNames DEF Fetch, IndexDoc, Retry, Answer, Surface, Distill, Recall, Reminder, Validate
    <3>2. QED
      BY <1>1, <2>2, <3>1 DEF Addition
  <2>9. Answer \notin Nodes /\ Surface \notin Nodes /\ \A u \in Nodes : state[u] = "pending" \/ u \in Fetches
    BY <2>1 DEF RememberInv
  <2>10. QED
    <3>1. \A u \in Nodes' : u \in Tasks
      BY DEF Nodes
    <3>2. QED
      BY <1>1, <2>2, <2>7, <2>8, <2>9, <3>1
<1>4. request.mode = "birthday_reminder" => Recall \notin A
  <2>1. /\ Recall \notin Fetches \cup IndexDocs \cup Retries
        /\ Recall \notin {Answer, Distill, Surface, Reminder, Validate}
    BY GroupNames DEF Fetch, IndexDoc, Retry, Answer, Surface, Distill, Recall, Reminder, Validate
  <2>2. Recall \in A => t = IndexFile
    BY <1>1, <2>1 DEF Addition
  <2>3. QED
    BY <1>1, <1>2, <2>2 DEF GrowthInv
<1>5. request.mode = "birthday_reminder" =>
         state'[Remember] = state[Remember] /\ state'[Recall] = state[Recall]
  BY <1>1, <1>2, <1>4
<1>6. QED
  BY <1>3, <1>5 DEF RememberInv

LEMMA RememberStep ==
  ASSUME NEW e \in Executors, Executors = {e}, RunInv(e), SettleInv(e), FreshInv(e), GraphInv, UniverseInv,
         LayerInv, RememberInv, 2 <= MaxWorkers, crashes = 0, ~finished', [AgentNext]_agentVars
  PROVE  RememberInv'
<1>1. OneStep(e) /\ request' = request /\ Remember \in Tasks /\ Recall \in Tasks
  BY AgentSteps, NodeNames DEF Initially
<1>2. ASSUME \A u \in Tasks : state'[u] = state[u] PROVE RememberInv'
  <2>1. Nodes' = Nodes
    BY <1>2 DEF Nodes
  <2>2. QED
    BY <1>1, <1>2, <2>1 DEF RememberInv, Nodes
<1>3. CASE patched' # patched
  <2>1. CASE FirstPatched
    <3>1. \A u \in Nodes' : u \in FirstPatch.add /\ u \in Tasks /\ state'[u] = "pending"
      BY <2>1 DEF FirstPatched, Nodes
    <3>2. Answer \notin Nodes' /\ Surface \notin Nodes'
      BY <3>1, FirstPatchJoinless DEF RunInv, PlannerInv, Joins
    <3>3. state'[Remember] \in {"absent", "pending"}
      BY <1>1, <3>1 DEF Nodes
    <3>4. QED
      BY <3>1, <3>2, <3>3 DEF RememberInv
  <2>2. ASSUME NEW t, NEW ok, NEW A, RulePatched(t, ok, A) PROVE RememberInv'
    BY <1>1, <2>2, RememberPatched
  <2>3. QED
    BY <1>3, <2>1, <2>2, PatchedStep
<1>4. CASE ResumeRun(e)
  BY <1>2, <1>4, ResumeIsQuiet
<1>5. CASE RecordResult(e)
  BY <1>1, <1>5, RememberRecorded
<1>6. CASE Launch(e)
  BY <1>1, <1>6, RememberLaunched
<1>7. CASE \/ BeginRun(e) \/ ReplayNext(e) \/ ReplayEnds(e) \/ PlanDuplicate(e) \/ NothingToLaunch(e)
           \/ WorkerEnds(e) \/ Wake(e) \/ DiscardResult(e) \/ BatchEnds(e) \/ Crash \/ UNCHANGED vars
  <2>1. state' = state
    BY <1>7 DEF BeginRun, Start, ReplayNext, ReplayEnds, PlanDuplicate, NothingToLaunch, WorkerEnds, Wake,
       DiscardResult, BatchEnds, Crash, vars, store
  <2>2. QED
    BY <1>2, <2>1
<1>8. CASE PlanApplied(e, PlannerPatch(journal[trigger[e]]))
  <2>1. trigger[e] \notin patched /\ trigger[e] \in patched'
    BY <1>8 DEF PlanApplied, ApplyPatch
  <2>2. QED
    BY <1>3, <2>1
<1>9. QED
  BY <1>1, <1>4, <1>5, <1>6, <1>7, <1>8 DEF OneStep

LEMMA MissStep ==
  ASSUME NEW e \in Executors, Executors = {e}, RunInv(e), FollowInv, MissInv(e), 2 <= MaxWorkers,
         [AgentNext]_agentVars
  PROVE  MissInv(e)'
<1>1. UniverseInv' /\ SettleInv(e)'
  BY UniverseStep, SettleStep DEF MissInv
<1>2. FreshInv(e)'
  <2>1. FreshInv(e)
    BY DEF MissInv, FreshInv
  <2>2. QED
    BY <2>1, FreshStep
<1>3. ASSUME crashes' = 0 PROVE crashes = 0
  <2>1. OneStep(e) /\ crashes \in Nat
    BY AgentSteps DEF RunInv, TypeOK
  <2>2. crashes' = crashes \/ crashes' = crashes + 1
    BY <2>1 DEF OneStep, BeginRun, ResumeRun, ReplayNext, ReplayEnds, PlanDuplicate, PlanApplied, Launch,
       NothingToLaunch, WorkerEnds, Wake, DiscardResult, RecordResult, BatchEnds, Crash, vars
  <2>3. QED
    BY <1>3, <2>1, <2>2
<1>4. ~finished' => ~finished
  <2>1. CASE patched' = patched
    <3>1. StoreStep
      BY AgentSteps, OneStepIsAny, AnyStepIsStoreStep DEF RunInv
    <3>2. QED
      BY <2>1, <3>1, FinishedStays
  <2>2. CASE patched' # patched
    BY <2>2, PatchedStep
  <2>3. QED
    BY <2>1, <2>2
<1>5. ASSUME crashes = 0
      PROVE  JoinInv(e)' /\ (~finished' => LayerInv' /\ RememberInv')
  <2>1. UniverseInv /\ SettleInv(e) /\ FreshInv(e) /\ JoinInv(e)
    BY <1>5 DEF MissInv, FreshInv
  <2>2. ~finished => GraphInv /\ LayerInv /\ RememberInv
    BY <1>5 DEF MissInv, FollowInv
  <2>3. JoinInv(e)'
    BY <2>1, <2>2, JoinStep
  <2>4. ASSUME ~finished' PROVE LayerInv' /\ RememberInv'
    BY <1>4, <1>5, <2>1, <2>2, <2>4, LayerStep, RememberStep
  <2>5. QED
    BY <2>3, <2>4
<1>6. QED
  BY <1>1, <1>2, <1>3, <1>5 DEF MissInv, FreshInv

(* What an attempt has before it is what its worker reads.                 *)
LEMMA NothingMissed ==
  ASSUME NEW e \in Executors, Executors = {e}, OutcomeOnce, TypeOK, MissInv(e)
  PROVE  NothingIsMissed
<1>1. SUFFICES ASSUME crashes = 0, NEW a \in inflight[e]
               PROVE  /\ a.task = Answer => Cited(a) = Nodes \ {Answer}
                      /\ a.task = Surface => ShownUnderWay(a) = {}
                      /\ a.task \in {Distill, Validate} =>
                           \A t \in Nodes \ {a.task, Remember} : t \in Upstream(a) \/ state[t] = "failed"
  BY DEF NothingIsMissed
<1>2. a.task \in Joins =>
        /\ \A t \in Nodes \ {a.task, Remember} : HasBefore(a, t)
        /\ a.task \in {Answer, Surface} => \A t \in Nodes \ {a.task} : HasBefore(a, t)
  BY <1>1 DEF MissInv, JoinInv
<1>3. ASSUME a.task = Answer PROVE Cited(a) = Nodes \ {Answer}
  BY <1>2, <1>3 DEF Joins, Cited, HasBefore
<1>4. ASSUME a.task = Surface PROVE ShownUnderWay(a) = {}
  BY <1>2, <1>4 DEF Joins, ShownUnderWay, HasBefore
<1>5. ASSUME a.task \in {Distill, Validate}, NEW t \in Nodes \ {a.task, Remember}
      PROVE  t \in Upstream(a) \/ state[t] = "failed"
  <2>1. PICK i \in OutcomesOf(t) : i < a.number
    BY <1>2, <1>5 DEF Joins, HasBefore
  <2>2. /\ t \in Tasks /\ state[t] \in {"succeeded", "failed"}
        /\ journal[i].kind = IF state[t] = "succeeded" THEN "task_succeeded" ELSE "task_failed"
    BY <2>1 DEF OutcomeOnce, Nodes
  <2>3. QED
    BY <1>5, <2>1, <2>2 DEF Upstream
<1>6. QED
  BY <1>3, <1>4, <1>5

LEMMA MissInvInit ==
  ASSUME NEW e \in Executors, AgentInit
  PROVE  MissInv(e)
<1>1. /\ state = [t \in Tasks |-> "absent"] /\ journal = <<>> /\ pc = [f \in Executors |-> "idle"]
      /\ inflight = [f \in Executors |-> {}]
  BY DEF AgentInit, Init, StoreInit
<1>2. Nodes = {} /\ pc[e] = "idle" /\ inflight[e] = {}
  BY <1>1 DEF Nodes
<1>3. state[Remember] = "absent"
  BY <1>1, NodeNames DEF Initially
<1>4. QED
  BY <1>1, <1>2, <1>3 DEF MissInv, UniverseInv, SettleInv, JoinInv, LayerInv, RememberInv

(* A worker that puts together what others produced starts after them, in  *)
(* whatever order their outcomes arrived, in a run that no crash           *)
(* interrupts; a synthesis has its evidence in any run.  It takes two      *)
(* workers: one alone launches the answer before what is to be remembered. *)
THEOREM AgentRunWorkersHaveTheirInputs ==
  ASSUME NEW e \in Executors, Executors = {e}, 2 <= MaxWorkers
  PROVE  AgentSpec => []WorkersHaveTheirInputs
<1> DEFINE Inv == AnswerInv(e) /\ MissInv(e)
<1>1. AgentSpec => []AnswerInv(e)
  BY AnswerInvariant
<1>2. AgentInit => MissInv(e)
  BY MissInvInit
<1>3. AnswerInv(e) /\ MissInv(e) /\ [AgentNext]_agentVars => MissInv(e)'
  BY MissStep DEF AnswerInv
<1>4. AnswerInv(e) /\ MissInv(e) => WorkersHaveTheirInputs
  BY NothingMissed DEF AnswerInv, RunInv, PlannerInv, WorkersHaveTheirInputs
<1>5. QED
  BY <1>1, <1>2, <1>3, <1>4, PTL DEF AgentSpec

-----------------------------------------------------------------------------
(* What the graph promises of any planner, kept by the program's own.      *)

(* A request's run implements the run ledger: each outcome is written once *)
(* and decided at most once, by the planner the program has, whatever is   *)
(* interrupted, and nothing follows the decision that ends the run.        *)
THEOREM AgentRunImplementsRunLedger ==
  ASSUME NEW e \in Executors, Executors = {e}
  PROVE  AgentSpec => ImplementsRunLedger
<1>1. AgentInit => Ledger!Init
  <2>1. ASSUME AgentInit
        PROVE  /\ ledgerOutcome = [t \in Tasks |-> "none"] /\ ledgerDecided = {}
               /\ (journal # <<>>) = FALSE /\ (1 \in patched) = FALSE /\ finished = FALSE
    BY <2>1 DEF AgentInit, Init, StoreInit, ledgerOutcome, ledgerDecided, Terminal
  <2>2. QED
    BY <2>1 DEF Ledger!Init
<1>2. RunInv(e) /\ [AgentNext]_agentVars => [Ledger!Next]_(Ledger!ledger)
  <2>1. SUFFICES ASSUME RunInv(e), [AgentNext]_agentVars PROVE [Ledger!Next]_(Ledger!ledger)
    OBVIOUS
  <2>2. StoreStep
    BY <2>1, AgentSteps, OneStepIsAny, AnyStepIsStoreStep DEF RunInv
  <2>3. LedgerInv
    BY <2>1 DEF RunInv, LedgerInv
  <2>4. QED
    BY <2>2, <2>3, LedgerStep
<1>3. QED
  BY <1>1, <1>2, RunInvariant, PTL DEF AgentSpec, ImplementsRunLedger, Ledger!Spec

(* In a request's run a finished graph is quiet and frozen, terminal tasks *)
(* are final, every cancellation is journalled, and a call that returned   *)
(* left no outcome undecided and nothing it could have run.                *)
THEOREM AgentRunKeepsGraph ==
  ASSUME NEW e \in Executors, Executors = {e}
  PROVE  AgentSpec =>
           /\ [](FinishedIsQuiet /\ OutcomeOnce /\ DecidedOnce /\ CancelledIsJournalled
                 /\ NoOutcomeForgotten /\ NothingRunnableLeft /\ BoundedWork)
           /\ TerminalIsFinal
           /\ FinishedIsFrozen
<1>1. RunInv(e) /\ [AgentNext]_agentVars => StoreStep
  BY AgentSteps, OneStepIsAny, AnyStepIsStoreStep DEF RunInv
<1>2. AgentInit => CancelledIsJournalled
  BY DEF AgentInit, Init, StoreInit, CancelledIsJournalled
<1>3. RunInv(e) /\ CancelledIsJournalled /\ [AgentNext]_agentVars => CancelledIsJournalled'
  BY <1>1, JournalledStep DEF RunInv
<1>4. AnswerInv(e) => /\ RunInv(e) /\ FinishedIsQuiet /\ OutcomeOnce /\ DecidedOnce
                      /\ NoOutcomeForgotten /\ NothingRunnableLeft /\ BoundedWork
  <2> SUFFICES ASSUME AnswerInv(e)
               PROVE  /\ RunInv(e) /\ FinishedIsQuiet /\ OutcomeOnce /\ DecidedOnce
                      /\ NoOutcomeForgotten /\ NothingRunnableLeft /\ BoundedWork
    OBVIOUS
  <2>1. /\ RunInv(e) /\ FinishedIsQuiet /\ OutcomeOnce /\ DecidedOnce /\ NothingRunnableLeft
        /\ NobodyForgets /\ WorkInv(e) /\ TypeOK
    BY DEF AnswerInv, RunInv
  <2>2. NoOutcomeForgotten
    BY <2>1 DEF NobodyForgets, NoOutcomeForgotten, InHand, Planning, PendingPlannerEvents
  <2>3. Cardinality(inflight[e]) = Cardinality(TasksOf(inflight[e]))
    BY <2>1, FuturesAreTasks DEF WorkInv, TypeOK
  <2>4. BoundedWork
    BY <2>1, <2>3 DEF WorkInv, BoundedWork, Running, TasksOf, OnePerTask, InLoop
  <2>5. QED
    BY <2>1, <2>2, <2>4
<1>5. RunInv(e) /\ [AgentNext]_agentVars
      => [\A t \in Tasks : state[t] \in Terminal => state'[t] = state[t]]_vars
  BY <1>1, TerminalStep DEF RunInv
<1>6. RunInv(e) /\ [AgentNext]_agentVars
      => [finished => UNCHANGED <<state, edges, patched, finished>>]_vars
  BY <1>1, FrozenStep DEF RunInv
<1>7. QED
  BY <1>2, <1>3, <1>4, <1>5, <1>6, AnswerInvariant, PTL DEF AgentSpec, TerminalIsFinal, FinishedIsFrozen
=============================================================================
