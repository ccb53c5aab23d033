------------------------- MODULE AgentServiceProofs -------------------------
(***************************************************************************)
(* Theorems about what the agent service keeps and gives out as evidence:  *)
(* RunMemory (what runs leave in memory), Chunking (how a document is      *)
(* cut), and, with those of MemoryStoreProofs, the two properties that     *)
(* MCAgentService states of them together.                                 *)
(***************************************************************************)
EXTENDS MCAgentService, MemoryStoreProofs, WellFoundedInduction

(* The least-number principle, said of sets.                               *)
LEMMA LeastNumber ==
  ASSUME NEW S, S \subseteq Nat, S # {}
  PROVE  \E x \in S : \A y \in S : x <= y
<1> DEFINE R == OpToRel(<, Nat)
<1>1. \E x \in S : \A y \in S : ~ (<<y, x>> \in R)
  BY WFMin, NatLessThanWellFounded, Zenon
<1>2. \A x, y \in Nat : y < x => <<y, x>> \in R
  BY Zenon DEF OpToRel
<1> HIDE DEF R
<1>3. PICK x \in S : \A y \in S : ~ (<<y, x>> \in R)
  BY <1>1
<1>4. ASSUME NEW y \in S
      PROVE  x <= y
  <2>1. x \in Nat /\ y \in Nat
    OBVIOUS
  <2>2. ~ (y < x)
    BY <1>2, <1>3, <2>1
  <2>3. QED
    BY <2>1, <2>2
<1>5. QED
  BY <1>4

LEMMA Induction ==
  ASSUME NEW S, 0 \in S, \A k \in Nat : k \in S => k + 1 \in S
  PROVE  Nat \subseteq S
<1> DEFINE T == Nat \ S
<1> SUFFICES ASSUME T # {} PROVE FALSE
  OBVIOUS
<1>1. PICK k \in T : \A j \in T : k <= j
  <2>1. T \subseteq Nat
    OBVIOUS
  <2> HIDE DEF T
  <2>2. QED
    BY <2>1, LeastNumber
<1>2. k \in Nat /\ k # 0 /\ k - 1 \in Nat /\ (k - 1) + 1 = k
  BY <1>1
<1>3. k - 1 \notin T
  <2> HIDE DEF T
  <2>1. QED
    BY <1>1, <1>2
<1>4. QED
  BY <1>1, <1>2, <1>3

LEMMA MinIsIn ==
  ASSUME NEW S, S \subseteq Nat, S # {}
  PROVE  Min(S) \in S
BY LeastNumber DEF Min

LEMMA MaxIsIn ==
  ASSUME NEW b \in Nat, NEW S, S \subseteq 0 .. b, S # {}
  PROVE  Max(S) \in S
<1> DEFINE T == {b - x : x \in S}
<1>1. T \subseteq Nat /\ T # {}
  <2>1. ASSUME NEW x \in S
        PROVE  b - x \in Nat
    <3>1. x \in 0 .. b
      OBVIOUS
    <3>2. QED
      BY <3>1
  <2>2. PICK x \in S : TRUE
    OBVIOUS
  <2>3. b - x \in T
    OBVIOUS
  <2>4. QED
    BY <2>1, <2>3
<1>2. PICK y \in T : \A z \in T : y <= z
  BY <1>1, LeastNumber
<1>3. PICK x \in S : y = b - x
  BY <1>2
<1>4. \A z \in S : b - x <= b - z
  BY <1>2, <1>3
<1>5. \A z \in S : x >= z
  BY <1>4
<1>6. QED
  BY <1>5 DEF Max

-----------------------------------------------------------------------------
(* RunMemory.                                                              *)

Nodes == {"absent", "ready", "asking", "done", "raised", "succeeded", "failed"}

RunRecord ==
  [prompt : Prompts \cup {"none"}, state : {"none", "open", "finished", "unknown"},
   live : BOOLEAN, recall : Nodes, remember : Nodes, answer : Nodes,
   hits : SUBSET rows, fact : rows \cup {NoRecord}, evidence : SUBSET rows]

(* What a graph says was done is among the records; what a run holds is    *)
(* another's, or the fact that it was asked to remember.                   *)
RunOK(g, r) ==
  /\ g \in RunRecord
  /\ g.live => g.state = "open"
  /\ g.state \in {"open", "finished"} => Written("inbound", r) # {}
  /\ IF g.remember \in {"done", "succeeded"} THEN g.fact \in Written("fact", r)
     ELSE g.fact = NoRecord
  /\ g.answer \in {"done", "succeeded"} => Written("answer", r) # {}
  /\ \A i \in g.hits : i.run # r
  /\ \A i \in g.evidence : i.run = r => g.remember = "succeeded" /\ i = g.fact

RunsInv ==
  /\ runs = [r \in 1 .. MaxRuns |-> runs[r]]
  /\ \A r \in 1 .. MaxRuns : RunOK(runs[r], r)
  /\ asked = [q \in Prompts |-> asked[q]]
  /\ \A q \in Prompts : asked[q] = "completed" =>
       \E r \in 1 .. MaxRuns : /\ runs[r].prompt = q /\ runs[r].state = "finished"
                               /\ runs[r].answer = "succeeded"

(* Records are never taken away, so that a run that rests stays as it is.  *)
LEMMA RunRests ==
  ASSUME NEW r, RunOK(runs[r], r), rows \subseteq rows', runs'[r] = runs[r]
  PROVE  RunOK(runs[r], r)'
<1>1. Written("inbound", r) \subseteq Written("inbound", r)'
  BY DEF Written
<1>2. Written("answer", r) \subseteq Written("answer", r)'
  BY DEF Written
<1>3. Written("fact", r) \subseteq Written("fact", r)'
  BY DEF Written
<1>4. RunRecord \subseteq RunRecord'
  BY DEF RunRecord
<1>5. QED
  BY <1>1, <1>2, <1>3, <1>4 DEF RunOK

(* A step of one run that tells nobody that a request is completed.        *)
LEMMA OneRunMoves ==
  ASSUME RunsInv, NEW r \in 1 .. MaxRuns, rows \subseteq rows',
         runs' = [runs EXCEPT ![r] = runs'[r]], RunOK(runs[r], r)',
         runs[r].state = "finished" => runs'[r] = runs[r],
         asked' = [q \in Prompts |-> asked'[q]],
         \A q \in Prompts : asked'[q] = "completed" => asked[q] = "completed"
  PROVE  RunsInv'
<1>1. runs' = [k \in 1 .. MaxRuns |-> runs'[k]]
  BY DEF RunsInv
<1>2. \A k \in 1 .. MaxRuns : k # r => runs'[k] = runs[k]
  BY DEF RunsInv
<1>3. ASSUME NEW k \in 1 .. MaxRuns
      PROVE  RunOK(runs[k], k)'
  <2>1. CASE k = r
    BY <2>1
  <2>2. CASE k # r
    BY <1>2, <2>2, RunRests DEF RunsInv
  <2>3. QED
    BY <2>1, <2>2
<1>4. ASSUME NEW q \in Prompts, asked'[q] = "completed"
      PROVE  \E k \in 1 .. MaxRuns : /\ runs'[k].prompt = q /\ runs'[k].state = "finished"
                                     /\ runs'[k].answer = "succeeded"
  <2>1. PICK k \in 1 .. MaxRuns : /\ runs[k].prompt = q /\ runs[k].state = "finished"
                                  /\ runs[k].answer = "succeeded"
    BY <1>4 DEF RunsInv
  <2>2. runs'[k] = runs[k]
    BY <1>2, <2>1
  <2>3. QED
    BY <2>1, <2>2
<1>5. QED
  BY <1>1, <1>3, <1>4 DEF RunsInv

(* The next run to begin is one that has not, if there is one.             *)
LEMMA NextRunIsNew ==
  ASSUME RunsInv, NextRun # 0
  PROVE  NextRun \in 1 .. MaxRuns /\ runs[NextRun] = NoRun
<1> DEFINE I == {i \in 1 .. Len(runs) : runs[i] = NoRun}
<1>1. Len(runs) = MaxRuns
  BY RunMemoryAssumption DEF RunsInv
<1>2. NextRun = IF I # {} THEN CHOOSE x \in I : \A y \in I : x =< y ELSE 0
  BY DEF NextRun, SelectInSeq, Min
<1>3. I \subseteq 1 .. MaxRuns /\ I \subseteq Nat
  BY <1>1
<1>4. I # {}
  BY <1>2
<1>5. \E x \in I : \A y \in I : x =< y
  BY <1>3, <1>4, LeastNumber
<1>6. (CHOOSE x \in I : \A y \in I : x =< y) \in I
  BY <1>5
<1>7. QED
  BY <1>2, <1>3, <1>4, <1>6

LEMMA InterruptedOK ==
  ASSUME NEW r, RunOK(runs[r], r), rows \subseteq rows', runs'[r] = Interrupted(runs[r])
  PROVE  RunOK(runs[r], r)'
<1> DEFINE g == runs[r]
           h == runs'[r]
<1>1. /\ g \in RunRecord
      /\ g.live => g.state = "open"
      /\ g.state \in {"open", "finished"} => Written("inbound", r) # {}
      /\ IF g.remember \in {"done", "succeeded"} THEN g.fact \in Written("fact", r)
         ELSE g.fact = NoRecord
      /\ g.answer \in {"done", "succeeded"} => Written("answer", r) # {}
      /\ \A i \in g.hits : i.run # r
      /\ \A i \in g.evidence : i.run = r => g.remember = "succeeded" /\ i = g.fact
  BY DEF RunOK
<1>2. /\ h.prompt = g.prompt /\ h.state = g.state /\ h.live = FALSE
      /\ h.recall = Again(g.recall) /\ h.remember = Again(g.remember) /\ h.answer = Again(g.answer)
      /\ h.hits = (IF g.recall = "succeeded" THEN g.hits ELSE {})
      /\ h.fact = (IF g.remember = "succeeded" THEN g.fact ELSE NoRecord)
      /\ h.evidence = g.evidence
      /\ h = [prompt |-> h.prompt, state |-> h.state, live |-> h.live, recall |-> h.recall,
              remember |-> h.remember, answer |-> h.answer, hits |-> h.hits, fact |-> h.fact,
              evidence |-> h.evidence]
  BY <1>1 DEF Interrupted, RunRecord
<1> HIDE DEF g, h
<1>3. /\ Written("inbound", r) \subseteq Written("inbound", r)'
      /\ Written("answer", r) \subseteq Written("answer", r)'
      /\ Written("fact", r) \subseteq Written("fact", r)'
  BY DEF Written
<1>4. \A node \in Nodes : Again(node) \in Nodes /\ Again(node) # "done"
                          /\ (Again(node) = "succeeded" <=> node = "succeeded")
  BY DEF Again, Nodes
<1>5. h \in RunRecord'
  <2>1. /\ h.prompt \in Prompts \cup {"none"} /\ h.state \in {"none", "open", "finished", "unknown"}
        /\ h.live \in BOOLEAN /\ h.recall \in Nodes /\ h.remember \in Nodes /\ h.answer \in Nodes
        /\ h.hits \subseteq rows' /\ h.fact \in rows' \cup {NoRecord} /\ h.evidence \subseteq rows'
    BY <1>1, <1>2, <1>4 DEF RunRecord
  <2>2. QED
    BY <1>2, <2>1 DEF RunRecord
<1>6. h.remember = "succeeded" <=> g.remember = "succeeded"
  BY <1>1, <1>2, <1>4 DEF RunRecord
<1>7. h.remember # "done" /\ h.answer # "done" /\ (h.answer = "succeeded" <=> g.answer = "succeeded")
  BY <1>1, <1>2, <1>4 DEF RunRecord
<1>8. QED
  BY <1>1, <1>2, <1>3, <1>5, <1>6, <1>7 DEF RunOK, g, h

(* A node that moves, without a record: enough is kept.                    *)
LEMMA NodeMoves ==
  ASSUME RunsInv, NEW r \in 1 .. MaxRuns, runs[r].state # "finished",
         rows \subseteq rows', UNCHANGED asked,
         runs' = [runs EXCEPT ![r] = runs'[r]], RunOK(runs[r], r)'
  PROVE  RunsInv'
BY OneRunMoves DEF RunsInv

LEMMA RecordWritten ==
  ASSUME NEW part, NEW r, rows' = rows \cup {Record(part, r)}
  PROVE  Record(part, r) \in Written(part, r)' /\ rows \subseteq rows'
BY DEF Record, Written

LEMMA RunsWork ==
  ASSUME RunsInv, NEW r \in DOMAIN runs, Runs(r)
  PROVE  RunsInv'
<1> DEFINE g == runs[r]
           h == runs'[r]
<1>1. /\ r \in 1 .. MaxRuns /\ DOMAIN runs = 1 .. MaxRuns
      /\ RunOK(g, r) /\ g \in RunRecord
  BY DEF RunsInv, RunOK
<1>2. CASE Recalls(r)
  <2>1. /\ g.live /\ rows' = rows /\ asked' = asked
        /\ \/ \E H \in Hits(r) : runs' = [runs EXCEPT ![r].recall = "done", ![r].hits = H]
           \/ runs' = [runs EXCEPT ![r].recall = "raised"]
    BY <1>2 DEF Recalls
  <2>2. \A H \in Hits(r) : H \subseteq rows /\ \A i \in H : i.run # r
    BY DEF Hits, AtMost, OwnRecords, Facts
  <2>3. PICK H \in SUBSET rows, node \in {"done", "raised"} :
          /\ runs' = [runs EXCEPT ![r] = [g EXCEPT !.recall = node, !.hits = H]]
          /\ \A i \in H : i.run # r
    <3>1. CASE runs' = [runs EXCEPT ![r].recall = "raised"]
      <4>1. runs' = [runs EXCEPT ![r] = [g EXCEPT !.recall = "raised", !.hits = g.hits]]
        BY <1>1, <3>1 DEF RunRecord
      <4>2. g.hits \subseteq rows /\ \A i \in g.hits : i.run # r
        BY <1>1 DEF RunOK, RunRecord
      <4>3. QED
        BY <4>1, <4>2
    <3>2. CASE \E H \in Hits(r) : runs' = [runs EXCEPT ![r].recall = "done", ![r].hits = H]
      <4>1. PICK H \in Hits(r) : runs' = [runs EXCEPT ![r].recall = "done", ![r].hits = H]
        BY <3>2
      <4>2. runs' = [runs EXCEPT ![r] = [g EXCEPT !.recall = "done", !.hits = H]]
        BY <4>1
      <4>3. QED
        BY <2>2, <4>2
    <3>3. QED
      BY <2>1, <3>1, <3>2
  <2>4. h = [g EXCEPT !.recall = node, !.hits = H]
    BY <1>1, <2>3
  <2>5. RunOK(runs[r], r)'
    BY ZenonT(40), <1>1, <2>1, <2>3, <2>4 DEF RunOK, RunRecord, Nodes, Written
  <2>6. g.state # "finished"
    BY <1>1, <2>1 DEF RunOK
  <2>7. QED
    BY <1>1, <2>1, <2>3, <2>4, <2>5, <2>6, NodeMoves
<1>3. CASE RecallRecorded(r)
  <2>1. /\ g.live /\ rows' = rows /\ asked' = asked /\ g.recall \in {"done", "raised"}
        /\ runs' = [runs EXCEPT ![r] = [g EXCEPT !.recall = Settles(@), !.answer = "ready"]]
    BY <1>3 DEF RecallRecorded
  <2>2. h = [g EXCEPT !.recall = Settles(@), !.answer = "ready"]
    BY <1>1, <2>1
  <2>3. RunOK(runs[r], r)'
    BY ZenonT(40), <1>1, <2>1, <2>2 DEF RunOK, RunRecord, Nodes, Written, Settles
  <2>4. g.state # "finished"
    BY <1>1, <2>1 DEF RunOK
  <2>5. QED
    BY <1>1, <2>1, <2>2, <2>3, <2>4, NodeMoves
<1>4. CASE Remembers(r)
  <2>1. g.live /\ asked' = asked /\ g.remember = "ready"
    BY <1>4 DEF Remembers
  <2>2. CASE runs' = [runs EXCEPT ![r].remember = "raised"] /\ UNCHANGED rows
    <3>1. h = [g EXCEPT !.remember = "raised"]
      BY <1>1, <2>2
    <3>2. RunOK(runs[r], r)'
      BY <1>1, <2>1, <2>2, <3>1 DEF RunOK, RunRecord, Nodes, Written
    <3>3. g.state # "finished" /\ runs' = [runs EXCEPT ![r] = h]
      BY <1>1, <2>1, <2>2, <3>1 DEF RunOK
    <3>4. QED
      BY <1>1, <2>1, <2>2, <3>2, <3>3, NodeMoves
  <2>3. CASE /\ rows' = rows \cup {Record("fact", r)}
             /\ runs' = [runs EXCEPT ![r].remember = "done", ![r].fact = Record("fact", r)]
    <3> DEFINE fact == Record("fact", r)
    <3>1. h = [g EXCEPT !.remember = "done", !.fact = fact]
      BY <1>1, <2>3
    <3>2. fact \in Written("fact", r)' /\ rows \subseteq rows' /\ fact \in rows'
      BY <2>3, RecordWritten
    <3> HIDE DEF fact
    <3>3. /\ Written("inbound", r) \subseteq Written("inbound", r)'
          /\ Written("answer", r) \subseteq Written("answer", r)'
      BY <3>2 DEF Written
    <3>4. h \in RunRecord'
      BY <1>1, <3>1, <3>2 DEF RunRecord, Nodes
    <3>5. RunOK(runs[r], r)'
      BY <1>1, <2>1, <3>1, <3>2, <3>3, <3>4 DEF RunOK, RunRecord
    <3>6. g.state # "finished" /\ runs' = [runs EXCEPT ![r] = h]
      BY <1>1, <2>1, <2>3, <3>1 DEF RunOK, fact
    <3>7. QED
      BY <1>1, <2>1, <3>2, <3>5, <3>6, NodeMoves
  <2>4. QED
    BY <1>4, <2>2, <2>3 DEF Remembers
<1>5. CASE RememberRecorded(r)
  <2>1. /\ g.live /\ rows' = rows /\ asked' = asked /\ g.remember \in {"done", "raised"}
        /\ runs' = [runs EXCEPT ![r] = [g EXCEPT !.remember = Settles(@)]]
    BY <1>5 DEF RememberRecorded
  <2>2. h = [g EXCEPT !.remember = Settles(@)]
    BY <1>1, <2>1
  <2>3. RunOK(runs[r], r)'
    BY <1>1, <2>1, <2>2 DEF RunOK, RunRecord, Nodes, Written, Settles
  <2>4. g.state # "finished"
    BY <1>1, <2>1 DEF RunOK
  <2>5. QED
    BY <1>1, <2>1, <2>2, <2>3, <2>4, NodeMoves
<1>6. CASE AnswerReads(r)
  <2> DEFINE evidence == g.hits \cup ({g.fact} \ {NoRecord})
  <2>1. /\ g.live /\ rows' = rows /\ asked' = asked /\ Landed(g.remember)
        /\ runs' = [runs EXCEPT ![r] = [g EXCEPT !.answer = "asking", !.evidence = evidence]]
    BY <1>6 DEF AnswerReads
  <2>2. h = [g EXCEPT !.answer = "asking", !.evidence = evidence]
    BY <1>1, <2>1
  <2>3. /\ evidence \subseteq rows
        /\ \A i \in evidence : i.run = r => g.remember = "succeeded" /\ i = g.fact
    BY <1>1, <2>1 DEF RunOK, RunRecord, Landed
  <2> HIDE DEF evidence
  <2>4. RunOK(runs[r], r)'
    BY <1>1, <2>1, <2>2, <2>3 DEF RunOK, RunRecord, Nodes, Written
  <2>5. g.state # "finished"
    BY <1>1, <2>1 DEF RunOK
  <2>6. QED
    BY <1>1, <2>1, <2>2, <2>4, <2>5, NodeMoves
<1>7. CASE AnswerWritten(r)
  <2>1. /\ g.live /\ asked' = asked /\ rows' = rows \cup {Record("answer", r)}
        /\ runs' = [runs EXCEPT ![r] = [g EXCEPT !.answer = "done"]]
    BY <1>7 DEF AnswerWritten
  <2>2. h = [g EXCEPT !.answer = "done"]
    BY <1>1, <2>1
  <2>3. Written("answer", r)' # {} /\ rows \subseteq rows'
    BY <2>1, RecordWritten
  <2>4. /\ Written("inbound", r) \subseteq Written("inbound", r)'
        /\ Written("fact", r) \subseteq Written("fact", r)'
    BY <2>3 DEF Written
  <2>5. h \in RunRecord'
    BY <1>1, <2>2, <2>3 DEF RunRecord, Nodes
  <2>6. RunOK(runs[r], r)'
    BY <1>1, <2>2, <2>3, <2>4, <2>5 DEF RunOK, RunRecord
  <2>7. g.state # "finished"
    BY <1>1, <2>1 DEF RunOK
  <2>8. QED
    BY <1>1, <2>1, <2>2, <2>3, <2>6, <2>7, NodeMoves
<1>8. CASE AnswerRaises(r)
  <2>1. /\ g.live /\ rows' = rows /\ asked' = asked
        /\ runs' = [runs EXCEPT ![r] = [g EXCEPT !.answer = "raised"]]
    BY <1>8 DEF AnswerRaises
  <2>2. h = [g EXCEPT !.answer = "raised"]
    BY <1>1, <2>1
  <2>3. RunOK(runs[r], r)'
    BY <1>1, <2>1, <2>2 DEF RunOK, RunRecord, Nodes, Written
  <2>4. g.state # "finished"
    BY <1>1, <2>1 DEF RunOK
  <2>5. QED
    BY <1>1, <2>1, <2>2, <2>3, <2>4, NodeMoves
<1>9. CASE Reports(r)
  <2>1. /\ g.live /\ rows' = rows /\ g.answer \in {"done", "raised"}
        /\ runs' = [runs EXCEPT ![r] =
             [g EXCEPT !.answer = Settles(@), !.state = "finished", !.live = FALSE]]
        /\ asked' = [asked EXCEPT ![g.prompt] =
             IF @ # "served" THEN @ ELSE IF g.answer = "done" THEN "completed" ELSE "failed"]
    BY <1>9 DEF Reports
  <2>2. h = [g EXCEPT !.answer = Settles(@), !.state = "finished", !.live = FALSE]
    BY <1>1, <2>1
  <2>3. RunOK(runs[r], r)'
    BY ZenonT(40), <1>1, <2>1, <2>2 DEF RunOK, RunRecord, Nodes, Written, Settles
  <2>4. \A k \in 1 .. MaxRuns : k # r => runs'[k] = runs[k]
    BY <1>1, <2>1
  <2>5. \A k \in 1 .. MaxRuns : RunOK(runs[k], k)'
    <3>1. TAKE k \in 1 .. MaxRuns
    <3>2. CASE k = r
      BY <2>3, <3>2
    <3>3. CASE k # r
      BY <2>1, <2>4, <3>3, RunRests DEF RunsInv
    <3>4. QED
      BY <3>2, <3>3
  <2>6. runs' = [k \in 1 .. MaxRuns |-> runs'[k]] /\ asked' = [q \in Prompts |-> asked'[q]]
    BY <2>1 DEF RunsInv
  <2>7. ASSUME NEW q \in Prompts, asked'[q] = "completed"
        PROVE  \E k \in 1 .. MaxRuns : /\ runs'[k].prompt = q /\ runs'[k].state = "finished"
                                       /\ runs'[k].answer = "succeeded"
    <3>1. CASE asked[q] = "completed"
      <4>1. PICK k \in 1 .. MaxRuns : /\ runs[k].prompt = q /\ runs[k].state = "finished"
                                      /\ runs[k].answer = "succeeded"
        BY <3>1 DEF RunsInv
      <4>2. k # r
        BY <1>1, <2>1, <4>1 DEF RunOK
      <4>3. QED
        BY <2>4, <4>1, <4>2
    <3>2. CASE asked[q] # "completed"
      <4>1. q = g.prompt /\ g.answer = "done"
        BY <2>1, <2>7, <3>2 DEF RunsInv
      <4>2. h.prompt = q /\ h.state = "finished" /\ h.answer = "succeeded"
        BY <1>1, <2>2, <4>1 DEF RunRecord, Settles
      <4>3. QED
        BY <1>1, <4>2
    <3>3. QED
      BY <3>1, <3>2
  <2>8. QED
    BY <2>5, <2>6, <2>7 DEF RunsInv
<1>10. QED
  BY <1>2, <1>3, <1>4, <1>5, <1>6, <1>7, <1>8, <1>9 DEF Runs

(* The process dies: nothing that was told is taken back.                  *)
LEMMA CompletedStays ==
  ASSUME RunsInv, NEW q \in Prompts, asked[q] = "completed",
         \A k \in 1 .. MaxRuns : runs[k].state = "finished" => runs'[k] = Interrupted(runs[k])
  PROVE  \E k \in 1 .. MaxRuns : /\ runs'[k].prompt = q /\ runs'[k].state = "finished"
                                 /\ runs'[k].answer = "succeeded"
<1>1. PICK k \in 1 .. MaxRuns : /\ runs[k].prompt = q /\ runs[k].state = "finished"
                                /\ runs[k].answer = "succeeded"
  BY DEF RunsInv
<1>2. runs'[k] = Interrupted(runs[k]) /\ runs[k] \in RunRecord
  BY <1>1 DEF RunsInv, RunOK
<1>3. QED
  BY <1>1, <1>2 DEF Interrupted, Again, RunRecord

LEMMA RunsStepInv == RunsInv /\ [RunsNext]_runVars => RunsInv'
<1> SUFFICES ASSUME RunsInv, [RunsNext]_runVars PROVE RunsInv'
  OBVIOUS
<1>1. DOMAIN runs = 1 .. MaxRuns /\ \A r \in 1 .. MaxRuns : RunOK(runs[r], r)
  BY DEF RunsInv
<1>2. ASSUME NEW q \in Prompts, Asks(q)
      PROVE  RunsInv'
  <2>1. PICK r \in 1 .. MaxRuns : r = NextRun /\ runs[r] = NoRun
    BY <1>2, NextRunIsNew DEF Asks
  <2>2. /\ rows' = rows \cup {Record("inbound", r)}
        /\ runs' = [runs EXCEPT ![r] = Begun(q)] /\ asked' = [asked EXCEPT ![q] = "served"]
    BY <1>2, <2>1 DEF Asks
  <2>3. Written("inbound", r)' # {} /\ rows \subseteq rows'
    BY <2>2, RecordWritten
  <2>4. runs'[r] = Begun(q)
    BY <1>1, <2>2, <2>1
  <2>5. RunOK(runs[r], r)'
    <3>1. Begun(q) \in RunRecord'
      BY DEF Begun, NoRun, RunRecord, Nodes
    <3>2. QED
      BY <2>3, <2>4, <3>1 DEF RunOK, Begun, NoRun
  <2>6. runs[r].state # "finished"
    BY <2>1 DEF NoRun
  <2>7. /\ asked' = [p \in Prompts |-> asked'[p]]
        /\ \A p \in Prompts : asked'[p] = "completed" => asked[p] = "completed"
    BY <2>2 DEF RunsInv
  <2>8. QED
    BY <2>2, <2>1, <2>3, <2>4, <2>5, <2>6, <2>7, OneRunMoves
<1>3. ASSUME NEW q \in Prompts, AskRaises(q)
      PROVE  RunsInv'
  <2>1. UNCHANGED <<rows, runs>> /\ asked' = [asked EXCEPT ![q] = "failed"]
    BY <1>3 DEF AskRaises
  <2>2. \A r \in 1 .. MaxRuns : RunOK(runs[r], r)'
    BY <1>1, <2>1, RunRests
  <2>3. QED
    BY <2>1, <2>2 DEF RunsInv
<1>4. ASSUME NEW q \in Prompts, DiesBeforeTheGraph(q)
      PROVE  RunsInv'
  <2> DEFINE lost == [NoRun EXCEPT !.prompt = q, !.state = "unknown"]
  <2>1. PICK r \in 1 .. MaxRuns : r = NextRun /\ runs[r] = NoRun
    BY <1>4, NextRunIsNew DEF DiesBeforeTheGraph
  <2>2. /\ rows' = rows \cup {Record("inbound", r)}
        /\ runs' = [[k \in DOMAIN runs |-> Interrupted(runs[k])] EXCEPT ![r] = lost]
        /\ asked' = [p \in Prompts |->
             IF p # q /\ asked[p] # "served" THEN asked[p]
             ELSE IF p \in Delegated THEN "again" ELSE "lost"]
    BY <1>4, <2>1 DEF DiesBeforeTheGraph
  <2>3. rows \subseteq rows'
    BY <2>2
  <2>4. /\ runs'[r] = lost
        /\ \A k \in 1 .. MaxRuns : k # r => runs'[k] = Interrupted(runs[k])
        /\ runs' = [k \in 1 .. MaxRuns |-> runs'[k]]
    BY <1>1, <2>2, <2>1
  <2>5. RunOK(runs[r], r)'
    <3>1. lost \in RunRecord'
      BY DEF NoRun, RunRecord, Nodes
    <3>2. QED
      BY <2>4, <3>1 DEF RunOK, NoRun
  <2>6. ASSUME NEW k \in 1 .. MaxRuns PROVE RunOK(runs[k], k)'
    <3>1. CASE k = r
      BY <2>5, <3>1
    <3>2. CASE k # r
      BY <1>1, <2>3, <2>4, <3>2, InterruptedOK
    <3>3. QED
      BY <3>1, <3>2
  <2>7. ASSUME NEW p \in Prompts, asked'[p] = "completed"
        PROVE  \E k \in 1 .. MaxRuns : /\ runs'[k].prompt = p /\ runs'[k].state = "finished"
                                       /\ runs'[k].answer = "succeeded"
    <3>1. asked[p] = "completed"
      BY <2>2, <2>7
    <3>2. \A k \in 1 .. MaxRuns : runs[k].state = "finished" => runs'[k] = Interrupted(runs[k])
      BY <2>1, <2>4 DEF NoRun
    <3>3. QED
      BY <3>1, <3>2, CompletedStays
  <2>8. QED
    BY <2>2, <2>4, <2>6, <2>7 DEF RunsInv
<1>5. ASSUME NEW r \in DOMAIN runs, Runs(r)
      PROVE  RunsInv'
  BY <1>5, RunsWork
<1>6. ASSUME NEW r \in DOMAIN runs, Resumes(r)
      PROVE  RunsInv'
  <2>1. /\ runs[r].state = "open" /\ UNCHANGED <<rows, asked>>
        /\ runs' = [runs EXCEPT ![r] = [runs[r] EXCEPT !.live = TRUE]]
    BY <1>6 DEF Resumes
  <2>2. r \in 1 .. MaxRuns /\ RunOK(runs[r], r) /\ runs'[r] = [runs[r] EXCEPT !.live = TRUE]
    BY <1>1, <2>1
  <2>3. RunOK(runs[r], r)'
    BY <2>1, <2>2 DEF RunOK, RunRecord, Written
  <2>4. QED
    BY <2>1, <2>2, <2>3, NodeMoves
<1>7. CASE ProcessDies
  <2>1. /\ runs' = [k \in DOMAIN runs |-> Interrupted(runs[k])] /\ rows' = rows
        /\ asked' = [p \in Prompts |->
             IF asked[p] # "served" THEN asked[p] ELSE IF p \in Delegated THEN "again" ELSE "lost"]
    BY <1>7 DEF ProcessDies
  <2>2. \A k \in 1 .. MaxRuns : runs'[k] = Interrupted(runs[k])
    BY <1>1, <2>1
  <2>3. \A k \in 1 .. MaxRuns : RunOK(runs[k], k)'
    BY <1>1, <2>1, <2>2, InterruptedOK
  <2>4. \A p \in Prompts : asked'[p] = "completed" => asked[p] = "completed"
    BY <2>1
  <2>5. \A p \in Prompts : asked'[p] = "completed" =>
          \E k \in 1 .. MaxRuns : /\ runs'[k].prompt = p /\ runs'[k].state = "finished"
                                  /\ runs'[k].answer = "succeeded"
    BY <2>2, <2>4, CompletedStays
  <2>6. QED
    BY <1>1, <2>1, <2>3, <2>5 DEF RunsInv
<1>8. CASE Boots \/ UNCHANGED runVars
  <2>1. UNCHANGED <<rows, runs, asked>>
    BY <1>8 DEF Boots, runVars
  <2>2. \A r \in 1 .. MaxRuns : RunOK(runs[r], r)'
    BY <1>1, <2>1, RunRests
  <2>3. QED
    BY <2>1, <2>2 DEF RunsInv
<1>9. CASE StoresFact
  <2>1. rows \subseteq rows' /\ UNCHANGED <<runs, asked>>
    BY <1>9 DEF StoresFact
  <2>2. \A r \in 1 .. MaxRuns : RunOK(runs[r], r)'
    BY <1>1, <2>1, RunRests
  <2>3. QED
    BY <2>1, <2>2 DEF RunsInv
<1>10. QED
  BY <1>2, <1>3, <1>4, <1>5, <1>6, <1>7, <1>8, <1>9 DEF RunsNext

LEMMA RunsInitInv == RunsInit => RunsInv
<1> SUFFICES ASSUME RunsInit PROVE RunsInv
  OBVIOUS
<1>1. /\ runs = [r \in 1 .. MaxRuns |-> NoRun] /\ asked = [q \in Prompts |-> "new"]
  BY DEF RunsInit
<1>2. NoRun \in RunRecord
  BY DEF NoRun, RunRecord, Nodes
<1>3. \A r : RunOK(NoRun, r)
  BY <1>2 DEF RunOK, NoRun
<1>4. QED
  BY <1>1, <1>3 DEF RunsInv

LEMMA RunsInvIsEnough == RunsInv => ReportedIsRemembered /\ EvidenceIsOthers
<1> SUFFICES ASSUME RunsInv PROVE ReportedIsRemembered /\ EvidenceIsOthers
  OBVIOUS
<1>1. DOMAIN runs = 1 .. MaxRuns /\ \A r \in 1 .. MaxRuns : RunOK(runs[r], r)
  BY DEF RunsInv
<1>2. ReportedIsRemembered
  <2>1. \A r \in DOMAIN runs :
          /\ runs[r].state \in {"open", "finished"} => Written("inbound", r) # {}
          /\ runs[r].remember = "succeeded" => runs[r].fact \in Written("fact", r)
          /\ runs[r].answer = "succeeded" => Written("answer", r) # {}
    BY <1>1 DEF RunOK
  <2>2. \A q \in Prompts : asked[q] = "completed" =>
          \E r \in DOMAIN runs : runs[r].prompt = q /\ Written("answer", r) # {}
    BY <1>1 DEF RunOK, RunsInv
  <2>3. QED
    BY <2>1, <2>2 DEF ReportedIsRemembered
<1>3. EvidenceIsOthers
  <2>1. SUFFICES ASSUME NEW r \in DOMAIN runs, NEW i \in runs[r].hits \cup runs[r].evidence,
                        i.run = r
                 PROVE  i.part = "fact" /\ i = runs[r].fact /\ i \notin runs[r].hits
    BY DEF EvidenceIsOthers
  <2>2. i \notin runs[r].hits /\ i = runs[r].fact /\ runs[r].remember = "succeeded"
    BY <1>1, <2>1 DEF RunOK
  <2>3. runs[r].fact \in Written("fact", r)
    BY <1>1, <2>2 DEF RunOK
  <2>4. QED
    BY <2>2, <2>3 DEF Written
<1>4. QED
  BY <1>2, <1>3

-----------------------------------------------------------------------------
(* Chunking.                                                               *)

LEMMA WordsGrow ==
  ASSUME NEW i \in Nat, NEW j \in Nat, i <= j
  PROVE  /\ Words(i, i) = 0 /\ Words(i, j) \in Nat
         /\ Words(i, j + 1) = Words(i, j) + (IF j = i \/ Units[j] # "rest" THEN 1 ELSE 0)
         /\ \A k \in Nat : j <= k => Words(i, j) <= Words(i, k)
<1> DEFINE W(k) == {u \in i .. k - 1 : u = i \/ Units[u] # "rest"}
<1>1. \A k \in Nat : Words(i, k) = Cardinality(W(k))
  BY DEF Words
<1>2. ASSUME NEW k \in Nat
      PROVE  IsFiniteSet(W(k)) /\ Cardinality(W(k)) \in Nat
  <2>1. k - 1 \in Int /\ i \in Int
    OBVIOUS
  <2>2. IsFiniteSet(i .. k - 1)
    BY <2>1, FS_Interval
  <2>3. W(k) \subseteq i .. k - 1
    OBVIOUS
  <2>4. QED
    BY <2>2, <2>3, FS_Subset, FS_CardinalityType
<1>3. Words(i, i) = 0
  <2>1. W(i) = {}
    OBVIOUS
  <2>2. QED
    BY <1>1, <2>1, FS_EmptySet
<1>4. Words(i, j + 1) = Words(i, j) + (IF j = i \/ Units[j] # "rest" THEN 1 ELSE 0)
  <2>1. j \notin W(j) /\ j + 1 \in Nat
    OBVIOUS
  <2>2. CASE j = i \/ Units[j] # "rest"
    <3>1. W(j + 1) = W(j) \cup {j}
      BY <2>2
    <3>2. Cardinality(W(j) \cup {j}) = Cardinality(W(j)) + 1
      BY <1>2, <2>1, FS_AddElement
    <3>3. Words(i, j + 1) = Cardinality(W(j + 1)) /\ Words(i, j) = Cardinality(W(j))
      BY <1>1, <2>1
    <3> HIDE DEF W
    <3>4. QED
      BY <2>2, <3>1, <3>2, <3>3
  <2>3. CASE ~ (j = i \/ Units[j] # "rest")
    <3>1. W(j + 1) = W(j)
      BY <2>3
    <3>2. Words(i, j + 1) = Cardinality(W(j + 1)) /\ Words(i, j) = Cardinality(W(j))
      BY <1>1, <2>1
    <3>3. Cardinality(W(j)) \in Nat
      BY <1>2
    <3> HIDE DEF W
    <3>4. QED
      BY <2>3, <3>1, <3>2, <3>3
  <2>4. QED
    BY <2>2, <2>3
<1>5. ASSUME NEW k \in Nat, j <= k
      PROVE  Words(i, j) <= Words(i, k)
  <2>1. W(j) \subseteq W(k)
    BY <1>5
  <2>2. Cardinality(W(j)) <= Cardinality(W(k))
    BY <1>2, <2>1, FS_Subset
  <2>3. QED
    BY <1>1, <2>2
<1>6. QED
  BY <1>1, <1>2, <1>3, <1>4, <1>5

LEMMA WordsMonotone ==
  ASSUME NEW i \in Nat, NEW j \in Nat, NEW k \in Nat, i <= j, j <= k
  PROVE  Words(i, j) \in Nat /\ Words(i, k) \in Nat /\ Words(i, j) <= Words(i, k)
<1>1. i <= k
  OBVIOUS
<1>2. Words(i, j) \in Nat
  BY WordsGrow
<1>3. Words(i, k) \in Nat
  BY <1>1, WordsGrow
<1>4. Words(i, j) <= Words(i, k)
  BY WordsGrow
<1>5. QED
  BY <1>2, <1>3, <1>4

(* A place to cut the block that begins at start.                          *)
Cut(start, e) ==
  /\ e \in start + 1 .. End /\ Words(start, e) <= MaxWords
  /\ e = End \/ Units[e] # "rest"

(* The budget ends where a word does: the first unit that is too much      *)
(* begins one.                                                             *)
LEMMA NominalCut ==
  ASSUME NEW start \in Nat, End \in Nat, start < End
  PROVE  Cut(start, NominalEnd(start))
<1> DEFINE Full(u) == Words(start, u) = MaxWords /\ Units[u] # "rest"
           S == {u \in start .. End : Words(start, u) > MaxWords}
<1>1. \A u \in start .. End : u \in Nat /\ start <= u /\ Words(start, u) \in Nat
  BY WordsGrow
<1>2. CASE Words(start, End) <= MaxWords
  BY <1>2 DEF NominalEnd, Cut
<1>3. CASE ~ (Words(start, End) <= MaxWords)
  <2>1. \E u \in start .. End - 1 : Full(u)
    <3>1. End \in S /\ S \subseteq Nat
      BY <1>1, <1>3, ChunkingAssumption
    <3>2. PICK x \in S : \A y \in S : x <= y
      BY <3>1, LeastNumber
    <3>3. x # start
      BY <3>2, WordsGrow, ChunkingAssumption
    <3>4. x - 1 \in start .. End - 1 /\ x - 1 \in Nat /\ start <= x - 1 /\ (x - 1) + 1 = x
      BY <3>2, <3>3
    <3>5. Words(start, x - 1) <= MaxWords
      <4>1. x - 1 \notin S
        BY <3>2, <3>4
      <4>2. QED
        BY <1>1, <3>4, <4>1, ChunkingAssumption
    <3>6. Words(start, x) = Words(start, x - 1)
            + (IF x - 1 = start \/ Units[x - 1] # "rest" THEN 1 ELSE 0)
      BY <3>4, WordsGrow
    <3>7. Words(start, x) > MaxWords /\ Words(start, x - 1) \in Nat
      BY <1>1, <3>2, <3>4
    <3>8. Words(start, x - 1) = MaxWords /\ (x - 1 = start \/ Units[x - 1] # "rest")
      BY <3>5, <3>6, <3>7, ChunkingAssumption
    <3>9. x - 1 # start
      BY <3>8, WordsGrow, ChunkingAssumption
    <3>10. QED
      BY <3>4, <3>8, <3>9
  <2> DEFINE e == CHOOSE u \in start .. End - 1 : Full(u)
  <2>2. e \in start .. End - 1 /\ Full(e)
    BY <2>1
  <2>3. NominalEnd(start) = e
    BY <1>3 DEF NominalEnd
  <2> HIDE DEF e
  <2>4. e # start
    BY <2>2, WordsGrow, ChunkingAssumption
  <2>5. QED
    BY <2>2, <2>3, <2>4, ChunkingAssumption DEF Cut
<1>4. QED
  BY <1>2, <1>3

(* A structure ends a block at the beginning of a line.                    *)
LEMMA StructuralCut ==
  ASSUME NEW start \in Nat, End \in Nat, NEW end, Cut(start, end)
  PROVE  Cut(start, StructuralEnd(start, end))
<1> DEFINE e == StructuralEnd(start, end)
           headings == Headings(start, end)
           fences == Fences(start, end)
           rows1 == LastRows(start, end)
<1>1. end \in Nat /\ end <= End /\ start < end
  BY DEF Cut
<1>2. ASSUME NEW u \in start + 1 .. end - 1, Units[u] \in LineKinds
      PROVE  Cut(start, u)
  <2>1. u \in Nat /\ start <= u /\ u <= end
    BY <1>1
  <2>2. Words(start, u) <= Words(start, end) /\ Words(start, u) \in Nat /\ Words(start, end) \in Nat
    BY <1>1, <2>1, WordsMonotone
  <2>3. Words(start, u) <= MaxWords
    BY <2>2, ChunkingAssumption DEF Cut
  <2>4. QED
    BY <1>1, <1>2, <2>3 DEF Cut, LineKinds
<1>3. CASE headings # {}
  <2>1. headings \subseteq 0 .. end
    BY <1>1 DEF Headings
  <2>2. Max(headings) \in headings
    BY <1>1, <1>3, <2>1, MaxIsIn
  <2>3. e = Max(headings)
    BY <1>3 DEF StructuralEnd
  <2>4. QED
    BY <1>1, <1>2, <2>2, <2>3 DEF Headings, LineKinds
<1>4. CASE headings = {} /\ Cardinality(fences) % 2 = 1 /\ Max(fences) > start
  <2>1. fences # {}
    <3>1. CASE fences = {}
      <4>1. Cardinality(fences) = 0
        BY <3>1, FS_EmptySet
      <4>2. QED
        BY <1>4, <4>1
    <3>2. QED
      BY <3>1
  <2>2. fences \subseteq 0 .. end
    BY <1>1 DEF Fences
  <2>3. Max(fences) \in fences
    BY <1>1, <2>1, <2>2, MaxIsIn
  <2>4. e = Max(fences)
    BY <1>4 DEF StructuralEnd
  <2>5. QED
    BY <1>1, <1>2, <1>4, <2>3, <2>4 DEF Fences, LineKinds
<1>5. CASE headings = {} /\ ~ (Cardinality(fences) % 2 = 1 /\ Max(fences) > start) /\ rows1 # {}
  <2>1. \A u \in rows1 : u \in start + 1 .. end - 1 /\ Units[u] \in LineKinds
    BY DEF LastRows
  <2>2. rows1 \subseteq Nat
    BY <1>1, <2>1
  <2>3. Min(rows1) \in rows1
    BY <1>5, <2>2, MinIsIn
  <2>4. e = Min(rows1)
    BY <1>5 DEF StructuralEnd
  <2>5. QED
    BY <1>2, <2>1, <2>3, <2>4
<1>6. CASE headings = {} /\ ~ (Cardinality(fences) % 2 = 1 /\ Max(fences) > start) /\ rows1 = {}
  BY <1>6 DEF StructuralEnd
<1>7. QED
  BY <1>3, <1>4, <1>5, <1>6

ChunkInv ==
  /\ markdown \in Markdowns /\ pending_start \in 1 .. End
  /\ raw \in Seq([from : Nat, to : Nat, rolled : BOOLEAN])
  /\ ChunksAreWhole

LEMMA EndIsNat == ASSUME markdown \in Markdowns PROVE End \in Nat \ {0}
BY ChunkingAssumption DEF End, Units

(* One more chunk, from where the last one ended.                          *)
LEMMA ChunkAdded ==
  ASSUME ChunkInv, NEW e \in pending_start + 1 .. End, NEW rolled \in BOOLEAN,
         Words(pending_start, e) <= MaxWords, rolled \/ e = End \/ Units[e] # "rest",
         raw' = Append(raw, [from |-> pending_start, to |-> e, rolled |-> rolled]),
         pending_start' = e, UNCHANGED markdown
  PROVE  ChunkInv'
<1> DEFINE c == [from |-> pending_start, to |-> e, rolled |-> rolled]
<1>1. End \in Nat \ {0} /\ pending_start \in Nat /\ e \in Nat
  BY EndIsNat DEF ChunkInv
<1>2. /\ raw \in Seq([from : Nat, to : Nat, rolled : BOOLEAN])
      /\ c \in [from : Nat, to : Nat, rolled : BOOLEAN]
      /\ raw' = Append(raw, c)
  BY <1>1 DEF ChunkInv
<1>3. c.from = pending_start /\ c.to = e /\ c.rolled = rolled
  OBVIOUS
<1> HIDE DEF c
<1>4. /\ raw' \in Seq([from : Nat, to : Nat, rolled : BOOLEAN])
      /\ Len(raw') = Len(raw) + 1 /\ raw' # <<>> /\ raw'[Len(raw')] = c
      /\ \A k \in DOMAIN raw : raw'[k] = raw[k]
      /\ DOMAIN raw' = DOMAIN raw \cup {Len(raw')} /\ DOMAIN raw = 1 .. Len(raw) /\ Len(raw) \in Nat
  BY <1>2
<1>5. Units' = Units /\ End' = End
  BY DEF Units, End
<1>6. \A i, j : Words(i, j)' = Words(i, j)
  BY <1>5 DEF Words
<1>7. ASSUME NEW k \in DOMAIN raw'
      PROVE  /\ raw'[k].from = (IF k = 1 THEN 1 ELSE raw'[k - 1].to) /\ raw'[k].from < raw'[k].to
             /\ Words(raw'[k].from, raw'[k].to) <= MaxWords
             /\ raw'[k].rolled \/ raw'[k].to = End \/ Units[raw'[k].to] # "rest"
  <2>1. CASE k \in DOMAIN raw
    <3>1. raw'[k] = raw[k] /\ (k # 1 => raw'[k - 1] = raw[k - 1])
      BY <1>4, <2>1
    <3>2. QED
      BY <2>1, <3>1 DEF ChunkInv, ChunksAreWhole
  <2>2. CASE k = Len(raw')
    <3>1. raw'[k].from = (IF k = 1 THEN 1 ELSE raw'[k - 1].to)
      <4>1. CASE raw = <<>>
        BY <1>3, <1>4, <2>2, <4>1 DEF ChunkInv, ChunksAreWhole
      <4>2. CASE raw # <<>>
        <5>1. Len(raw) # 0
          BY <1>2, <4>2
        <5>2. k = Len(raw) + 1 /\ Len(raw) \in Nat /\ Len(raw) \in DOMAIN raw
          <6>1. k = Len(raw) + 1 /\ Len(raw) \in Nat
            BY <1>4, <2>2
          <6>2. QED
            BY <1>4, <5>1, <6>1
        <5>3. k # 1 /\ k - 1 = Len(raw)
          BY <5>1, <5>2
        <5>4. raw'[k - 1] = raw[Len(raw)]
          BY <1>4, <5>2, <5>3
        <5>5. pending_start = raw[Len(raw)].to
          BY <4>2 DEF ChunkInv, ChunksAreWhole
        <5>6. raw'[k].from = pending_start
          BY <1>3, <1>4, <2>2
        <5>7. QED
          BY <5>3, <5>4, <5>5, <5>6
      <4>3. QED
        BY <4>1, <4>2
    <3>2. raw'[k] = c
      BY <1>4, <2>2
    <3>3. c.from < c.to /\ Words(c.from, c.to) <= MaxWords
      BY <1>1, <1>3
    <3>4. c.rolled \/ c.to = End \/ Units[c.to] # "rest"
      BY <1>3
    <3>5. QED
      BY <3>1, <3>2, <3>3, <3>4
  <2>3. QED
    BY <1>4, <2>1, <2>2
<1>8. pending_start' = (IF raw' = <<>> THEN 1 ELSE raw'[Len(raw')].to)
  BY <1>3, <1>4
<1>9. ChunksAreWhole'
  BY <1>5, <1>6, <1>7, <1>8 DEF ChunksAreWhole
<1>10. QED
  BY <1>1, <1>4, <1>5, <1>9 DEF ChunkInv

LEMMA ChunkStepInv == ChunkInv /\ [ChunkingNext]_chunkVars => ChunkInv'
<1> SUFFICES ASSUME ChunkInv, [ChunkingNext]_chunkVars PROVE ChunkInv'
  OBVIOUS
<1>1. End \in Nat \ {0} /\ pending_start \in Nat
  BY EndIsNat DEF ChunkInv
<1>2. ASSUME pending_start < End
      PROVE  Cut(pending_start, BlockEnd)
  BY <1>1, <1>2, NominalCut, StructuralCut DEF BlockEnd
<1>3. CASE KeepsBlock
  <2>1. Cut(pending_start, BlockEnd)
    BY <1>2, <1>3 DEF KeepsBlock
  <2>2. QED
    BY <1>3, <2>1, ChunkAdded DEF KeepsBlock, Cut
<1>4. ASSUME NEW p \in 1 .. Len(Units), RollsOver(p)
      PROVE  ChunkInv'
  <2>1. Cut(pending_start, BlockEnd) /\ p \in pending_start + 1 .. BlockEnd - 1
    BY <1>2, <1>4 DEF RollsOver
  <2>2. BlockEnd \in Nat /\ p \in Nat /\ pending_start <= p /\ p <= BlockEnd /\ p \in pending_start + 1 .. End
    BY <1>1, <2>1 DEF Cut
  <2>3. /\ Words(pending_start, p) <= Words(pending_start, BlockEnd)
        /\ Words(pending_start, p) \in Nat /\ Words(pending_start, BlockEnd) \in Nat
    BY <1>1, <2>2, WordsMonotone
  <2>4. Words(pending_start, p) <= MaxWords
    BY <2>1, <2>3, ChunkingAssumption DEF Cut
  <2>5. QED
    BY <1>4, <2>2, <2>4, ChunkAdded DEF RollsOver
<1>5. CASE UNCHANGED chunkVars
  <2>1. UNCHANGED <<markdown, pending_start, raw>>
    BY <1>5 DEF chunkVars
  <2>2. Units' = Units /\ End' = End
    BY <2>1 DEF Units, End
  <2>3. \A i, j : Words(i, j)' = Words(i, j)
    BY <2>2 DEF Words
  <2>4. QED
    BY <2>1, <2>2, <2>3 DEF ChunkInv, ChunksAreWhole
<1>6. QED
  BY <1>3, <1>4, <1>5 DEF ChunkingNext

LEMMA ChunkInitInv == ChunkingInit => ChunkInv
<1> SUFFICES ASSUME ChunkingInit PROVE ChunkInv
  OBVIOUS
<1>1. markdown \in Markdowns /\ pending_start = 1 /\ raw = <<>>
  BY DEF ChunkingInit
<1>2. End \in Nat \ {0}
  BY <1>1, EndIsNat
<1>3. QED
  BY <1>1, <1>2 DEF ChunkInv, ChunksAreWhole

-----------------------------------------------------------------------------
(* The live view: a state is the fold of the frames up to some place.      *)

ViewEvents == [kind : Kinds, node : Steps]
ViewStates == [results : SUBSET Steps, patches : Seq(Nat)]
Deltas == [op : {"none"}] \cup [op : {"add"}, node : Steps] \cup [op : {"graph_patched"}, at : Nat]
ViewFrames == [type : {"STATE_SNAPSHOT"}, delta : Deltas, state : ViewStates]
            \cup [type : Kinds \cup {"RUN_FINISHED"}, delta : Deltas]

(* The frames that follow the first p events, and nothing after the end.   *)
FollowUp(frames, p) ==
  \A i \in 1 .. Len(frames) :
    \/ i = Len(frames) /\ frames[i] = RunFinished
    \/ p + i <= Len(journal) /\ frames[i] = ToAgui(p + i)

IsSnapshot(frame) ==
  /\ frame.type = "STATE_SNAPSHOT" /\ frame.state \in ViewStates
  /\ \E k \in 0 .. Len(journal) : IsStateAfter(frame.state, k)

(* A snapshot comes first or has come: then what follows changes nothing.  *)
(* Otherwise the frames follow the very events that the view has folded.   *)
ViewInv ==
  /\ journal \in Seq(ViewEvents)
  /\ stream \in [open : BOOLEAN, frames : Seq(ViewFrames)]
  /\ view \in ViewStates /\ rebuilt \in BOOLEAN
  /\ \A i \in 1 .. Len(stream.frames) :
       stream.frames[i].type = "STATE_SNAPSHOT" => IsSnapshot(stream.frames[i])
  /\ \E p \in 0 .. Len(journal) :
       /\ IsStateAfter(view, p)
       /\ \/ rebuilt
          \/ FollowUp(stream.frames, p)
          \/ stream.frames # <<>> /\ stream.frames[1].type = "STATE_SNAPSHOT"

LEMMA EventFrame ==
  ASSUME journal \in Seq(ViewEvents), NEW k \in 1 .. Len(journal)
  PROVE  ToAgui(k) \in ViewFrames /\ ToAgui(k).type \in Kinds
<1>1. journal[k] \in ViewEvents /\ k \in Nat
  OBVIOUS
<1>2. CASE journal[k].kind = "task_succeeded"
  <2>1. ToAgui(k) = [type |-> journal[k].kind, delta |-> [op |-> "add", node |-> journal[k].node]]
    BY <1>2 DEF ToAgui
  <2>2. QED
    BY <1>1, <2>1 DEF ViewFrames, Deltas, ViewEvents
<1>3. CASE journal[k].kind = "graph_patched"
  <2>1. ToAgui(k) = [type |-> journal[k].kind, delta |-> [op |-> "graph_patched", at |-> k]]
    BY <1>3 DEF ToAgui
  <2>2. QED
    BY <1>1, <2>1 DEF ViewFrames, Deltas, ViewEvents
<1>4. CASE journal[k].kind \notin {"task_succeeded", "graph_patched"}
  <2>1. ToAgui(k) = [type |-> journal[k].kind, delta |-> [op |-> "none"]]
    BY <1>4 DEF ToAgui
  <2>2. QED
    BY <1>1, <2>1 DEF ViewFrames, Deltas, ViewEvents
<1>5. QED
  BY <1>2, <1>3, <1>4

LEMMA EmptyIsFirst == EmptyState \in ViewStates /\ IsStateAfter(EmptyState, 0)
<1>1. EmptyState.results = {} /\ EmptyState.patches = <<>> /\ EmptyState \in ViewStates
  BY DEF EmptyState, ViewStates
<1>2. \A sort : Places(sort, 0) = {}
  BY DEF Places
<1>3. QED
  BY <1>1, <1>2 DEF IsStateAfter, ToSet

(* One more event folded is the state after one more event.                *)
LEMMA DeltaAdvances ==
  ASSUME journal \in Seq(ViewEvents), NEW k \in 1 .. Len(journal),
         NEW seen \in ViewStates, IsStateAfter(seen, k - 1)
  PROVE  /\ ApplyDelta(seen, ToAgui(k)) \in ViewStates
         /\ IsStateAfter(ApplyDelta(seen, ToAgui(k)), k)
<1> DEFINE next == ApplyDelta(seen, ToAgui(k))
<1>1. journal[k] \in ViewEvents /\ k \in Nat /\ 1 .. k = (1 .. (k - 1)) \cup {k}
  OBVIOUS
<1>2. \A sort : Places(sort, k) = Places(sort, k - 1) \cup (IF journal[k].kind = sort THEN {k} ELSE {})
  BY <1>1 DEF Places
<1>3. CASE journal[k].kind = "task_succeeded"
  <2>1. next = [seen EXCEPT !.results = @ \cup {journal[k].node}]
    BY <1>3 DEF ToAgui, ApplyDelta
  <2>2. next.results = seen.results \cup {journal[k].node} /\ next.patches = seen.patches /\ next \in ViewStates
    BY <1>1, <2>1 DEF ViewStates, ViewEvents
  <2>3. Places("task_succeeded", k) = Places("task_succeeded", k - 1) \cup {k}
        /\ Places("graph_patched", k) = Places("graph_patched", k - 1)
    BY <1>2, <1>3
  <2> HIDE DEF next
  <2>4. QED
    BY <2>2, <2>3 DEF IsStateAfter, next
<1>4. CASE journal[k].kind = "graph_patched"
  <2>1. next = [seen EXCEPT !.patches = Append(@, k)]
    BY <1>4 DEF ToAgui, ApplyDelta
  <2>2. seen.patches \in Seq(Nat) /\ seen.results \in SUBSET Steps
    BY DEF ViewStates
  <2>3. next.results = seen.results /\ next.patches = Append(seen.patches, k)
    BY <2>1 DEF ViewStates
  <2>4. next \in ViewStates
    <3>1. Append(seen.patches, k) \in Seq(Nat)
      BY <1>1, <2>2
    <3> DEFINE longer == Append(seen.patches, k)
    <3> HIDE DEF longer
    <3>2. [seen EXCEPT !.patches = longer] \in ViewStates
      BY <3>1 DEF ViewStates, longer
    <3>3. next = [seen EXCEPT !.patches = longer]
      BY <2>1 DEF longer
    <3>4. QED
      BY <3>2, <3>3
  <2>5. Places("task_succeeded", k) = Places("task_succeeded", k - 1)
        /\ Places("graph_patched", k) = Places("graph_patched", k - 1) \cup {k}
    BY <1>2, <1>4
  <2> DEFINE old == seen.patches
             new == Append(old, k)
  <2>6. Len(old) \in Nat /\ Len(new) = Len(old) + 1 /\ new[Len(old) + 1] = k
        /\ \A i \in 1 .. Len(old) : new[i] = old[i] /\ old[i] \in Nat
    BY <1>1, <2>2
  <2>7. ToSet(new) = ToSet(old) \cup {k}
    <3>1. DOMAIN new = 1 .. (Len(old) + 1) /\ DOMAIN old = 1 .. Len(old)
      BY <1>1, <2>2
    <3> HIDE DEF new, old
    <3>2. QED
      BY <2>6, <3>1 DEF ToSet
  <2>8. \A i \in 1 .. Len(old) : old[i] < k
    <3>1. ASSUME NEW i \in 1 .. Len(old) PROVE old[i] < k
      <4>1. old[i] \in ToSet(old)
        BY <2>2 DEF ToSet
      <4>2. old[i] \in 1 .. (k - 1)
        BY <4>1 DEF IsStateAfter, Places
      <4>3. QED
        BY <1>1, <4>2
    <3>2. QED
      BY <3>1
  <2>9. \A i, j \in 1 .. Len(new) : i < j => new[i] < new[j]
    <3>1. \A i, j \in 1 .. Len(old) : i < j => old[i] < old[j]
      BY DEF IsStateAfter
    <3> HIDE DEF new, old
    <3>2. \A i \in 1 .. Len(new) : i \in 1 .. Len(old) \/ i = Len(old) + 1
      BY <2>6
    <3>3. ASSUME NEW i \in 1 .. Len(new), NEW j \in 1 .. Len(new), i < j
          PROVE  new[i] < new[j]
      <4>1. i \in 1 .. Len(old)
        BY <2>6, <3>2, <3>3
      <4>2. CASE j \in 1 .. Len(old)
        BY <2>6, <3>1, <3>3, <4>1, <4>2
      <4>3. CASE j = Len(old) + 1
        BY <2>6, <2>8, <4>1, <4>3
      <4>4. QED
        BY <3>2, <4>2, <4>3
    <3>4. QED
      BY <3>3
  <2>10. QED
    BY <2>3, <2>4, <2>5, <2>7, <2>9 DEF IsStateAfter
<1>5. CASE journal[k].kind \notin {"task_succeeded", "graph_patched"}
  <2>1. next = seen
    BY <1>5 DEF ToAgui, ApplyDelta
  <2>2. Places("task_succeeded", k) = Places("task_succeeded", k - 1)
        /\ Places("graph_patched", k) = Places("graph_patched", k - 1)
    BY <1>2, <1>5
  <2>3. QED
    BY <2>1, <2>2 DEF IsStateAfter
<1>6. QED
  BY <1>3, <1>4, <1>5

(* There is one fold of every length, which ReplayState names.             *)
IsFold(f, frames, n) ==
  f = [k \in 0 .. n |-> IF k = 0 THEN EmptyState ELSE ApplyDelta(f[k - 1], frames[k])]

LEMMA FoldExists ==
  ASSUME NEW frames, NEW n \in Nat
  PROVE  \E f : IsFold(f, frames, n)
<1> DEFINE Bad == {k \in Nat : ~ \E f : IsFold(f, frames, k)}
<1> SUFFICES ASSUME Bad # {} PROVE FALSE
  OBVIOUS
<1>1. PICK k \in Bad : \A j \in Bad : k <= j
  BY LeastNumber
<1>2. CASE k = 0
  <2>1. IsFold([j \in 0 .. 0 |-> EmptyState], frames, 0)
    BY DEF IsFold
  <2>2. QED
    BY <1>1, <1>2, <2>1
<1>3. CASE k # 0
  <2>1. k - 1 \in Nat /\ k - 1 \notin Bad
    BY <1>1, <1>3
  <2>2. PICK f : IsFold(f, frames, k - 1)
    BY <2>1
  <2> DEFINE g == [j \in 0 .. k |-> IF j = 0 THEN EmptyState ELSE ApplyDelta(f[j - 1], frames[j])]
  <2>3. \A j \in 0 .. (k - 1) : f[j] = IF j = 0 THEN EmptyState ELSE ApplyDelta(f[j - 1], frames[j])
    BY <2>2 DEF IsFold
  <2>4. \A j \in 0 .. (k - 1) : g[j] = f[j]
    BY <2>1, <2>3
  <2>5. \A j \in 0 .. k : j # 0 => g[j - 1] = f[j - 1]
    <3>1. \A j \in 0 .. k : j # 0 => j - 1 \in 0 .. (k - 1)
      BY <2>1
    <3> HIDE DEF g
    <3>2. QED
      BY <2>4, <3>1
  <2>6. g = [j \in 0 .. k |-> IF j = 0 THEN EmptyState ELSE ApplyDelta(g[j - 1], frames[j])]
    BY <2>5
  <2>7. IsFold(g, frames, k)
    BY <2>6 DEF IsFold
  <2>8. QED
    BY <1>1, <2>7
<1>4. QED
  BY <1>2, <1>3

LEMMA ReplayIsFold ==
  ASSUME NEW frames, Len(frames) \in Nat
  PROVE  \E f : IsFold(f, frames, Len(frames)) /\ ReplayState(frames) = f[Len(frames)]
<1> DEFINE f == CHOOSE f : IsFold(f, frames, Len(frames))
<1>1. IsFold(f, frames, Len(frames))
  BY FoldExists
<1>2. ReplayState(frames) = f[Len(frames)]
  BY Zenon DEF ReplayState, IsFold
<1>3. QED
  BY <1>1, <1>2

(* The snapshot is the state after the whole journal.                      *)
LEMMA SnapshotIsWhole ==
  ASSUME journal \in Seq(ViewEvents)
  PROVE  RunDataModel \in ViewStates /\ IsStateAfter(RunDataModel, Len(journal))
<1>1. Len(journal) \in Nat /\ Len(JournalFrames) = Len(journal)
      /\ \A k \in 1 .. Len(journal) : JournalFrames[k] = ToAgui(k)
  BY DEF JournalFrames
<1>2. PICK f : IsFold(f, JournalFrames, Len(journal)) /\ RunDataModel = f[Len(journal)]
  BY <1>1, ReplayIsFold DEF RunDataModel
<1> DEFINE Good(k) == f[k] \in ViewStates /\ IsStateAfter(f[k], k)
           Bad == {k \in 0 .. Len(journal) : ~Good(k)}
<1>3. f[0] = EmptyState /\ \A k \in 1 .. Len(journal) : f[k] = ApplyDelta(f[k - 1], ToAgui(k))
  <2>1. \A k \in 0 .. Len(journal) :
          f[k] = IF k = 0 THEN EmptyState ELSE ApplyDelta(f[k - 1], JournalFrames[k])
    BY <1>2 DEF IsFold
  <2>2. QED
    BY <1>1, <2>1
<1>4. Good(0)
  BY <1>3, EmptyIsFirst
<1>5. ASSUME NEW k \in 1 .. Len(journal), Good(k - 1) PROVE Good(k)
  BY <1>3, <1>5, DeltaAdvances
<1> HIDE DEF Good
<1>6. Bad = {}
  <2> SUFFICES ASSUME Bad # {} PROVE FALSE
    OBVIOUS
  <2>1. PICK k \in Bad : \A j \in Bad : k <= j
    <3>1. Bad \subseteq Nat
      BY <1>1
    <3> HIDE DEF Bad
    <3>2. QED
      BY <3>1, LeastNumber
  <2>2. k # 0
    BY <1>4, <2>1
  <2>3. k \in 1 .. Len(journal) /\ k - 1 \in 0 .. Len(journal) /\ k - 1 \notin Bad
    BY <1>1, <2>1, <2>2
  <2>4. QED
    BY <1>5, <2>1, <2>3
<1>7. QED
  BY <1>1, <1>2, <1>6 DEF Good

LEMMA ViewInitInv == ViewInit => ViewInv
<1> SUFFICES ASSUME ViewInit PROVE ViewInv
  OBVIOUS
<1>1. journal = <<>> /\ stream = [open |-> FALSE, frames |-> <<>>] /\ view = EmptyState /\ rebuilt = FALSE
  BY DEF ViewInit, Closed
<1>2. FollowUp(<<>>, 0)
  BY DEF FollowUp
<1>3. IsStateAfter(view, 0) /\ FollowUp(stream.frames, 0) /\ 0 \in 0 .. Len(journal) /\ view \in ViewStates
  BY <1>1, <1>2, EmptyIsFirst
<1>4. journal \in Seq(ViewEvents) /\ stream \in [open : BOOLEAN, frames : Seq(ViewFrames)]
      /\ rebuilt \in BOOLEAN /\ Len(stream.frames) = 0
  <2>1. <<>> \in Seq(ViewEvents) /\ <<>> \in Seq(ViewFrames) /\ Len(<<>>) = 0
    OBVIOUS
  <2>2. QED
    BY <1>1, <2>1
<1>5. QED
  BY <1>3, <1>4 DEF ViewInv

(* What a connection is sent: the journal from its first event, behind a   *)
(* snapshot when it is the second.                                         *)
LEMMA StreamFrames ==
  ASSUME journal \in Seq(ViewEvents), NEW reconnect \in BOOLEAN
  PROVE  LET frames == StreamAgui(reconnect)
         IN /\ frames \in Seq(ViewFrames)
            /\ IF reconnect THEN frames # <<>> /\ frames[1] = Snapshot(RunDataModel)
                            ELSE FollowUp(frames, 0)
            /\ \A i \in 1 .. Len(frames) :
                 frames[i].type = "STATE_SNAPSHOT" => frames[i] = Snapshot(RunDataModel)
<1> DEFINE snap  == IF reconnect THEN <<Snapshot(RunDataModel)>> ELSE <<>>
           last  == IF runFinished THEN <<RunFinished>> ELSE <<>>
           whole == JournalFrames \o last
<1>1. JournalFrames \in Seq(ViewFrames) /\ Len(JournalFrames) = Len(journal) /\ Len(journal) \in Nat
      /\ \A k \in 1 .. Len(journal) : JournalFrames[k] = ToAgui(k)
  <2>1. JournalFrames = [k \in 1 .. Len(journal) |-> ToAgui(k)] /\ Len(journal) \in Nat
    BY DEF JournalFrames
  <2>2. \A k \in 1 .. Len(journal) : ToAgui(k) \in ViewFrames
    BY EventFrame
  <2>3. QED
    BY <2>1, <2>2
<1>2. RunFinished \in ViewFrames /\ RunFinished.type = "RUN_FINISHED"
  BY DEF RunFinished, ViewFrames, Deltas
<1>3. Snapshot(RunDataModel) \in ViewFrames
  BY SnapshotIsWhole DEF Snapshot, ViewFrames, Deltas
<1>4. snap \in Seq(ViewFrames) /\ last \in Seq(ViewFrames)
      /\ snap = (IF reconnect THEN <<Snapshot(RunDataModel)>> ELSE <<>>)
      /\ Len(snap) = (IF reconnect THEN 1 ELSE 0) /\ (reconnect => snap[1] = Snapshot(RunDataModel))
      /\ Len(last) \in {0, 1} /\ (Len(last) = 1 => last[1] = RunFinished)
  BY <1>2, <1>3
<1>5. StreamAgui(reconnect) = (snap \o JournalFrames) \o last
  BY DEF StreamAgui
<1> HIDE DEF snap, last
<1> DEFINE n == Len(journal)
           m == Len(snap)
           frames == (snap \o JournalFrames) \o last
<1>6. n \in Nat /\ m \in {0, 1} /\ frames \in Seq(ViewFrames) /\ Len(frames) = m + n + Len(last)
  BY <1>1, <1>4
<1>7. (\A i \in 1 .. m : frames[i] = snap[i])
      /\ (\A i \in 1 .. n : frames[m + i] = ToAgui(i))
      /\ (Len(last) = 1 => frames[m + n + 1] = RunFinished)
  BY <1>1, <1>4
<1> HIDE DEF n, m, frames
<1>8. \A i \in 1 .. Len(frames) :
        \/ i = 1 /\ m = 1 /\ frames[i] = Snapshot(RunDataModel)
        \/ i - m \in 1 .. n /\ frames[i] = ToAgui(i - m)
        \/ i = Len(frames) /\ frames[i] = RunFinished
  <2> SUFFICES ASSUME NEW i \in 1 .. Len(frames)
               PROVE  \/ i = 1 /\ m = 1 /\ frames[i] = Snapshot(RunDataModel)
                      \/ i - m \in 1 .. n /\ frames[i] = ToAgui(i - m)
                      \/ i = Len(frames) /\ frames[i] = RunFinished
    OBVIOUS
  <2>1. i \in Nat /\ i >= 1 /\ i <= m + n + Len(last)
    BY <1>4, <1>6
  <2>2. CASE i <= m
    BY <1>4, <1>6, <1>7, <2>1, <2>2 DEF m
  <2>3. CASE i > m /\ i - m <= n
    <3>1. i - m \in 1 .. n /\ m + (i - m) = i
      BY <1>6, <2>1, <2>3
    <3>2. QED
      BY <1>7, <3>1
  <2>4. CASE i > m /\ i - m > n
    <3>1. Len(last) = 1 /\ i = m + n + 1 /\ i = Len(frames)
      <4>1. i > m + n
        BY <1>6, <2>1, <2>4
      <4>2. Len(last) = 1
        BY <1>4, <1>6, <2>1, <4>1
      <4>3. QED
        BY <1>6, <2>1, <4>1, <4>2
    <3>2. QED
      BY <1>7, <3>1
  <2>5. QED
    BY <1>6, <2>1, <2>2, <2>3, <2>4
<1>9. \A i \in 1 .. Len(frames) :
        frames[i].type = "STATE_SNAPSHOT" => frames[i] = Snapshot(RunDataModel)
  <2>1. \A k \in 1 .. n : ToAgui(k).type # "STATE_SNAPSHOT"
    BY EventFrame DEF n, Kinds
  <2>2. QED
    BY <1>2, <1>8, <2>1
<1>10. CASE reconnect
  <2>1. m = 1 /\ frames # <<>> /\ frames[1] = Snapshot(RunDataModel)
    <3>1. m = 1 /\ snap[1] = Snapshot(RunDataModel)
      BY <1>4, <1>10 DEF m
    <3>2. 1 \in 1 .. m /\ Len(frames) # 0 /\ Len(<<>>) = 0
      BY <1>4, <1>6, <3>1
    <3>3. QED
      BY <1>7, <3>1, <3>2
  <2>2. QED
    BY <1>5, <1>6, <1>9, <1>10, <2>1 DEF frames
<1>11. CASE ~reconnect
  <2>1. m = 0
    BY <1>4, <1>11 DEF m
  <2>2. FollowUp(frames, 0)
    <3>1. ASSUME NEW i \in 1 .. Len(frames)
          PROVE  \/ i = Len(frames) /\ frames[i] = RunFinished
                 \/ 0 + i <= Len(journal) /\ frames[i] = ToAgui(0 + i)
      <4>1. i - m = i /\ 0 + i = i
        BY <1>6, <2>1
      <4>2. QED
        BY <1>8, <2>1, <4>1 DEF n
    <3>2. QED
      BY <3>1 DEF FollowUp
  <2>3. QED
    BY <1>5, <1>6, <1>9, <1>11, <2>2 DEF frames
<1>12. QED
  BY <1>10, <1>11

LEMMA ViewRests ==
  ASSUME ViewInv, UNCHANGED <<journal, stream, view, rebuilt>>
  PROVE  ViewInv'
<1>1. \A seen, k : IsStateAfter(seen, k)' = IsStateAfter(seen, k)
  BY DEF IsStateAfter, Places
<1>2. \A frames, p : FollowUp(frames, p)' = FollowUp(frames, p)
  BY DEF FollowUp, ToAgui
<1>3. \A frame : IsSnapshot(frame)' = IsSnapshot(frame)
  BY <1>1 DEF IsSnapshot
<1>4. QED
  BY <1>1, <1>2, <1>3 DEF ViewInv

(* What was true of the run's first events stays so.                       *)
LEMMA RecordingKeeps ==
  ASSUME journal \in Seq(ViewEvents), NEW event \in ViewEvents, journal' = Append(journal, event)
  PROVE  /\ Len(journal') = Len(journal) + 1 /\ journal' \in Seq(ViewEvents)
         /\ \A seen : \A k \in 0 .. Len(journal) : IsStateAfter(seen, k) => IsStateAfter(seen, k)'
         /\ \A frames, p : p \in Nat /\ Len(frames) \in Nat /\ FollowUp(frames, p) => FollowUp(frames, p)'
         /\ \A frame : IsSnapshot(frame) => IsSnapshot(frame)'
<1>1. Len(journal) \in Nat /\ Len(journal') = Len(journal) + 1 /\ journal' \in Seq(ViewEvents)
      /\ \A i \in 1 .. Len(journal) : journal'[i] = journal[i]
  OBVIOUS
<1>2. \A k \in 0 .. Len(journal) : \A i \in 1 .. k : i \in 1 .. Len(journal)
  BY <1>1
<1>3. \A seen : \A k \in 0 .. Len(journal) : IsStateAfter(seen, k) => IsStateAfter(seen, k)'
  <2> SUFFICES ASSUME NEW seen, NEW k \in 0 .. Len(journal), IsStateAfter(seen, k)
               PROVE  IsStateAfter(seen, k)'
    OBVIOUS
  <2>1. \A sort : Places(sort, k)' = Places(sort, k)
    BY <1>1, <1>2 DEF Places
  <2>2. \A i \in Places("task_succeeded", k) : journal'[i] = journal[i]
    BY <1>1, <1>2 DEF Places
  <2>3. QED
    BY <2>1, <2>2 DEF IsStateAfter
<1>4. \A frames, p : p \in Nat /\ Len(frames) \in Nat /\ FollowUp(frames, p) => FollowUp(frames, p)'
  <2> SUFFICES ASSUME NEW frames, NEW p \in Nat, Len(frames) \in Nat, FollowUp(frames, p)
               PROVE  FollowUp(frames, p)'
    OBVIOUS
  <2>1. \A k \in 1 .. Len(journal) : ToAgui(k)' = ToAgui(k)
    BY <1>1 DEF ToAgui
  <2>2. ASSUME NEW i \in 1 .. Len(frames), p + i <= Len(journal), frames[i] = ToAgui(p + i)
        PROVE  p + i <= Len(journal') /\ frames[i] = ToAgui(p + i)'
    <3>1. p + i \in 1 .. Len(journal) /\ p + i <= Len(journal')
      BY <1>1, <2>2
    <3>2. QED
      BY <2>1, <2>2, <3>1
  <2>3. QED
    BY <2>2 DEF FollowUp, RunFinished
<1>5. \A frame : IsSnapshot(frame) => IsSnapshot(frame)'
  <2> SUFFICES ASSUME NEW frame, IsSnapshot(frame) PROVE IsSnapshot(frame)'
    OBVIOUS
  <2>1. PICK k \in 0 .. Len(journal) : IsStateAfter(frame.state, k)
    BY DEF IsSnapshot
  <2>2. IsStateAfter(frame.state, k)' /\ k \in 0 .. Len(journal')
    BY <1>1, <1>3, <2>1
  <2>3. QED
    BY <2>2 DEF IsSnapshot
<1>6. QED
  BY <1>1, <1>3, <1>4, <1>5

LEMMA ConnectKeeps ==
  ASSUME ViewInv, NEW reconnect \in BOOLEAN, Connect(reconnect),
         reconnect \/ view = EmptyState
  PROVE  ViewInv'
<1>1. /\ stream' = [open |-> TRUE, frames |-> StreamAgui(reconnect)]
      /\ UNCHANGED <<journal, runFinished, view, rebuilt>>
  BY DEF Connect
<1> DEFINE frames == StreamAgui(reconnect)
<1>2. /\ frames \in Seq(ViewFrames)
      /\ IF reconnect THEN frames # <<>> /\ frames[1] = Snapshot(RunDataModel)
                      ELSE FollowUp(frames, 0)
      /\ \A i \in 1 .. Len(frames) :
           frames[i].type = "STATE_SNAPSHOT" => frames[i] = Snapshot(RunDataModel)
  BY StreamFrames DEF ViewInv
<1> HIDE DEF frames
<1>3. Snapshot(RunDataModel).type = "STATE_SNAPSHOT" /\ IsSnapshot(Snapshot(RunDataModel))
  <2>1. RunDataModel \in ViewStates /\ IsStateAfter(RunDataModel, Len(journal))
    BY SnapshotIsWhole DEF ViewInv
  <2>2. Snapshot(RunDataModel).type = "STATE_SNAPSHOT" /\ Snapshot(RunDataModel).state = RunDataModel
    BY DEF Snapshot
  <2>3. Len(journal) \in 0 .. Len(journal)
    BY DEF ViewInv
  <2>4. QED
    BY <2>1, <2>2, <2>3 DEF IsSnapshot
<1>4. \A seen, k : IsStateAfter(seen, k)' = IsStateAfter(seen, k)
  BY <1>1 DEF IsStateAfter, Places
<1>5. \A fs, p : FollowUp(fs, p)' = FollowUp(fs, p)
  BY <1>1 DEF FollowUp, ToAgui, RunFinished
<1>6. \A frame : IsSnapshot(frame)' = IsSnapshot(frame)
  BY <1>1, <1>4 DEF IsSnapshot
<1>7. stream'.frames = frames /\ stream' \in [open : BOOLEAN, frames : Seq(ViewFrames)]
  BY <1>1, <1>2 DEF frames
<1>8. \E p \in 0 .. Len(journal) :
        /\ IsStateAfter(view, p)
        /\ \/ FollowUp(frames, p)
           \/ frames # <<>> /\ frames[1].type = "STATE_SNAPSHOT"
  <2>1. CASE reconnect
    BY <1>2, <1>3, <2>1 DEF ViewInv
  <2>2. CASE ~reconnect
    <3>1. IsStateAfter(view, 0) /\ 0 \in 0 .. Len(journal)
      BY <2>2, EmptyIsFirst DEF ViewInv
    <3>2. QED
      BY <1>2, <2>2, <3>1
  <2>3. QED
    BY <2>1, <2>2
<1>9. \A i \in 1 .. Len(frames) : frames[i].type = "STATE_SNAPSHOT" => IsSnapshot(frames[i])
  BY <1>2, <1>3
<1>10. QED
  BY <1>1, <1>4, <1>5, <1>6, <1>7, <1>8, <1>9 DEF ViewInv

LEMMA MessageKeeps == ASSUME ViewInv, OnMessage PROVE ViewInv'
<1> DEFINE frames == stream.frames
           frame  == Head(frames)
           rest   == Tail(frames)
<1>1. frames \in Seq(ViewFrames) /\ frames # <<>>
  BY DEF OnMessage, ViewInv
<1>2. /\ view' = Folded(frame) /\ rebuilt' = (rebuilt \/ frame.type = "STATE_SNAPSHOT")
      /\ stream' = [open |-> ~(frame.type = "RUN_FINISHED"), frames |-> rest]
      /\ journal' = journal
  BY DEF OnMessage
<1>3. /\ frame = frames[1] /\ rest \in Seq(ViewFrames) /\ Len(frames) \in Nat /\ Len(frames) >= 1
      /\ Len(rest) = Len(frames) - 1 /\ \A i \in 1 .. Len(rest) : rest[i] = frames[i + 1]
  BY <1>1
<1>4. \A seen, k : IsStateAfter(seen, k)' = IsStateAfter(seen, k)
  BY <1>2 DEF IsStateAfter, Places
<1>5. \A fs, p : FollowUp(fs, p)' = FollowUp(fs, p)
  BY <1>2 DEF FollowUp, ToAgui, RunFinished
<1>6. \A f : IsSnapshot(f)' = IsSnapshot(f)
  BY <1>2, <1>4 DEF IsSnapshot
<1>7. stream'.frames = rest /\ stream' \in [open : BOOLEAN, frames : Seq(ViewFrames)]
  BY <1>2, <1>3
<1>8. \A i \in 1 .. Len(frames) : frames[i].type = "STATE_SNAPSHOT" => IsSnapshot(frames[i])
  BY DEF ViewInv
<1>9. PICK p \in 0 .. Len(journal) :
        /\ IsStateAfter(view, p)
        /\ rebuilt \/ FollowUp(frames, p) \/ frames[1].type = "STATE_SNAPSHOT"
  BY DEF ViewInv
<1>10. Len(journal) \in Nat /\ view \in ViewStates /\ rebuilt \in BOOLEAN /\ journal \in Seq(ViewEvents)
  BY DEF ViewInv
<1> HIDE DEF frames, frame, rest
<1>11. \A i \in 1 .. Len(rest) : rest[i].type = "STATE_SNAPSHOT" => IsSnapshot(rest[i])
  <2>1. \A i \in 1 .. Len(rest) : i + 1 \in 1 .. Len(frames)
    BY <1>3
  <2>2. QED
    BY <1>3, <1>8, <2>1
<1>12. /\ view' \in ViewStates
       /\ \E q \in 0 .. Len(journal) : IsStateAfter(view', q) /\ (rebuilt' \/ FollowUp(rest, q))
  <2>1. CASE frame.type = "STATE_SNAPSHOT"
    <3>1. IsSnapshot(frame)
      BY <1>3, <1>8, <2>1
    <3>2. view' = frame.state /\ rebuilt'
      BY <1>2, <2>1 DEF Folded
    <3>3. QED
      BY <3>1, <3>2 DEF IsSnapshot
  <2>2. CASE frame.type # "STATE_SNAPSHOT" /\ rebuilt
    <3>1. view' = view /\ rebuilt'
      BY <1>2, <2>2 DEF Folded
    <3>2. QED
      BY <1>9, <1>10, <3>1
  <2>3. CASE frame.type # "STATE_SNAPSHOT" /\ ~rebuilt
    <3>1. view' = ApplyDelta(view, frame) /\ FollowUp(frames, p)
      BY <1>2, <1>3, <1>9, <2>3 DEF Folded
    <3>2. CASE 1 = Len(frames) /\ frame = RunFinished
      <4>1. view' = view
        BY <3>1, <3>2 DEF RunFinished, ApplyDelta
      <4>2. FollowUp(rest, p)
        <5>1. 1 .. Len(rest) = {}
          <6>1. Len(frames) = 1
            BY <3>2
          <6>2. Len(rest) = 0
            BY <1>3, <6>1
          <6>3. QED
            BY <6>2
        <5>2. QED
          BY <5>1 DEF FollowUp
      <4>3. QED
        BY <1>9, <1>10, <4>1, <4>2
    <3>3. CASE p + 1 <= Len(journal) /\ frame = ToAgui(p + 1)
      <4>1. p + 1 \in 1 .. Len(journal) /\ (p + 1) - 1 = p /\ p + 1 \in 0 .. Len(journal) /\ p \in Nat
        BY <1>10, <3>3
      <4>2. view' \in ViewStates /\ IsStateAfter(view', p + 1)
        BY <1>9, <1>10, <3>1, <3>3, <4>1, DeltaAdvances
      <4>3. FollowUp(rest, p + 1)
        <5> SUFFICES ASSUME NEW i \in 1 .. Len(rest)
                     PROVE  \/ i = Len(rest) /\ rest[i] = RunFinished
                            \/ (p + 1) + i <= Len(journal) /\ rest[i] = ToAgui((p + 1) + i)
          BY DEF FollowUp
        <5>1. i + 1 \in 1 .. Len(frames) /\ p + (i + 1) = (p + 1) + i /\ rest[i] = frames[i + 1]
              /\ (i + 1 = Len(frames) <=> i = Len(rest))
          BY <1>3, <4>1
        <5>2. QED
          BY <3>1, <5>1 DEF FollowUp
      <4>4. QED
        BY <4>1, <4>2, <4>3
    <3>4. 1 \in 1 .. Len(frames)
      BY <1>3
    <3>5. QED
      BY <1>3, <3>1, <3>2, <3>3, <3>4 DEF FollowUp
  <2>4. QED
    BY <1>10, <2>1, <2>2, <2>3
<1>13. rebuilt' \in BOOLEAN
  BY <1>2, <1>10
<1>14. QED
  BY <1>2, <1>4, <1>5, <1>6, <1>7, <1>10, <1>11, <1>12, <1>13 DEF ViewInv

LEMMA ViewStepInv == ViewInv /\ [ViewNext]_liveVars => ViewInv'
<1> SUFFICES ASSUME ViewInv, [ViewNext]_liveVars PROVE ViewInv'
  OBVIOUS
<1>1. CASE RunRecords
  <2>1. PICK event \in ViewEvents : journal' = Append(journal, event)
    BY <1>1 DEF RunRecords, Journalled, ViewEvents
  <2>2. UNCHANGED <<stream, view, rebuilt>>
    BY <1>1 DEF RunRecords
  <2>3. PICK p \in 0 .. Len(journal) :
          /\ IsStateAfter(view, p)
          /\ \/ rebuilt
             \/ FollowUp(stream.frames, p)
             \/ stream.frames # <<>> /\ stream.frames[1].type = "STATE_SNAPSHOT"
    BY DEF ViewInv
  <2>4. Len(journal) \in Nat /\ Len(stream.frames) \in Nat /\ p \in Nat /\ journal \in Seq(ViewEvents)
    BY DEF ViewInv
  <2>5. /\ IsStateAfter(view, p)' /\ p \in 0 .. Len(journal') /\ journal' \in Seq(ViewEvents)
        /\ FollowUp(stream.frames, p) => FollowUp(stream.frames, p)'
        /\ \A frame : IsSnapshot(frame) => IsSnapshot(frame)'
    <3>1. \A seen : IsStateAfter(seen, p) => IsStateAfter(seen, p)'
      BY <2>1, <2>4, RecordingKeeps
    <3>2. IsStateAfter(view, p)'
      BY <2>2, <2>3, <3>1 DEF IsStateAfter
    <3>3. \A frames : Len(frames) \in Nat /\ FollowUp(frames, p) => FollowUp(frames, p)'
      BY <2>1, <2>4, RecordingKeeps
    <3>4. FollowUp(stream.frames, p) => FollowUp(stream.frames, p)'
      BY <2>2, <2>4, <3>3 DEF FollowUp
    <3>5. QED
      BY <2>1, <2>4, <3>2, <3>4, RecordingKeeps
  <2>6. QED
    BY <2>2, <2>3, <2>5 DEF ViewInv
<1>2. CASE RunEnds
  BY <1>2, ViewRests DEF RunEnds
<1>3. CASE Boot
  BY <1>3, ConnectKeeps DEF Boot
<1>4. CASE OnMessage
  BY <1>4, MessageKeeps
<1>5. CASE OnError
  <2>1. CASE done \/ reconnected
    <3>1. stream' = [stream EXCEPT !.open = FALSE] /\ UNCHANGED <<journal, view, rebuilt>>
      BY <1>5, <2>1 DEF OnError
    <3>2. stream'.frames = stream.frames /\ stream' \in [open : BOOLEAN, frames : Seq(ViewFrames)]
      BY <3>1 DEF ViewInv
    <3>3. \A seen, k : IsStateAfter(seen, k)' = IsStateAfter(seen, k)
      BY <3>1 DEF IsStateAfter, Places
    <3>4. \A fs, p : FollowUp(fs, p)' = FollowUp(fs, p)
      BY <3>1 DEF FollowUp, ToAgui, RunFinished
    <3>5. \A f : IsSnapshot(f)' = IsSnapshot(f)
      BY <3>1, <3>3 DEF IsSnapshot
    <3>6. QED
      BY <3>1, <3>2, <3>3, <3>4, <3>5 DEF ViewInv
  <2>2. CASE ~(done \/ reconnected)
    BY <1>5, <2>2, ConnectKeeps DEF OnError
  <2>3. QED
    BY <2>1, <2>2
<1>6. CASE UNCHANGED liveVars
  BY <1>6, ViewRests DEF liveVars
<1>7. QED
  BY <1>1, <1>2, <1>3, <1>4, <1>5, <1>6 DEF ViewNext

-----------------------------------------------------------------------------
(* A turn of the page: the data model's claims.                            *)

Levels == {Confidence(o) : o \in Outcomes}
Claims == [label : STRING, value : STRING \cup {None}, confidence : Levels, sources : SUBSET STRING]

IsByLabel(f, research) ==
  f = [k \in 0 .. Len(research) |-> IF k = 0 THEN <<>> ELSE Put(f[k - 1], research[k])]

IsMerge(f, existing, stated) ==
  f = [k \in 0 .. Len(stated) |->
         IF k = 0 THEN existing
         ELSE IF stated[k].label = None THEN f[k - 1]
         ELSE MergeClaim(f[k - 1], CleanClaim(stated[k]))]

LEMMA ByLabelExists ==
  ASSUME NEW research, Len(research) \in Nat
  PROVE  \E f : IsByLabel(f, research) /\ ByLabel(research) = f[Len(research)]
<1> DEFINE Solves(f, n) == f = [k \in 0 .. n |-> IF k = 0 THEN <<>> ELSE Put(f[k - 1], research[k])]
           S == {n \in Nat : \E f : Solves(f, n)}
<1>1. 0 \in S
  <2>1. Solves([k \in 0 .. 0 |-> <<>>], 0)
    OBVIOUS
  <2>2. QED
    BY <2>1
<1>2. ASSUME NEW n \in S PROVE n + 1 \in S
  <2>1. PICK f : Solves(f, n)
    OBVIOUS
  <2> DEFINE g == [k \in 0 .. n + 1 |-> IF k = 0 THEN <<>> ELSE Put(f[k - 1], research[k])]
  <2>2. \A k \in 0 .. n : g[k] = f[k]
    BY <2>1
  <2>3. \A k \in 0 .. n + 1 : k # 0 => g[k - 1] = f[k - 1]
    <3>1. \A k \in 0 .. n + 1 : k # 0 => k - 1 \in 0 .. n
      OBVIOUS
    <3> HIDE DEF g
    <3>2. QED
      BY <2>2, <3>1
  <2>4. Solves(g, n + 1)
    BY <2>3
  <2> HIDE DEF g, Solves
  <2>5. QED
    BY <2>4
<1> HIDE DEF Solves
<1>3. Len(research) \in S
  BY <1>1, <1>2, Induction
<1> DEFINE f == CHOOSE f : Solves(f, Len(research))
<1>4. Solves(f, Len(research))
  BY <1>3
<1>5. ByLabel(research) = f[Len(research)]
  BY Zenon DEF ByLabel, Solves
<1>6. QED
  BY <1>4, <1>5 DEF IsByLabel, Solves

LEMMA MergeExists ==
  ASSUME NEW existing, NEW stated, Len(stated) \in Nat
  PROVE  \E f : IsMerge(f, existing, stated) /\ Merged(existing, stated) = f[Len(stated)]
<1> DEFINE Solves(f, n) == f = [k \in 0 .. n |->
                                 IF k = 0 THEN existing
                                 ELSE IF stated[k].label = None THEN f[k - 1]
                                 ELSE MergeClaim(f[k - 1], CleanClaim(stated[k]))]
           S == {n \in Nat : \E f : Solves(f, n)}
<1>1. 0 \in S
  <2>1. Solves([k \in 0 .. 0 |-> existing], 0)
    OBVIOUS
  <2>2. QED
    BY <2>1
<1>2. ASSUME NEW n \in S PROVE n + 1 \in S
  <2>1. PICK f : Solves(f, n)
    OBVIOUS
  <2> DEFINE g == [k \in 0 .. n + 1 |-> IF k = 0 THEN existing
                                  ELSE IF stated[k].label = None THEN f[k - 1]
                                  ELSE MergeClaim(f[k - 1], CleanClaim(stated[k]))]
  <2>2. \A k \in 0 .. n : g[k] = f[k]
    BY <2>1
  <2>3. \A k \in 0 .. n + 1 : k # 0 => g[k - 1] = f[k - 1]
    <3>1. \A k \in 0 .. n + 1 : k # 0 => k - 1 \in 0 .. n
      OBVIOUS
    <3> HIDE DEF g
    <3>2. QED
      BY <2>2, <3>1
  <2>4. Solves(g, n + 1)
    BY <2>3
  <2> HIDE DEF g, Solves
  <2>5. QED
    BY <2>4
<1> HIDE DEF Solves
<1>3. Len(stated) \in S
  BY <1>1, <1>2, Induction
<1> DEFINE f == CHOOSE f : Solves(f, Len(stated))
<1>4. Solves(f, Len(stated))
  BY <1>3
<1>5. Merged(existing, stated) = f[Len(stated)]
  BY Zenon DEF Merged, Solves
<1>6. QED
  BY <1>4, <1>5 DEF IsMerge, Solves

(* The claims by label are among those researched, and none is missing.    *)
LEMMA PutClaims ==
  ASSUME NEW claims \in Seq(Claims), NEW c \in Claims
  PROVE  /\ Put(claims, c) \in Seq(Claims)
         /\ \A i \in DOMAIN Put(claims, c) :
              Put(claims, c)[i] = c \/ \E j \in DOMAIN claims : Put(claims, c)[i] = claims[j]
         /\ \E i \in DOMAIN Put(claims, c) : Put(claims, c)[i].label = c.label
         /\ \A j \in DOMAIN claims :
              \E i \in DOMAIN Put(claims, c) : Put(claims, c)[i].label = claims[j].label
<1>1. Len(claims) \in Nat /\ DOMAIN claims = 1 .. Len(claims)
      /\ \A j \in DOMAIN claims : claims[j] \in Claims
  OBVIOUS
<1>2. CASE Position(claims, c.label) = {}
  <2> DEFINE longer == Append(claims, c)
  <2>1. /\ longer \in Seq(Claims) /\ DOMAIN longer = 1 .. (Len(claims) + 1)
        /\ longer[Len(claims) + 1] = c /\ \A i \in 1 .. Len(claims) : longer[i] = claims[i]
    BY <1>1
  <2>2. Put(claims, c) = longer
    BY <1>2 DEF Put
  <2> HIDE DEF longer
  <2>3. \A i \in 1 .. (Len(claims) + 1) : i = Len(claims) + 1 \/ i \in 1 .. Len(claims)
    BY <1>1
  <2>4. Len(claims) + 1 \in 1 .. (Len(claims) + 1) /\ 1 .. Len(claims) \subseteq 1 .. (Len(claims) + 1)
    BY <1>1
  <2>5. QED
    BY <1>1, <2>1, <2>2, <2>3, <2>4
<1>3. CASE Position(claims, c.label) # {}
  <2> DEFINE new == [i \in DOMAIN claims |-> IF i \in Position(claims, c.label) THEN c ELSE claims[i]]
  <2>1. Put(claims, c) = new
    BY <1>3 DEF Put
  <2>2. DOMAIN new = DOMAIN claims
        /\ \A i \in DOMAIN claims : new[i] = IF i \in Position(claims, c.label) THEN c ELSE claims[i]
    OBVIOUS
  <2>3. new \in Seq(Claims)
    <3>1. \A i \in 1 .. Len(claims) : (IF i \in Position(claims, c.label) THEN c ELSE claims[i]) \in Claims
      BY <1>1
    <3>2. new = [i \in 1 .. Len(claims) |-> IF i \in Position(claims, c.label) THEN c ELSE claims[i]]
      BY <1>1
    <3>3. QED
      BY <1>1, <3>1, <3>2
  <2> HIDE DEF new
  <2>4. \A i \in Position(claims, c.label) : i \in DOMAIN claims /\ claims[i].label = c.label
    BY DEF Position
  <2>5. \A j \in DOMAIN claims : new[j].label = claims[j].label
    BY <2>2, <2>4
  <2>6. QED
    BY <1>3, <2>1, <2>2, <2>3, <2>4, <2>5
<1>4. QED
  BY <1>2, <1>3

(* The claims of a dictionary are among those put there, and each label is *)
(* one's there.                                                            *)
LEMMA ByLabelKeeps ==
  ASSUME NEW research \in Seq(Claims)
  PROVE  /\ ByLabel(research) \in Seq(Claims)
         /\ \A i \in DOMAIN ByLabel(research) :
              \E j \in DOMAIN research : ByLabel(research)[i] = research[j]
         /\ \A j \in DOMAIN research :
              \E i \in DOMAIN ByLabel(research) : ByLabel(research)[i].label = research[j].label
<1>1. Len(research) \in Nat /\ DOMAIN research = 1 .. Len(research)
      /\ \A j \in DOMAIN research : research[j] \in Claims
  OBVIOUS
<1>2. PICK f : IsByLabel(f, research) /\ ByLabel(research) = f[Len(research)]
  BY <1>1, ByLabelExists
<1>3. f[0] = <<>> /\ \A k \in 1 .. Len(research) : f[k] = Put(f[k - 1], research[k])
  <2>1. \A k \in 0 .. Len(research) : f[k] = IF k = 0 THEN <<>> ELSE Put(f[k - 1], research[k])
    BY <1>2 DEF IsByLabel
  <2>2. QED
    BY <1>1, <2>1
<1> DEFINE Good(k) ==
      /\ f[k] \in Seq(Claims)
      /\ \A i \in DOMAIN f[k] : \E j \in DOMAIN research : f[k][i] = research[j]
      /\ \A j \in 1 .. k : \E i \in DOMAIN f[k] : f[k][i].label = research[j].label
           S == {k \in Nat : k <= Len(research) => Good(k)}
<1>4. 0 \in S
  <2>1. f[0] \in Seq(Claims) /\ DOMAIN f[0] = {} /\ 1 .. 0 = {}
    BY <1>3
  <2>2. QED
    BY <2>1
<1>5. ASSUME NEW k \in S PROVE k + 1 \in S
  <2>1. SUFFICES ASSUME k + 1 <= Len(research) PROVE Good(k + 1)
    OBVIOUS
  <2>2. k \in Nat /\ k + 1 \in 1 .. Len(research) /\ (k + 1) - 1 = k /\ k <= Len(research)
    BY <1>1, <2>1
  <2>3. Good(k)
    BY <2>2
  <2> DEFINE c == research[k + 1]
             old == f[k]
             new == f[k + 1]
  <2>4. c \in Claims /\ old \in Seq(Claims) /\ new = Put(old, c)
    BY <1>1, <1>3, <2>2, <2>3
  <2>5. /\ \A i \in DOMAIN old : \E j \in DOMAIN research : old[i] = research[j]
        /\ \A j \in 1 .. k : \E i \in DOMAIN old : old[i].label = research[j].label
        /\ c = research[k + 1]
    BY <2>3
  <2> HIDE DEF c, old, new
  <2>6. /\ new \in Seq(Claims)
        /\ \A i \in DOMAIN new : new[i] = c \/ \E j \in DOMAIN old : new[i] = old[j]
        /\ \E i \in DOMAIN new : new[i].label = c.label
        /\ \A j \in DOMAIN old : \E i \in DOMAIN new : new[i].label = old[j].label
    BY <2>4, PutClaims
  <2>7. \A i \in DOMAIN new : \E j \in DOMAIN research : new[i] = research[j]
    BY <1>1, <2>2, <2>5, <2>6
  <2>8. ASSUME NEW j \in 1 .. k + 1 PROVE \E i \in DOMAIN new : new[i].label = research[j].label
    <3>1. j \in 1 .. k \/ j = k + 1
      BY <2>2
    <3>2. QED
      BY <2>5, <2>6, <3>1
  <2>9. QED
    BY <2>6, <2>7, <2>8 DEF new
<1> HIDE DEF Good
<1>6. Good(Len(research))
  <2>1. \A k \in Nat : k \in S => k + 1 \in S
    BY <1>5
  <2> HIDE DEF S
  <2>2. Len(research) \in S
    BY <1>1, <1>4, <2>1, Induction
  <2>3. QED
    BY <1>1, <2>2 DEF S
<1>7. QED
  BY <1>1, <1>2, <1>6 DEF Good

(* What MergeClaim makes of a claim: the claim, perhaps with the value     *)
(* that was stated for its label, or, for a new label, what was stated.    *)
LEMMA MergedClaims ==
  ASSUME NEW claims \in Seq(Claims), NEW c \in Claims
  PROVE  LET new == MergeClaim(claims, c) IN
         /\ new \in Seq(Claims)
         /\ \A i \in DOMAIN new :
              \/ new[i] = c /\ \A j \in DOMAIN claims : claims[j].label # c.label
              \/ i \in DOMAIN claims /\ new[i] = claims[i]
              \/ /\ i \in DOMAIN claims /\ claims[i].label = c.label
                 /\ new[i] = [claims[i] EXCEPT !.value = c.value]
         /\ \A j \in DOMAIN claims : j \in DOMAIN new /\ new[j].label = claims[j].label
<1>1. Len(claims) \in Nat /\ DOMAIN claims = 1 .. Len(claims)
      /\ \A j \in DOMAIN claims : claims[j] \in Claims
  OBVIOUS
<1>2. CASE Position(claims, c.label) = {}
  <2> DEFINE longer == Append(claims, c)
  <2>1. /\ longer \in Seq(Claims) /\ DOMAIN longer = 1 .. (Len(claims) + 1)
        /\ longer[Len(claims) + 1] = c /\ \A i \in 1 .. Len(claims) : longer[i] = claims[i]
    BY <1>1
  <2>2. MergeClaim(claims, c) = longer
    BY <1>2 DEF MergeClaim
  <2> HIDE DEF longer
  <2>3. \A i \in 1 .. (Len(claims) + 1) : i = Len(claims) + 1 \/ i \in 1 .. Len(claims)
    BY <1>1
  <2>4. 1 .. Len(claims) \subseteq 1 .. (Len(claims) + 1)
    BY <1>1
  <2>5. \A j \in DOMAIN claims : claims[j].label # c.label
    BY <1>2 DEF Position
  <2>6. QED
    BY <1>1, <2>1, <2>2, <2>3, <2>4, <2>5
<1>3. CASE Position(claims, c.label) # {}
  <2> DEFINE Claim(i) == IF i \in Position(claims, c.label) /\ c.value # None
                         THEN [claims[i] EXCEPT !.value = c.value] ELSE claims[i]
             new == [i \in DOMAIN claims |-> Claim(i)]
  <2>1. MergeClaim(claims, c) = new
    BY <1>3 DEF MergeClaim
  <2>2. DOMAIN new = DOMAIN claims /\ \A i \in DOMAIN claims : new[i] = Claim(i)
    OBVIOUS
  <2>3. ASSUME NEW i \in DOMAIN claims
        PROVE  /\ Claim(i) \in Claims /\ Claim(i).label = claims[i].label
               /\ \/ Claim(i) = claims[i]
                  \/ claims[i].label = c.label /\ Claim(i) = [claims[i] EXCEPT !.value = c.value]
    <3>1. claims[i] \in Claims
      BY <1>1
    <3>2. [claims[i] EXCEPT !.value = c.value] \in Claims
          /\ [claims[i] EXCEPT !.value = c.value].label = claims[i].label
      BY <3>1 DEF Claims
    <3>3. i \in Position(claims, c.label) => claims[i].label = c.label
      BY DEF Position
    <3>4. QED
      BY <3>1, <3>2, <3>3
  <2> HIDE DEF Claim
  <2>4. new \in Seq(Claims)
    <3>1. new = [i \in 1 .. Len(claims) |-> Claim(i)] /\ \A i \in 1 .. Len(claims) : Claim(i) \in Claims
      BY <1>1, <2>3
    <3>2. QED
      BY <1>1, <3>1
  <2> HIDE DEF new
  <2>5. QED
    BY <2>1, <2>2, <2>3, <2>4
<1>4. QED
  BY <1>2, <1>3

(* What ConfidenceIsEarned says of a claim, beside the evidence e.         *)
BackedBy(c, o) == c.sources = o.hosts /\ c.confidence = Confidence(o)

ResearchedIn(e, label) == {i \in DOMAIN e.outcomes : e.outcomes[i].subject = label}

Earned(e, c) ==
  /\ ResearchedIn(e, c.label) # {} => \E j \in ResearchedIn(e, c.label) : BackedBy(c, e.outcomes[j])
  /\ ResearchedIn(e, c.label) = {} =>
       \E j \in DOMAIN e.claims :
         /\ e.claims[j].label = c.label
         /\ BackedBy(c, Outcome(c.label, FALSE, FALSE, e.claims[j].hosts))
  /\ c.value # None =>
       \E j \in DOMAIN e.claims : e.claims[j].label = c.label /\ e.claims[j].value = c.value

LEMMA ResearchIsEarned ==
  ASSUME NEW e, e.outcomes \in Seq(Outcomes)
  PROVE  LET research == ResearchClaims(e.outcomes) IN
         /\ research \in Seq(Claims) /\ DOMAIN research = DOMAIN e.outcomes
         /\ \A i \in DOMAIN e.outcomes : research[i].label = e.outcomes[i].subject /\ Earned(e, research[i])
<1> DEFINE outs == e.outcomes
           research == ResearchClaims(outs)
<1>1. outs \in Seq(Outcomes) /\ Len(outs) \in Nat /\ DOMAIN outs = 1 .. Len(outs)
      /\ \A i \in DOMAIN outs : outs[i] \in Outcomes
  OBVIOUS
<1>2. research = [i \in DOMAIN outs |-> [label |-> outs[i].subject, value |-> None,
                     confidence |-> Confidence(outs[i]), sources |-> outs[i].hosts]]
  BY DEF ResearchClaims
<1>3. \A i \in DOMAIN outs :
        /\ research[i].label = outs[i].subject /\ research[i].value = None
        /\ BackedBy(research[i], outs[i])
  BY <1>2 DEF BackedBy
<1>4. \A i \in DOMAIN outs :
        [label |-> outs[i].subject, value |-> None,
         confidence |-> Confidence(outs[i]), sources |-> outs[i].hosts] \in Claims
  <2>1. \A i \in DOMAIN outs : Confidence(outs[i]) \in Levels
    BY <1>1 DEF Levels
  <2>2. \A i \in DOMAIN outs : outs[i].subject \in STRING /\ outs[i].hosts \in SUBSET STRING
    BY <1>1 DEF Outcomes
  <2>3. QED
    BY <2>1, <2>2 DEF Claims
<1>5. research \in Seq(Claims) /\ DOMAIN research = DOMAIN outs
  BY <1>1, <1>2, <1>4
<1> HIDE DEF research
<1>6. ASSUME NEW i \in DOMAIN outs PROVE Earned(e, research[i])
  <2>1. i \in ResearchedIn(e, research[i].label)
    BY <1>3 DEF ResearchedIn
  <2>2. QED
    BY <1>3, <2>1 DEF Earned
<1>7. QED
  BY <1>3, <1>5, <1>6 DEF research

LEMMA CleanIsStated ==
  ASSUME NEW s \in Statements
  PROVE  /\ CleanClaim(s) \in Claims
         /\ CleanClaim(s).label = s.label /\ CleanClaim(s).value = s.value
         /\ BackedBy(CleanClaim(s), Outcome(s.label, FALSE, FALSE, s.hosts))
<1>1. Outcome(s.label, FALSE, FALSE, s.hosts) \in Outcomes
      /\ Outcome(s.label, FALSE, FALSE, s.hosts).hosts = s.hosts
  BY DEF Statements, Outcome, Outcomes
<1>2. CleanClaim(s) = [label |-> s.label, value |-> s.value, sources |-> s.hosts,
                       confidence |-> Confidence(Outcome(s.label, FALSE, FALSE, s.hosts))]
  BY DEF CleanClaim
<1>3. Confidence(Outcome(s.label, FALSE, FALSE, s.hosts)) \in Levels
  BY <1>1 DEF Levels
<1>4. s.label \in STRING /\ s.value \in STRING /\ s.hosts \in SUBSET STRING
  BY DEF Statements
<1>5. CleanClaim(s) \in Claims
  <2> DEFINE level == Confidence(Outcome(s.label, FALSE, FALSE, s.hosts))
             claim == [label |-> s.label, value |-> s.value, sources |-> s.hosts, confidence |-> level]
  <2>1. level \in Levels /\ CleanClaim(s) = claim
    BY <1>2, <1>3
  <2> HIDE DEF level
  <2>2. claim \in Claims
    BY <1>4, <2>1 DEF Claims
  <2>3. QED
    BY <2>1, <2>2
<1>6. /\ CleanClaim(s).label = s.label /\ CleanClaim(s).value = s.value
      /\ CleanClaim(s).sources = s.hosts
      /\ CleanClaim(s).confidence = Confidence(Outcome(s.label, FALSE, FALSE, s.hosts))
  BY <1>2
<1>7. QED
  BY <1>1, <1>5, <1>6 DEF BackedBy

LEMMA MergeIsEarned ==
  ASSUME NEW e, e.outcomes \in Seq(Outcomes), e.claims \in Seq(Statements)
  PROVE  LET merged == Merged(ByLabel(ResearchClaims(e.outcomes)), e.claims) IN
         merged \in Seq(Claims) /\ \A i \in DOMAIN merged : Earned(e, merged[i])
<1> DEFINE research == ResearchClaims(e.outcomes)
           existing == ByLabel(research)
           stated   == e.claims
<1>1. /\ research \in Seq(Claims) /\ DOMAIN research = DOMAIN e.outcomes
      /\ \A i \in DOMAIN e.outcomes : research[i].label = e.outcomes[i].subject /\ Earned(e, research[i])
  BY ResearchIsEarned
<1> HIDE DEF research
<1>2. /\ existing \in Seq(Claims)
      /\ \A i \in DOMAIN existing : \E j \in DOMAIN research : existing[i] = research[j]
      /\ \A j \in DOMAIN research : \E i \in DOMAIN existing : existing[i].label = research[j].label
  BY <1>1, ByLabelKeeps
<1> HIDE DEF existing
<1>3. /\ Len(stated) \in Nat /\ DOMAIN stated = 1 .. Len(stated)
      /\ \A j \in DOMAIN stated : stated[j] \in Statements
  OBVIOUS
<1>4. PICK f : IsMerge(f, existing, stated) /\ Merged(existing, stated) = f[Len(stated)]
  BY <1>3, MergeExists
<1>5. /\ f[0] = existing
      /\ \A k \in 1 .. Len(stated) :
           f[k] = IF stated[k].label = None THEN f[k - 1] ELSE MergeClaim(f[k - 1], CleanClaim(stated[k]))
  <2>1. \A k \in 0 .. Len(stated) :
          f[k] = IF k = 0 THEN existing
                 ELSE IF stated[k].label = None THEN f[k - 1]
                 ELSE MergeClaim(f[k - 1], CleanClaim(stated[k]))
    BY <1>4 DEF IsMerge
  <2>2. QED
    BY <1>3, <2>1
<1> DEFINE Good(x) ==
      /\ x \in Seq(Claims)
      /\ \A i \in DOMAIN x : Earned(e, x[i])
      /\ \A j \in DOMAIN e.outcomes : \E i \in DOMAIN x : x[i].label = e.outcomes[j].subject
           S == {k \in Nat : k <= Len(stated) => Good(f[k])}
<1>6. Good(existing)
  BY <1>1, <1>2
<1>7. ASSUME NEW x, Good(x), NEW k \in 1 .. Len(stated)
      PROVE  Good(MergeClaim(x, CleanClaim(stated[k])))
  <2> DEFINE c == CleanClaim(stated[k])
             new == MergeClaim(x, c)
  <2>1. /\ c \in Claims /\ c.label = stated[k].label /\ c.value = stated[k].value
        /\ BackedBy(c, Outcome(c.label, FALSE, FALSE, stated[k].hosts)) /\ k \in DOMAIN stated
    BY <1>3, CleanIsStated
  <2>2. /\ x \in Seq(Claims) /\ \A i \in DOMAIN x : Earned(e, x[i]) /\ x[i] \in Claims
        /\ \A j \in DOMAIN e.outcomes : \E i \in DOMAIN x : x[i].label = e.outcomes[j].subject
    BY <1>7
  <2> HIDE DEF c, Good
  <2>3. /\ new \in Seq(Claims)
        /\ \A i \in DOMAIN new :
             \/ new[i] = c /\ \A j \in DOMAIN x : x[j].label # c.label
             \/ i \in DOMAIN x /\ new[i] = x[i]
             \/ i \in DOMAIN x /\ x[i].label = c.label /\ new[i] = [x[i] EXCEPT !.value = c.value]
        /\ \A j \in DOMAIN x : j \in DOMAIN new /\ new[j].label = x[j].label
    BY <2>1, <2>2, MergedClaims
  <2> HIDE DEF new
  <2>4. ASSUME NEW i \in DOMAIN new PROVE Earned(e, new[i])
    <3>1. CASE new[i] = c /\ \A j \in DOMAIN x : x[j].label # c.label
      <4>1. ResearchedIn(e, c.label) = {}
        BY <2>2, <3>1 DEF ResearchedIn
      <4>2. QED
        BY <2>1, <3>1, <4>1 DEF Earned
    <3>2. CASE i \in DOMAIN x /\ new[i] = x[i]
      BY <2>2, <3>2
    <3>3. CASE i \in DOMAIN x /\ x[i].label = c.label /\ new[i] = [x[i] EXCEPT !.value = c.value]
      <4>1. /\ new[i].label = x[i].label /\ new[i].sources = x[i].sources
            /\ new[i].confidence = x[i].confidence /\ new[i].value = c.value
        BY <2>2, <3>3 DEF Claims
      <4>2. Earned(e, x[i])
        BY <2>2, <3>3
      <4>3. QED
        BY <2>1, <3>3, <4>1, <4>2 DEF Earned, BackedBy
    <3>4. QED
      BY <2>3, <3>1, <3>2, <3>3
  <2>5. \A j \in DOMAIN e.outcomes : \E i \in DOMAIN new : new[i].label = e.outcomes[j].subject
    BY <2>2, <2>3
  <2>6. QED
    BY <2>3, <2>4, <2>5 DEF Good, new, c
<1> HIDE DEF Good
<1>8. 0 \in S
  BY <1>5, <1>6
<1>9. ASSUME NEW k \in S PROVE k + 1 \in S
  <2>1. SUFFICES ASSUME k + 1 <= Len(stated) PROVE Good(f[k + 1])
    OBVIOUS
  <2>2. k + 1 \in 1 .. Len(stated) /\ (k + 1) - 1 = k /\ Good(f[k])
    BY <1>3, <2>1
  <2>3. f[k + 1] = IF stated[k + 1].label = None THEN f[k]
                   ELSE MergeClaim(f[k], CleanClaim(stated[k + 1]))
    BY <1>5, <2>2
  <2>4. QED
    BY <1>7, <2>2, <2>3
<1>10. Good(Merged(existing, stated))
  <2>1. \A k \in Nat : k \in S => k + 1 \in S
    BY <1>9
  <2> HIDE DEF S
  <2>2. Len(stated) \in S
    BY <1>3, <1>8, <2>1, Induction
  <2>3. QED
    BY <1>3, <1>4, <2>2 DEF S
<1>11. QED
  BY <1>10 DEF Good, existing, research

LEMMA DataIsEarned ==
  ASSUME NEW e, e.outcomes \in Seq(Outcomes), e.claims \in Seq(Statements)
  PROVE  \A i \in DOMAIN DataModel(e).claims : Earned(e, DataModel(e).claims[i])
<1> DEFINE research == ResearchClaims(e.outcomes)
           merged   == Merged(ByLabel(research), e.claims)
           merges   == \E c \in ToSet(e.claims) : c.label # None
<1>1. DataModel(e).claims = IF merges THEN merged ELSE research
  BY DEF DataModel
<1>2. \A i \in DOMAIN research : Earned(e, research[i])
  BY ResearchIsEarned
<1>3. \A i \in DOMAIN merged : Earned(e, merged[i])
  BY MergeIsEarned
<1> HIDE DEF research, merged, merges
<1>4. QED
  BY <1>1, <1>2, <1>3

(* The surface and the evidence it was made from change together.          *)
TurnInv == \A i \in DOMAIN composed.data.claims : Earned(found, composed.data.claims[i])

LEMMA NothingIsEarned == \A i \in DOMAIN NoSurface.data.claims : FALSE
<1>1. NoSurface.data = DataModel(NoEvidence) /\ NoEvidence.outcomes = <<>> /\ NoEvidence.claims = <<>>
  BY DEF NoSurface, NoEvidence
<1>2. ToSet(<<>>) = {} /\ DOMAIN ResearchClaims(<<>>) = {}
  BY DEF ToSet, ResearchClaims
<1>3. DataModel(NoEvidence).claims = ResearchClaims(<<>>)
  BY <1>1, <1>2 DEF DataModel
<1>4. QED
  BY <1>1, <1>2, <1>3

LEMMA TurnInitInv == TurnInit => TurnInv
BY NothingIsEarned DEF TurnInit, TurnInv

LEMMA TurnStepInv == TurnInv /\ [TurnNext]_turnVars => TurnInv'
<1> SUFFICES ASSUME TurnInv, [TurnNext]_turnVars PROVE TurnInv'
  OBVIOUS
<1>1. CASE composed' = NoSurface
  BY <1>1, NothingIsEarned DEF TurnInv
<1>2. CASE UNCHANGED <<composed, found>>
  BY <1>2 DEF TurnInv
<1>3. CASE RunComposed
  <2>1. PICK e \in RunResults, p \in Proposals :
          found' = e /\ (composed' = NoSurface \/ composed' = ComposeSurface(e, p))
    BY <1>3 DEF RunComposed
  <2>2. CASE composed' = ComposeSurface(e, p)
    <3>1. composed'.data = DataModel(e)
      BY <2>2 DEF ComposeSurface
    <3>2. e.outcomes \in Seq(Outcomes) /\ e.claims \in Seq(Statements)
      BY ComposedTurnAssumption
    <3>3. QED
      BY <2>1, <3>1, <3>2, DataIsEarned DEF TurnInv
  <2>3. QED
    BY <1>1, <2>1, <2>2
<1>4. QED
  BY <1>1, <1>2, <1>3 DEF TurnNext, turnVars, RunTurn, RunFailed, Paint, PaintRaises, Retry

LEMMA TurnInvIsEnough == TurnInv => ConfidenceIsEarned
<1>1. \A label : Researched(label) = ResearchedIn(found, label)
  BY DEF Researched, ResearchedIn
<1>2. QED
  BY <1>1 DEF TurnInv, Earned, BackedBy, ConfidenceIsEarned

-----------------------------------------------------------------------------
(* A turn of the page: what is drawn of it.                                *)

(* A set written out as a sequence is all there.                           *)
LEMMA SetToSeqHasAll ==
  ASSUME NEW S, IsFiniteSet(S)
  PROVE  /\ SetToSeq(S) \in Seq(S)
         /\ \A x \in S : \E i \in DOMAIN SetToSeq(S) : SetToSeq(S)[i] = x
<1> DEFINE n == Cardinality(S)
<1>1. n \in Nat /\ ExistsBijection(1 .. n, S)
  BY FS_CardinalityType
<1>2. PICK g \in [1 .. n -> S] : \A a, b \in 1 .. n : g[a] = g[b] => a = b
  BY <1>1 DEF ExistsBijection, Bijection, Injection, IsInjective
<1>3. IsInjective(g)
  BY <1>2 DEF IsInjective
<1>4. SetToSeq(S) \in [1 .. n -> S] /\ IsInjective(SetToSeq(S))
  BY <1>2, <1>3, Zenon DEF SetToSeq
<1> DEFINE f == SetToSeq(S)
<1> HIDE DEF f
<1>5. f \in Injection(1 .. n, S)
  BY <1>4 DEF Injection, IsInjective, f
<1>6. Cardinality(1 .. n) = n
  BY <1>1, FS_Interval
<1> HIDE DEF n
<1>7. f \in Surjection(1 .. n, S)
  BY <1>1, <1>5, <1>6, FS_Injection DEF n
<1>8. /\ \A x \in S : \E i \in DOMAIN f : f[i] = x
      /\ f \in Seq(S)
  BY <1>1, <1>7 DEF Surjection
<1>9. QED
  BY <1>8 DEF f

(* Finite sets stay so under a map.                                        *)
LEMMA ImageIsFinite ==
  ASSUME NEW S, IsFiniteSet(S), NEW f, DOMAIN f = S
  PROVE  IsFiniteSet({f[x] : x \in S})
<1> DEFINE T == {f[x] : x \in S}
           g == [x \in S |-> f[x]]
<1>1. g \in Surjection(S, T)
  BY DEF Surjection
<1> HIDE DEF g, T
<1>2. IsFiniteSet(T)
  BY <1>1, FS_Surjection
<1>3. QED
  BY <1>2 DEF T

LEMMA TwoAreTwo ==
  ASSUME NEW S, IsFiniteSet(S), NEW x \in S, NEW y \in S, x # y
  PROVE  Cardinality(S) >= 2
<1>1. IsFiniteSet({x}) /\ Cardinality({x}) = 1
  BY FS_Singleton
<1> DEFINE X == {x}
<1>2. IsFiniteSet(X \cup {y}) /\ Cardinality(X \cup {y}) = 2
  <2>1. y \notin X
    OBVIOUS
  <2> HIDE DEF X
  <2>2. IsFiniteSet(X) /\ Cardinality(X) = 1
    BY <1>1 DEF X
  <2>3. IsFiniteSet(X \cup {y}) /\ Cardinality(X \cup {y}) = Cardinality(X) + 1
    BY <2>1, <2>2, FS_AddElement
  <2>4. QED
    BY <2>2, <2>3
<1>3. X \cup {y} \in SUBSET S
  OBVIOUS
<1>4. QED
  BY <1>2, <1>3, FS_Subset, FS_CardinalityType

(* What is drawn below where the drawing starts.                           *)
IsReach(f, components, start, deepest) ==
  f = [n \in 0 .. deepest |->
         IF n = 0 THEN start
         ELSE f[n - 1] \cup UNION {DrawnChildren(components, c) : c \in f[n - 1]}]

LEMMA ReachExists ==
  ASSUME NEW components, NEW start, Cardinality(Parents(components)) \in Nat
  PROVE  \E f : LET deepest == Cardinality(Parents(components)) IN
           IsReach(f, components, start, deepest) /\ Below(components, start) = f[deepest]
<1> DEFINE Next1(X) == X \cup UNION {DrawnChildren(components, c) : c \in X}
           Solves(f, n) == f = [k \in 0 .. n |-> IF k = 0 THEN start ELSE Next1(f[k - 1])]
           S == {n \in Nat : \E f : Solves(f, n)}
           deepest == Cardinality(Parents(components))
<1> HIDE DEF Next1
<1>1. 0 \in S
  <2>1. Solves([k \in 0 .. 0 |-> start], 0)
    OBVIOUS
  <2>2. QED
    BY <2>1
<1>2. ASSUME NEW n \in S PROVE n + 1 \in S
  <2>1. PICK f : Solves(f, n)
    OBVIOUS
  <2> DEFINE g == [k \in 0 .. n + 1 |-> IF k = 0 THEN start ELSE Next1(f[k - 1])]
  <2>2. \A k \in 0 .. n : g[k] = f[k]
    BY <2>1
  <2>3. \A k \in 0 .. n + 1 : k # 0 => g[k - 1] = f[k - 1]
    <3>1. \A k \in 0 .. n + 1 : k # 0 => k - 1 \in 0 .. n
      OBVIOUS
    <3> HIDE DEF g
    <3>2. QED
      BY <2>2, <3>1
  <2>4. Solves(g, n + 1)
    BY <2>3
  <2> HIDE DEF g, Solves
  <2>5. QED
    BY <2>4
<1> HIDE DEF Solves
<1>3. deepest \in S
  <2> HIDE DEF S
  <2>1. Nat \subseteq S
    BY <1>1, <1>2, Induction DEF S
  <2>2. QED
    BY <2>1
<1> DEFINE f == CHOOSE f : Solves(f, deepest)
<1>4. Solves(f, deepest)
  BY <1>3
<1>5. Below(components, start) = f[deepest]
  BY Zenon DEF Below, Solves, Next1
<1>6. QED
  BY <1>4, <1>5 DEF IsReach, Solves, Next1

(* It has the start, and, with as many parents as generations, the         *)
(* children and the grandchildren.                                         *)
LEMMA BelowHas ==
  ASSUME NEW components, NEW start, Cardinality(Parents(components)) \in Nat, NEW c \in start
  PROVE  LET deepest == Cardinality(Parents(components)) IN
         /\ c \in Below(components, start)
         /\ deepest >= 1 => DrawnChildren(components, c) \subseteq Below(components, start)
         /\ deepest >= 2 => \A d \in DrawnChildren(components, c) :
              DrawnChildren(components, d) \subseteq Below(components, start)
<1> DEFINE deepest == Cardinality(Parents(components))
<1>1. PICK f : IsReach(f, components, start, deepest) /\ Below(components, start) = f[deepest]
  BY ReachExists
<1>2. f[0] = start
  BY <1>1 DEF IsReach
<1>3. \A n \in 1 .. deepest :
        f[n] = f[n - 1] \cup UNION {DrawnChildren(components, d) : d \in f[n - 1]}
  BY <1>1 DEF IsReach
<1> DEFINE S == {k \in Nat : \A j \in 0 .. deepest : j + k <= deepest => f[j] \subseteq f[j + k]}
<1> HIDE DEF deepest
<1>4. 0 \in S
  BY DEF deepest
<1>5. ASSUME NEW k \in Nat, k \in S PROVE k + 1 \in S
  <2>1. SUFFICES ASSUME NEW j \in 0 .. deepest, j + (k + 1) <= deepest
                 PROVE  f[j] \subseteq f[j + (k + 1)]
    BY DEF S
  <2>2. f[j] \subseteq f[j + k]
    BY <1>5, <2>1 DEF deepest
  <2>3. j + (k + 1) \in 1 .. deepest /\ (j + (k + 1)) - 1 = j + k
    BY <2>1 DEF deepest
  <2>4. f[j + k] \subseteq f[j + (k + 1)]
    BY <1>3, <2>3
  <2>5. QED
    BY <2>2, <2>4
<1>6. Nat \subseteq S
  <2> HIDE DEF S
  <2>1. QED
    BY <1>4, <1>5, Induction
<1>7. \A j \in 0 .. deepest : f[j] \subseteq f[deepest]
  <2>1. ASSUME NEW j \in 0 .. deepest PROVE f[j] \subseteq f[deepest]
    <3>1. deepest - j \in Nat /\ j + (deepest - j) = deepest
      BY <2>1 DEF deepest
    <3>2. QED
      BY <1>6, <3>1
  <2>2. QED
    BY <2>1
<1>8. c \in f[deepest]
  <2>1. 0 \in 0 .. deepest
    BY DEF deepest
  <2>2. QED
    BY <1>2, <1>7, <2>1
<1>9. ASSUME deepest >= 1
      PROVE  DrawnChildren(components, c) \subseteq f[1] /\ f[1] \subseteq f[deepest]
  <2>1. 1 \in 1 .. deepest /\ 1 \in 0 .. deepest /\ 1 - 1 = 0
    BY <1>9 DEF deepest
  <2>2. QED
    BY <1>2, <1>3, <1>7, <2>1
<1>10. ASSUME deepest >= 2, NEW d \in DrawnChildren(components, c)
       PROVE  DrawnChildren(components, d) \subseteq f[deepest]
  <2>1. 2 \in 1 .. deepest /\ 2 \in 0 .. deepest /\ 2 - 1 = 1 /\ deepest >= 1
    BY <1>10 DEF deepest
  <2>2. d \in f[1]
    BY <1>9, <2>1
  <2>3. DrawnChildren(components, d) \subseteq f[2]
    BY <1>3, <2>1, <2>2
  <2>4. QED
    BY <1>7, <2>1, <2>3
<1>11. QED
  BY <1>1, <1>8, <1>9, <1>10 DEF deepest

(* Where the root draws its children, what hangs from it is drawn, and     *)
(* what hangs from a row of it.                                            *)
LEMMA HungIsDrawn ==
  ASSUME NEW components, IsFiniteSet(components), NEW root, NEW row \in components, row.id # root,
         \A c \in ById(components, root) :
           /\ c.type \in Containers \ {"Tabs"}
           /\ \E i \in DOMAIN c.children : c.children[i] = row.id
  PROVE  /\ row.id \in Drawn(components, root)
         /\ row.type = "Row" =>
              \A kid \in components :
                (\E i \in DOMAIN row.children : row.children[i] = kid.id) => kid.id \in Drawn(components, root)
<1> DEFINE start == Start(components, root)
           deepest == Cardinality(Parents(components))
<1>1. IsFiniteSet(Parents(components)) /\ deepest \in Nat
  <2>1. Parents(components) \in SUBSET components
    BY DEF Parents
  <2>2. IsFiniteSet(Parents(components))
    BY <2>1, FS_Subset
  <2>3. QED
    BY <2>2, FS_CardinalityType
<1>2. CASE ById(components, root) = {}
  <2>1. start = components
    BY <1>2 DEF Start
  <2>2. \A c \in components : c \in Below(components, start)
    BY <1>1, <2>1, BelowHas
  <2>3. QED
    BY <2>1, <2>2 DEF Drawn
<1>3. CASE ById(components, root) # {}
  <2>1. PICK top \in ById(components, root) : TRUE
    BY <1>3
  <2>2. /\ top \in components /\ top.id = root /\ top # row
        /\ top.type \in Containers \ {"Tabs"}
        /\ \E i \in DOMAIN top.children : top.children[i] = row.id
    BY <2>1 DEF ById
  <2>3. row \in DrawnChildren(components, top)
    BY <2>2 DEF DrawnChildren
  <2>4. start = ById(components, root)
    BY <1>3, <2>1, <2>3 DEF Start, HasContent
  <2>5. top \in Parents(components)
    BY <2>2 DEF Parents
  <2>6. deepest >= 1
    BY <1>1, <2>5, FS_EmptySet
  <2>7. row \in Below(components, start)
    BY <1>1, <2>1, <2>3, <2>4, <2>6, BelowHas
  <2>8. ASSUME row.type = "Row", NEW kid \in components,
               \E i \in DOMAIN row.children : row.children[i] = kid.id
        PROVE  kid \in Below(components, start)
    <3>1. row \in Parents(components)
      BY <2>8 DEF Parents
    <3>2. deepest >= 2
      BY <1>1, <2>2, <2>5, <3>1, TwoAreTwo
    <3>3. kid \in DrawnChildren(components, row)
      BY <2>8 DEF DrawnChildren, Containers
    <3>4. QED
      BY <1>1, <2>1, <2>3, <2>4, <3>2, <3>3, BelowHas
  <2>9. QED
    BY <2>7, <2>8 DEF Drawn
<1>4. QED
  BY <1>2, <1>3

-----------------------------------------------------------------------------
(* The wall, twice: what passed it passes again.                           *)

CatalogSorts == {"enum", "text", "binding", "number", "bindable", "action", "bool", "type_ref"}

LEMMA CatalogKinds == \A type \in DOMAIN Catalog : Catalog[type] \subseteq CatalogSorts
BY DEF Catalog, CatalogSorts

LEMMA AllowedAlways == \A sort \in CatalogSorts : Allowed(sort, TRUE) \subseteq Allowed(sort, FALSE)
BY DEF Allowed, CatalogSorts

LEMMA PassesAlways ==
  ASSUME NEW c, Passes(c, TRUE)
  PROVE  Passes(c, FALSE)
BY CatalogKinds, AllowedAlways DEF Passes, Refused

(* A component, whatever its children.                                     *)
Shaped(Children) == [id : ComponentIds, type : STRING, children : Children,
                     fields : SUBSET [kind : FieldKinds, value : FieldValues]]

LEMMA FilledIsSame ==
  ASSUME NEW Children, NEW c \in Shaped(Children), NEW withData \in BOOLEAN
  PROVE  LET d == FillFallback(c) IN
         /\ d \in Shaped(Children) /\ d.id = c.id /\ d.type = c.type /\ d.children = c.children
         /\ Passes(c, withData) => Passes(d, withData)
         /\ FillFallback(d) = d
<1> DEFINE known == Field("type_ref", "known")
<1>1. known \in [kind : FieldKinds, value : FieldValues] /\ known.kind = "type_ref" /\ known.value = "known"
  <2>1. known = [kind |-> "type_ref", value |-> "known"]
    BY DEF Field
  <2> HIDE DEF known
  <2>2. known.kind = "type_ref" /\ known.value = "known"
    BY <2>1
  <2>3. "type_ref" \in FieldKinds /\ "known" \in FieldValues
    BY DEF FieldKinds, FieldValues
  <2>4. QED
    BY <2>1, <2>2, <2>3
<1>2. CASE c.type \notin HasFallback
  BY <1>2 DEF FillFallback
<1>3. CASE c.type \in HasFallback
  <2> DEFINE d == [c EXCEPT !.fields = @ \cup {known}]
  <2>1. FillFallback(c) = d
    BY <1>3 DEF FillFallback
  <2>2. /\ d \in Shaped(Children) /\ d.id = c.id /\ d.type = c.type /\ d.children = c.children
        /\ d.fields = c.fields \cup {known}
    BY <1>1 DEF Shaped
  <2>3. FillFallback(d) = [d EXCEPT !.fields = @ \cup {known}]
    BY <1>3, <2>2 DEF FillFallback
  <2> HIDE DEF d
  <2>4. [d EXCEPT !.fields = @ \cup {known}] = d
    <3>1. d.fields \cup {known} = d.fields
      BY <2>2
    <3> HIDE DEF known
    <3>2. [d EXCEPT !.fields = d.fields] = d
      BY <2>2 DEF Shaped
    <3>3. QED
      BY <3>1, <3>2
  <2>5. ~Refused(d, known, withData)
    BY <1>1, <1>3, <2>2 DEF Refused, HasFallback, Allowed
  <2> HIDE DEF known
  <2>6. Passes(c, withData) => Passes(d, withData)
    BY <2>2, <2>5 DEF Passes, Refused
  <2>7. QED
    BY <2>1, <2>2, <2>3, <2>4, <2>6
<1>4. QED
  BY <1>2, <1>3

(* What passes as it is, and is complete, is kept.                         *)
LEMMA WholeIsKept ==
  ASSUME NEW components, NEW c \in components, NEW withData, Passes(c, withData), FillFallback(c) = c
  PROVE  c \in ValidateSurface(components, withData)
BY DEF ValidateSurface

LEMMA WallIsFinite ==
  ASSUME NEW components, NEW withData, IsFiniteSet(components)
  PROVE  IsFiniteSet(ValidateSurface(components, withData))
<1> DEFINE S == {d \in components : Passes(d, withData)}
           f == [d \in S |-> FillFallback(d)]
<1>1. IsFiniteSet(S)
  <2>1. S \in SUBSET components
    OBVIOUS
  <2>2. QED
    BY <2>1, FS_Subset
<1>2. ValidateSurface(components, withData) = {f[d] : d \in S}
  BY DEF ValidateSurface
<1>3. DOMAIN f = S
  OBVIOUS
<1> HIDE DEF S, f
<1>4. QED
  BY <1>1, <1>2, <1>3, ImageIsFinite

(* The harness's own components pass the wall, but for labels like markup. *)
LEMMA HarnessPasses ==
  ASSUME NEW withData \in BOOLEAN
  PROVE  /\ \A i, label : label \notin Poisoned =>
              LET c == Component(Tile(i), "EvidenceTile", <<>>,
                         {LabelField("text", label), Field("binding", "bind"),
                          Field("enum", "member"), Field("type_ref", "known")})
              IN Passes(c, withData) /\ FillFallback(c) = c
         /\ \A i, label : label \notin Poisoned =>
              LET c == Component(AskButton(i), "Button", <<>>,
                         {LabelField("bindable", label), Field("action", "registered")})
              IN Passes(c, withData) /\ FillFallback(c) = c
         /\ \A id, children :
              LET c == HarnessRow(id, children) IN Passes(c, withData) /\ FillFallback(c) = c
         /\ Passes(TheRunGraph, withData) /\ FillFallback(TheRunGraph) = TheRunGraph
<1>1. /\ {"EvidenceTile", "Button", "Row", "RunGraph"} \subseteq DOMAIN Catalog
      /\ Catalog["EvidenceTile"] = {"text", "binding", "enum", "type_ref"}
      /\ Catalog["Button"] = {"bindable", "action"}
      /\ Catalog["Row"] = {"enum"}
      /\ Catalog["RunGraph"] = {"text", "binding", "type_ref"}
  BY DEF Catalog
<1>2. /\ "literal" \in Allowed("text", withData) /\ "literal" \in Allowed("bindable", withData)
      /\ "bind" \in Allowed("binding", withData) /\ "member" \in Allowed("enum", withData)
      /\ "registered" \in Allowed("action", withData) /\ "known" \in Allowed("type_ref", withData)
  BY DEF Allowed
<1>3. "Button" \notin HasFallback /\ "Row" \notin HasFallback
  BY <1>1 DEF HasFallback
<1>4. ASSUME NEW id, NEW type, NEW children, NEW fields
      PROVE  LET c == Component(id, type, children, fields) IN
             /\ c.type = type /\ c.fields = fields
             /\ type \notin HasFallback \/ Field("type_ref", "known") \in fields => FillFallback(c) = c
  <2> DEFINE c == Component(id, type, children, fields)
             more == fields \cup {Field("type_ref", "known")}
  <2>1. c = [id |-> id, type |-> type, children |-> children, fields |-> fields]
    BY DEF Component
  <2>2. FillFallback(c) = IF type \in HasFallback THEN [c EXCEPT !.fields = more] ELSE c
    BY <2>1 DEF FillFallback
  <2>3. Field("type_ref", "known") \in fields => more = fields
    OBVIOUS
  <2> HIDE DEF more
  <2>4. [c EXCEPT !.fields = fields] = c
    BY <2>1
  <2>5. QED
    BY <2>1, <2>2, <2>3, <2>4
<1>5. ASSUME NEW label, label \notin Poisoned, NEW sort
      PROVE  LabelField(sort, label) = Field(sort, "literal")
  BY <1>5 DEF LabelField
<1>6. \A sort, value : Field(sort, value).kind = sort /\ Field(sort, value).value = value
  BY DEF Field
<1>7. ASSUME NEW i, NEW label, label \notin Poisoned
      PROVE  LET c == Component(Tile(i), "EvidenceTile", <<>>,
                         {LabelField("text", label), Field("binding", "bind"),
                          Field("enum", "member"), Field("type_ref", "known")})
              IN Passes(c, withData) /\ FillFallback(c) = c
  BY <1>1, <1>2, <1>4, <1>5, <1>6, <1>7 DEF Passes, Refused
<1>8. ASSUME NEW i, NEW label, label \notin Poisoned
      PROVE  LET c == Component(AskButton(i), "Button", <<>>,
                         {LabelField("bindable", label), Field("action", "registered")})
              IN Passes(c, withData) /\ FillFallback(c) = c
  BY <1>1, <1>2, <1>3, <1>4, <1>5, <1>6, <1>8 DEF Passes, Refused
<1>9. ASSUME NEW id, NEW children
      PROVE  LET c == HarnessRow(id, children) IN Passes(c, withData) /\ FillFallback(c) = c
  BY <1>1, <1>2, <1>3, <1>4, <1>6 DEF Passes, Refused, HarnessRow
<1>10. Passes(TheRunGraph, withData) /\ FillFallback(TheRunGraph) = TheRunGraph
  BY <1>1, <1>2, <1>4, <1>6 DEF Passes, Refused, TheRunGraph
<1>11. QED
  BY <1>7, <1>8, <1>9, <1>10

Holds(s, x) == \E i \in DOMAIN s : s[i] = x

LEMMA JoinedHold ==
  ASSUME NEW A, NEW s \in Seq(A), NEW t \in Seq(A), NEW x
  PROVE  s \o t \in Seq(A) /\ (Holds(s, x) \/ Holds(t, x) => Holds(s \o t, x))
<1>1. /\ Len(s) \in Nat /\ DOMAIN s = 1 .. Len(s) /\ Len(t) \in Nat /\ DOMAIN t = 1 .. Len(t)
      /\ s \o t \in Seq(A) /\ DOMAIN (s \o t) = 1 .. (Len(s) + Len(t))
      /\ \A i \in 1 .. Len(s) : (s \o t)[i] = s[i]
      /\ \A i \in 1 .. Len(t) : (s \o t)[Len(s) + i] = t[i]
  OBVIOUS
<1>2. ASSUME NEW i \in DOMAIN s, s[i] = x PROVE Holds(s \o t, x)
  <2>1. i \in 1 .. (Len(s) + Len(t))
    BY <1>1
  <2>2. QED
    BY <1>1, <1>2, <2>1 DEF Holds
<1>3. ASSUME NEW i \in DOMAIN t, t[i] = x PROVE Holds(s \o t, x)
  <2>1. Len(s) + i \in 1 .. (Len(s) + Len(t))
    BY <1>1
  <2>2. QED
    BY <1>1, <1>3, <2>1 DEF Holds
<1>4. QED
  BY <1>1, <1>2, <1>3 DEF Holds

(* The ids the root may gain.                                              *)
RowIds == {TileRow, AskRow, RunGraphId}

LEMMA HarnessNamesAre ==
  /\ TileRow[1] \in HarnessNames /\ AskRow[1] \in HarnessNames /\ RunGraphId[1] \in HarnessNames
  /\ \A i : Tile(i)[1] \in HarnessNames /\ AskButton(i)[1] \in HarnessNames
BY DEF TileRow, AskRow, RunGraphId, Tile, AskButton, HarnessNames

(* What the harness adds, one part at a time.                              *)
TilesAdded(e, p) ==
  IF DataModel(e).claims # <<>> /\ "EvidenceTile" \notin ComposedTypes(e, p)
  THEN EvidenceTiles(DataModel(e)) ELSE {}
ButtonsAdded(e, p) == IF "Button" \notin ComposedTypes(e, p) THEN AskButtons(e) ELSE {}
GraphAdded(e, p) == IF "RunGraph" \notin ComposedTypes(e, p) THEN {TheRunGraph} ELSE {}
IdsOf(s) == SetToSeq({c.id : c \in s})

LEMMA AdditionsAre ==
  ASSUME NEW e, NEW p
  PROVE  LET more == Additions(e, p)
             evidence == TilesAdded(e, p)
             buttons == ButtonsAdded(e, p)
             graph == GraphAdded(e, p)
         IN /\ more.components = evidence \cup buttons \cup graph
                 \cup (IF evidence # {} THEN {HarnessRow(TileRow, IdsOf(evidence))} ELSE {})
                 \cup (IF buttons # {} THEN {HarnessRow(AskRow, IdsOf(buttons))} ELSE {})
            /\ more.children = (IF evidence # {} THEN <<TileRow>> ELSE <<>>)
                 \o (IF buttons # {} THEN <<AskRow>> ELSE <<>>)
                 \o (IF graph # {} THEN <<RunGraphId>> ELSE <<>>)
BY DEF Additions, TilesAdded, ButtonsAdded, GraphAdded, IdsOf

LEMMA ChildrenGained ==
  ASSUME NEW e, NEW p
  PROVE  LET more == Additions(e, p).children IN
         /\ more \in Seq(RowIds)
         /\ TilesAdded(e, p) # {} => Holds(more, TileRow)
         /\ ButtonsAdded(e, p) # {} => Holds(more, AskRow)
         /\ GraphAdded(e, p) # {} => Holds(more, RunGraphId)
<1> DEFINE a == IF TilesAdded(e, p) # {} THEN <<TileRow>> ELSE <<>>
           b == IF ButtonsAdded(e, p) # {} THEN <<AskRow>> ELSE <<>>
           c == IF GraphAdded(e, p) # {} THEN <<RunGraphId>> ELSE <<>>
<1>1. Additions(e, p).children = a \o b \o c
  BY AdditionsAre
<1>2. ASSUME NEW x \in RowIds PROVE <<x>> \in Seq(RowIds) /\ <<>> \in Seq(RowIds) /\ Holds(<<x>>, x)
  BY <1>2 DEF Holds
<1>3. TileRow \in RowIds /\ AskRow \in RowIds /\ RunGraphId \in RowIds
  BY DEF RowIds
<1>4. /\ a \in Seq(RowIds) /\ (TilesAdded(e, p) # {} => Holds(a, TileRow))
      /\ b \in Seq(RowIds) /\ (ButtonsAdded(e, p) # {} => Holds(b, AskRow))
      /\ c \in Seq(RowIds) /\ (GraphAdded(e, p) # {} => Holds(c, RunGraphId))
  BY <1>2, <1>3
<1> HIDE DEF a, b, c
<1>5. a \o b \in Seq(RowIds) /\ \A x : Holds(a, x) \/ Holds(b, x) => Holds(a \o b, x)
  BY <1>4, JoinedHold
<1>6. (a \o b) \o c \in Seq(RowIds) /\ \A x : Holds(a \o b, x) \/ Holds(c, x) => Holds((a \o b) \o c, x)
  BY <1>4, <1>5, JoinedHold
<1>7. QED
  BY <1>1, <1>4, <1>5, <1>6

LEMMA AdditionsAreFinite ==
  ASSUME NEW e, e.outcomes \in Seq(Outcomes), e.claims \in Seq(Statements), NEW p
  PROVE  /\ IsFiniteSet(TilesAdded(e, p)) /\ IsFiniteSet(ButtonsAdded(e, p))
         /\ IsFiniteSet(Additions(e, p).components)
<1>1. DataModel(e).claims \in Seq(Claims)
  BY ResearchIsEarned, MergeIsEarned DEF DataModel
<1>2. IsFiniteSet(DOMAIN DataModel(e).claims)
  <2>1. DOMAIN DataModel(e).claims = 1 .. Len(DataModel(e).claims) /\ Len(DataModel(e).claims) \in Nat
    BY <1>1
  <2>2. QED
    BY <2>1, FS_Interval
<1>3. IsFiniteSet(EvidenceTiles(DataModel(e)))
  <2> DEFINE f == [i \in DOMAIN DataModel(e).claims |->
                     Component(Tile(i), "EvidenceTile", <<>>,
                       {LabelField("text", DataModel(e).claims[i].label), Field("binding", "bind"),
                        Field("enum", "member"), Field("type_ref", "known")})]
  <2>1. EvidenceTiles(DataModel(e)) = {f[i] : i \in DOMAIN DataModel(e).claims}
    BY DEF EvidenceTiles
  <2>2. DOMAIN f = DOMAIN DataModel(e).claims
    OBVIOUS
  <2> HIDE DEF f
  <2>3. QED
    BY <1>2, <2>1, <2>2, ImageIsFinite
<1>4. IsFiniteSet(AskButtons(e))
  <2> DEFINE S == DOMAIN Tappable(e) \cap 1 .. 6
             f == [i \in S |->
                     Component(AskButton(i), "Button", <<>>,
                       {LabelField("bindable", Tappable(e)[i]), Field("action", "registered")})]
  <2>1. AskButtons(e) = {f[i] : i \in S}
    BY DEF AskButtons
  <2>2. DOMAIN f = S
    OBVIOUS
  <2>3. IsFiniteSet(S)
    <3>1. IsFiniteSet(1 .. 6)
      <4>1. \A b \in Int : IsFiniteSet(1 .. b)
        BY FS_Interval
      <4>2. 6 \in Int
        OBVIOUS
      <4>3. QED
        BY <4>1, <4>2, Zenon
    <3>2. S \in SUBSET (1 .. 6)
      OBVIOUS
    <3> HIDE DEF S
    <3>3. QED
      BY <3>1, <3>2, FS_Subset
  <2> HIDE DEF f, S
  <2>4. QED
    BY <2>1, <2>2, <2>3, ImageIsFinite
<1>5. IsFiniteSet(TilesAdded(e, p)) /\ IsFiniteSet(ButtonsAdded(e, p)) /\ IsFiniteSet(GraphAdded(e, p))
  BY <1>3, <1>4, FS_EmptySet, FS_Singleton DEF TilesAdded, ButtonsAdded, GraphAdded
<1>6. IsFiniteSet(Additions(e, p).components)
  <2> DEFINE r == IF TilesAdded(e, p) # {} THEN {HarnessRow(TileRow, IdsOf(TilesAdded(e, p)))} ELSE {}
             s == IF ButtonsAdded(e, p) # {} THEN {HarnessRow(AskRow, IdsOf(ButtonsAdded(e, p)))} ELSE {}
  <2>1. IsFiniteSet(r) /\ IsFiniteSet(s)
    BY FS_EmptySet, FS_Singleton
  <2>2. Additions(e, p).components = TilesAdded(e, p) \cup ButtonsAdded(e, p) \cup GraphAdded(e, p) \cup r \cup s
    BY AdditionsAre
  <2> HIDE DEF r, s
  <2>3. IsFiniteSet(TilesAdded(e, p) \cup ButtonsAdded(e, p))
    BY <1>5, FS_Union
  <2>4. IsFiniteSet(TilesAdded(e, p) \cup ButtonsAdded(e, p) \cup GraphAdded(e, p))
    BY <1>5, <2>3, FS_Union
  <2>5. IsFiniteSet(TilesAdded(e, p) \cup ButtonsAdded(e, p) \cup GraphAdded(e, p) \cup r)
    BY <2>1, <2>4, FS_Union
  <2>6. QED
    BY <2>1, <2>2, <2>5, FS_Union
<1>7. QED
  BY <1>5, <1>6

(* A row holds the id of each of its components.                           *)
LEMMA RowHoldsAll ==
  ASSUME NEW s, IsFiniteSet(s), NEW c \in s
  PROVE  Holds(IdsOf(s), c.id)
<1> DEFINE f == [d \in s |-> d.id]
           T == {f[d] : d \in s}
<1>1. IsFiniteSet(T)
  BY ImageIsFinite
<1>2. T = {d.id : d \in s} /\ c.id \in T
  OBVIOUS
<1> HIDE DEF T
<1>3. QED
  BY <1>1, <1>2, SetToSeqHasAll DEF Holds, IdsOf

(* A record with the fields of a component, and what a fallback leaves it. *)
IsComponent(c) == c = [id |-> c.id, type |-> c.type, children |-> c.children, fields |-> c.fields]

LEMMA FilledIsComponent ==
  ASSUME NEW c, IsComponent(c)
  PROVE  IsComponent(FillFallback(c)) /\ FillFallback(c).id = c.id
<1> DEFINE more == c.fields \cup {Field("type_ref", "known")}
           d == [c EXCEPT !.fields = more]
<1>1. FillFallback(c) = IF c.type \in HasFallback THEN d ELSE c
  BY DEF FillFallback
<1> HIDE DEF more
<1>2. d.id = c.id /\ IsComponent(d)
  BY DEF IsComponent
<1>3. QED
  BY <1>1, <1>2

(* Of every component of the harness, the name is the harness's.           *)
LEMMA AdditionsAreNamed ==
  ASSUME NEW e, NEW p, NEW c \in Additions(e, p).components
  PROVE  c.id[1] \in HarnessNames /\ IsComponent(c)
<1>1. ASSUME NEW id, NEW type, NEW children, NEW fields
      PROVE  /\ Component(id, type, children, fields).id = id
             /\ IsComponent(Component(id, type, children, fields))
  BY DEF Component, IsComponent
<1>2. ASSUME NEW d \in TilesAdded(e, p) PROVE d.id[1] \in HarnessNames /\ IsComponent(d)
  <2>1. d \in EvidenceTiles(DataModel(e))
    BY DEF TilesAdded
  <2>2. PICK i, fields : d = Component(Tile(i), "EvidenceTile", <<>>, fields)
    BY <2>1, Zenon DEF EvidenceTiles
  <2>3. d.id = Tile(i) /\ IsComponent(d)
    BY <1>1, <2>2
  <2>4. QED
    BY <2>3, HarnessNamesAre
<1>3. ASSUME NEW d \in ButtonsAdded(e, p) PROVE d.id[1] \in HarnessNames /\ IsComponent(d)
  <2>1. d \in AskButtons(e)
    BY DEF ButtonsAdded
  <2>2. PICK i, fields : d = Component(AskButton(i), "Button", <<>>, fields)
    BY <2>1, Zenon DEF AskButtons
  <2>3. d.id = AskButton(i) /\ IsComponent(d)
    BY <1>1, <2>2
  <2>4. QED
    BY <2>3, HarnessNamesAre
<1>4. /\ TheRunGraph.id[1] \in HarnessNames /\ IsComponent(TheRunGraph)
      /\ \A d \in GraphAdded(e, p) : d = TheRunGraph
  BY <1>1, HarnessNamesAre DEF GraphAdded, TheRunGraph
<1>5. \A id, children : HarnessRow(id, children).id = id /\ IsComponent(HarnessRow(id, children))
  BY <1>1 DEF HarnessRow
<1>6. QED
  BY <1>2, <1>3, <1>4, <1>5, AdditionsAre, HarnessNamesAre

(* What is served of a composed surface.                                   *)
ServedOf(surface) == ValidateSurface(surface.components, FALSE)

Named(surface, type) == \E c \in surface.components : c.type = type /\ c.id[1] \notin HarnessNames

(* What a reply's components are once the wall let them pass, and once the *)
(* root has gained its children.                                           *)
Gained(c, e, p) ==
  IF c.id = p.root THEN [c EXCEPT !.children = @ \o Additions(e, p).children] ELSE c

OwnOf(e, p) == {Gained(c, e, p) : c \in ValidateSurface(p.components, TRUE)}

LEMMA ComposedIsShaped ==
  ASSUME NEW e, NEW p \in Proposals
  PROVE  LET more == Additions(e, p) IN
            /\ \A c \in ValidateSurface(p.components, TRUE) :
                 /\ c \in Components /\ c.id[1] \notin HarnessNames
                 /\ Passes(c, TRUE) /\ FillFallback(c) = c
            /\ IsFiniteSet(p.components) /\ p.root[1] \notin HarnessNames
            /\ \A d \in OwnOf(e, p) :
                 /\ d \in Shaped(Seq(ComponentIds \cup RowIds)) /\ d.id[1] \notin HarnessNames
                 /\ Passes(d, TRUE) /\ FillFallback(d) = d
                 /\ d.id = p.root => \A x : Holds(more.children, x) => Holds(d.children, x)
<1> DEFINE more == Additions(e, p)
           V == ValidateSurface(p.components, TRUE)
           Wide == Seq(ComponentIds \cup RowIds)
<1>1. /\ p.components \subseteq Components /\ IsFiniteSet(p.components)
      /\ \A c \in p.components : c.id[1] \notin HarnessNames
      /\ p.root[1] \notin HarnessNames
  <2>1. /\ p.components \subseteq Components /\ IsFiniteSet(p.components)
        /\ \A id \in {c.id : c \in p.components} \cup {p.root} : id[1] \notin HarnessNames
    BY ProposalsAssumption
  <2>2. QED
    BY <2>1
<1>2. Components = Shaped(Seq(ComponentIds))
  BY DEF Components, Shaped
<1>3. ASSUME NEW c \in V
      PROVE  c \in Components /\ c.id[1] \notin HarnessNames /\ Passes(c, TRUE) /\ FillFallback(c) = c
  <2>1. PICK d \in p.components : Passes(d, TRUE) /\ c = FillFallback(d)
    BY DEF ValidateSurface
  <2>2. d \in Shaped(Seq(ComponentIds))
    BY <1>1, <1>2
  <2>3. QED
    BY <1>1, <1>2, <2>1, <2>2, FilledIsSame
<1>4. more.children \in Seq(RowIds)
  BY ChildrenGained
<1>5. ASSUME NEW c \in V
      PROVE  LET d == Gained(c, e, p) IN
             /\ d \in Shaped(Wide) /\ d.id[1] \notin HarnessNames
             /\ Passes(d, TRUE) /\ FillFallback(d) = d
             /\ d.id = p.root => \A x : Holds(more.children, x) => Holds(d.children, x)
  <2>1. /\ c \in Shaped(Seq(ComponentIds)) /\ c.id[1] \notin HarnessNames
        /\ Passes(c, TRUE) /\ FillFallback(c) = c
    BY <1>2, <1>3
  <2>2. /\ c.id \in ComponentIds /\ c.type \in STRING /\ c.children \in Seq(ComponentIds)
        /\ c.fields \in SUBSET [kind : FieldKinds, value : FieldValues]
        /\ c = [id |-> c.id, type |-> c.type, children |-> c.children, fields |-> c.fields]
    BY <2>1 DEF Shaped
  <2>3. c.children \in Wide /\ more.children \in Wide
    BY <1>4, <2>2
  <2>4. /\ c.children \o more.children \in Wide
        /\ \A x : Holds(more.children, x) => Holds(c.children \o more.children, x)
    BY <2>3, JoinedHold
  <2>5. CASE c.id # p.root
    <3>1. Gained(c, e, p) = c
      BY <2>5 DEF Gained
    <3>2. c \in Shaped(Wide)
      BY <2>2, <2>3 DEF Shaped
    <3>3. QED
      BY <2>1, <2>5, <3>1, <3>2
  <2>6. CASE c.id = p.root
    <3> DEFINE kids == c.children \o more.children
               d == [c EXCEPT !.children = kids]
    <3>1. Gained(c, e, p) = d
      BY <2>6 DEF Gained
    <3> HIDE DEF kids
    <3>2. /\ d = [id |-> c.id, type |-> c.type, children |-> kids, fields |-> c.fields]
          /\ d.id = c.id /\ d.type = c.type /\ d.children = kids /\ d.fields = c.fields
      BY <2>2
    <3>3. kids \in Wide /\ \A x : Holds(more.children, x) => Holds(kids, x)
      BY <2>4 DEF kids
    <3> HIDE DEF d
    <3>4. d \in Shaped(Wide)
      BY <2>2, <3>2, <3>3 DEF Shaped
    <3>5. Passes(d, TRUE)
      BY <2>1, <3>2 DEF Passes, Refused
    <3>6. FillFallback(d) = d
      <4> DEFINE known == c.fields \cup {Field("type_ref", "known")}
      <4>1. c.type \in HasFallback => known = c.fields
        <5>1. c.type \in HasFallback => FillFallback(c).fields = known
          BY <2>2 DEF FillFallback
        <5>2. QED
          BY <2>1, <5>1
      <4>2. c.type \in HasFallback => FillFallback(d) = [d EXCEPT !.fields = known]
        BY <3>2 DEF FillFallback
      <4>3. c.type \notin HasFallback => FillFallback(d) = d
        BY <3>2 DEF FillFallback
      <4> HIDE DEF known
      <4>4. [d EXCEPT !.fields = c.fields] = d
        BY <3>2
      <4>5. QED
        BY <4>1, <4>2, <4>3, <4>4
    <3>7. QED
      BY <2>1, <3>1, <3>2, <3>3, <3>4, <3>5, <3>6
  <2>7. QED
    BY <2>5, <2>6
<1>6. QED
  BY <1>1, <1>3, <1>5 DEF OwnOf

(* What of it is served, and hangs from the root.                          *)
LEMMA SurfaceServed ==
  ASSUME NEW e, e.outcomes \in Seq(Outcomes), e.claims \in Seq(Statements), NEW p \in Proposals
  PROVE  LET surface == ComposeSurface(e, p)
             more == Additions(e, p)
         IN /\ IsFiniteSet(ServedOf(surface)) /\ surface.root = p.root /\ surface.data = DataModel(e)
            /\ \A c \in ById(ServedOf(surface), p.root) :
                 /\ \E b \in ById(surface.components, p.root) : b.type = c.type
                 /\ \A x : Holds(more.children, x) => Holds(c.children, x)
            /\ \A h \in more.components :
                 Passes(h, TRUE) /\ FillFallback(h) = h => h \in ServedOf(surface)
            /\ \A type \in ComposedTypes(e, p) : Named(surface, type)
<1> DEFINE surface == ComposeSurface(e, p)
           more == Additions(e, p)
           V == ValidateSurface(p.components, TRUE)
           own == OwnOf(e, p)
           f == [c \in V |-> Gained(c, e, p)]
<1>1. /\ \A c \in V : c.id[1] \notin HarnessNames
      /\ IsFiniteSet(p.components) /\ p.root[1] \notin HarnessNames
      /\ \A d \in own :
           /\ d.id[1] \notin HarnessNames /\ IsComponent(d)
           /\ Passes(d, TRUE) /\ FillFallback(d) = d
           /\ d.id = p.root => \A x : Holds(more.children, x) => Holds(d.children, x)
  <2>1. \A d \in own : d \in Shaped(Seq(ComponentIds \cup RowIds))
    BY ComposedIsShaped
  <2>2. \A d \in own : IsComponent(d)
    BY <2>1 DEF Shaped, IsComponent
  <2>3. QED
    BY <2>2, ComposedIsShaped
<1>2. /\ surface.root = p.root /\ surface.data = DataModel(e)
      /\ surface.components = ValidateSurface(own \cup more.components, TRUE)
  BY DEF ComposeSurface, OwnOf, Gained
<1>3. IsFiniteSet(own)
  <2>1. own = {f[c] : c \in V} /\ DOMAIN f = V
    BY DEF OwnOf
  <2>2. IsFiniteSet(V)
    BY <1>1, WallIsFinite
  <2> HIDE DEF own, f, V
  <2>3. QED
    BY <2>1, <2>2, ImageIsFinite
<1>4. \A c \in V : \E d \in own : d.type = c.type
  <2>1. ASSUME NEW c \in V PROVE \E d \in own : d.type = c.type
    <3>1. f[c] \in own
      BY DEF OwnOf
    <3>2. f[c].type = c.type
      <4>1. c \in Components
        BY ComposedIsShaped
      <4>2. QED
        BY <4>1 DEF Components, Gained
    <3>3. QED
      BY <3>1, <3>2
  <2>2. QED
    BY <2>1
<1>5. ComposedTypes(e, p) = {c.type : c \in V}
  BY DEF ComposedTypes
<1> HIDE DEF surface, own, V, f
<1>6. IsFiniteSet(ServedOf(surface))
  <2>1. IsFiniteSet(own \cup more.components)
    BY <1>3, AdditionsAreFinite, FS_Union
  <2>2. QED
    BY <1>2, <2>1, WallIsFinite DEF ServedOf
<1>7. \A d \in own \cup more.components :
        Passes(d, TRUE) /\ FillFallback(d) = d => d \in surface.components /\ d \in ServedOf(surface)
  <2>1. ASSUME NEW d \in own \cup more.components, Passes(d, TRUE), FillFallback(d) = d
        PROVE  d \in surface.components /\ d \in ServedOf(surface)
    <3>1. d \in surface.components
      <4> DEFINE all == own \cup more.components
      <4>1. d \in all /\ surface.components = ValidateSurface(all, TRUE)
        BY <1>2, <2>1
      <4> HIDE DEF all
      <4>2. QED
        BY <2>1, <4>1, WholeIsKept
    <3>2. Passes(d, FALSE)
      BY <2>1, PassesAlways
    <3>3. QED
      BY <2>1, <3>1, <3>2, WholeIsKept DEF ServedOf
  <2>2. QED
    BY <2>1
<1>8. ASSUME NEW b \in surface.components
      PROVE  IsComponent(b) /\ (b \in own \/ b.id[1] \in HarnessNames)
  <2>1. PICK d \in own \cup more.components : Passes(d, TRUE) /\ b = FillFallback(d)
    BY <1>2 DEF ValidateSurface
  <2>2. CASE d \in own
    BY <1>1, <2>1, <2>2
  <2>3. CASE d \in more.components
    BY <2>1, <2>3, AdditionsAreNamed, FilledIsComponent
  <2>4. QED
    BY <2>1, <2>2, <2>3
<1>9. ASSUME NEW c \in ById(ServedOf(surface), p.root)
      PROVE  /\ \E b \in ById(surface.components, p.root) : b.type = c.type
             /\ \A x : Holds(more.children, x) => Holds(c.children, x)
  <2>1. c.id = p.root
    BY DEF ById
  <2>2. PICK b \in surface.components : Passes(b, FALSE) /\ c = FillFallback(b)
    BY DEF ById, ServedOf, ValidateSurface
  <2>3. c.id = b.id
    BY <1>8, <2>2, FilledIsComponent
  <2>4. b \in own
    BY <1>1, <1>8, <2>1, <2>3
  <2>5. c = b
    BY <1>1, <2>2, <2>4
  <2>6. QED
    BY <1>1, <2>1, <2>4, <2>5 DEF ById
<1>10. ASSUME NEW type \in ComposedTypes(e, p) PROVE Named(surface, type)
  <2>1. PICK d \in own : d.type = type
    BY <1>4, <1>5
  <2>2. QED
    BY <1>1, <1>7, <2>1 DEF Named
<1>11. QED
  BY <1>2, <1>6, <1>7, <1>9, <1>10 DEF surface

(* The screen is what was drawn of what is at hand.                        *)
DrawnInv ==
  composed # NoSurface =>
    /\ found \in RunResults /\ reply \in Proposals /\ composed = ComposeSurface(found, reply)
    /\ stage = "idle" /\ ~Circular(Served, composed.root) => screen = Drawn(Served, composed.root)

LEMMA DrawnInitInv == TurnInit => DrawnInv
BY DEF TurnInit, DrawnInv

LEMMA DrawnStepInv == DrawnInv /\ [TurnNext]_turnVars => DrawnInv'
<1> SUFFICES ASSUME DrawnInv, [TurnNext]_turnVars PROVE DrawnInv'
  OBVIOUS
<1>1. CASE composed' = NoSurface
  BY <1>1 DEF DrawnInv
<1>2. CASE UNCHANGED <<composed, found, reply, stage, screen>>
  BY <1>2 DEF DrawnInv, Served
<1>3. CASE RunComposed
  <2>1. stage' # "idle"
    BY <1>3 DEF RunComposed
  <2>2. PICK e \in RunResults, p \in Proposals :
          found' = e /\ reply' = p /\ (composed' = NoSurface \/ composed' = ComposeSurface(e, p))
    BY <1>3 DEF RunComposed
  <2>3. QED
    BY <2>1, <2>2 DEF DrawnInv
<1>4. CASE Paint
  <2>1. UNCHANGED <<composed, found, reply>> /\ screen' = Drawn(Served, composed.root)
    BY <1>4 DEF Paint
  <2>2. Served' = Served
    BY <2>1 DEF Served
  <2>3. QED
    BY <2>1, <2>2 DEF DrawnInv
<1>5. CASE PaintRaises /\ composed' # NoSurface
  <2>1. UNCHANGED <<composed, found, reply>> /\ Circular(Served, composed.root)
    BY <1>5 DEF PaintRaises
  <2>2. Served' = Served
    BY <2>1 DEF Served
  <2>3. QED
    BY <2>1, <2>2 DEF DrawnInv
<1>6. QED
  BY <1>1, <1>2, <1>3, <1>4, <1>5 DEF TurnNext, turnVars, RunTurn, RunFailed

(* Ids of the harness's are so named, and the model's are not.             *)
LEMMA NamedIsByModel ==
  ASSUME NEW type, Named(composed, type)
  PROVE  ByModel(type)
BY HarnessNamesAre DEF Named, ByModel, HarnessIds

LEMMA WarrantHolds == DrawnInv => WarrantIsDrawn
<1> SUFFICES ASSUME DrawnInv, Painted, RootDrawsAll
             PROVE  /\ \A i \in DOMAIN composed.data.claims :
                         composed.data.claims[i].label \notin Poisoned => Tile(i) \in screen \/ ByModel("EvidenceTile")
                    /\ \A i \in DOMAIN Tappable(found) \cap 1 .. 6 :
                         Tappable(found)[i] \notin Poisoned => AskButton(i) \in screen \/ ByModel("Button")
                    /\ RunGraphId \in screen \/ ByModel("RunGraph")
  BY DEF WarrantIsDrawn
<1> DEFINE more == Additions(found, reply)
<1>1. /\ found \in RunResults /\ reply \in Proposals /\ composed = ComposeSurface(found, reply)
      /\ screen = Drawn(Served, composed.root)
  BY DEF Painted, DrawnInv
<1>2. found.outcomes \in Seq(Outcomes) /\ found.claims \in Seq(Statements)
  BY <1>1, ComposedTurnAssumption
<1>3. /\ IsFiniteSet(Served) /\ composed.root = reply.root /\ composed.data = DataModel(found)
      /\ \A c \in ById(Served, composed.root) :
           /\ \E b \in ById(composed.components, composed.root) : b.type = c.type
           /\ \A x : Holds(more.children, x) => Holds(c.children, x)
      /\ \A h \in more.components : Passes(h, TRUE) /\ FillFallback(h) = h => h \in Served
      /\ \A type \in ComposedTypes(found, reply) : Named(composed, type)
  <2> DEFINE surface == ComposeSurface(found, reply)
  <2>1. /\ IsFiniteSet(ServedOf(surface)) /\ surface.root = reply.root /\ surface.data = DataModel(found)
        /\ \A c \in ById(ServedOf(surface), reply.root) :
             /\ \E b \in ById(surface.components, reply.root) : b.type = c.type
             /\ \A x : Holds(more.children, x) => Holds(c.children, x)
        /\ \A h \in more.components : Passes(h, TRUE) /\ FillFallback(h) = h => h \in ServedOf(surface)
        /\ \A type \in ComposedTypes(found, reply) : Named(surface, type)
    BY <1>1, <1>2, SurfaceServed
  <2>2. composed = surface /\ Served = ServedOf(composed)
    BY <1>1 DEF Served, ServedOf
  <2> HIDE DEF surface, more
  <2>3. QED
    BY <2>1, <2>2
<1>4. composed.root[1] \notin HarnessNames
  BY <1>1, <1>3, ComposedIsShaped
<1> HIDE DEF more
<1>5. ASSUME NEW row \in Served, Holds(more.children, row.id), row.id[1] \in HarnessNames
      PROVE  /\ row.id \in screen
             /\ row.type = "Row" => \A kid \in Served : Holds(row.children, kid.id) => kid.id \in screen
  <2>1. row.id # composed.root
    BY <1>4, <1>5
  <2>2. \A c \in ById(Served, composed.root) :
          /\ c.type \in Containers \ {"Tabs"}
          /\ \E i \in DOMAIN c.children : c.children[i] = row.id
    BY <1>3, <1>5 DEF RootDrawsAll, Holds
  <2>3. QED
    BY <1>1, <1>3, <2>1, <2>2, HungIsDrawn DEF Holds
<1>6. ASSUME NEW kids, NEW rowId, rowId[1] \in HarnessNames, IsFiniteSet(kids), NEW kid \in kids,
             HarnessRow(rowId, IdsOf(kids)) \in more.components, Holds(more.children, rowId),
             kid \in more.components, Passes(kid, TRUE), FillFallback(kid) = kid
      PROVE  kid.id \in screen
  <2> DEFINE row == HarnessRow(rowId, IdsOf(kids))
  <2>1. row.id = rowId /\ row.type = "Row" /\ row.children = IdsOf(kids)
    BY DEF HarnessRow, Component
  <2>2. row \in Served /\ kid \in Served
    BY <1>3, <1>6, HarnessPasses
  <2>3. Holds(row.children, kid.id)
    BY <1>6, <2>1, RowHoldsAll
  <2> HIDE DEF row
  <2>4. QED
    BY <1>5, <1>6, <2>1, <2>2, <2>3
<1>7. ASSUME NEW i \in DOMAIN composed.data.claims, composed.data.claims[i].label \notin Poisoned
      PROVE  Tile(i) \in screen \/ ByModel("EvidenceTile")
  <2>1. CASE "EvidenceTile" \in ComposedTypes(found, reply)
    BY <1>3, <2>1, NamedIsByModel
  <2>2. CASE "EvidenceTile" \notin ComposedTypes(found, reply)
    <3> DEFINE dm == DataModel(found)
               tile == Component(Tile(i), "EvidenceTile", <<>>,
                         {LabelField("text", dm.claims[i].label), Field("binding", "bind"),
                          Field("enum", "member"), Field("type_ref", "known")})
    <3>1. Passes(tile, TRUE) /\ FillFallback(tile) = tile /\ tile.id = Tile(i)
      BY <1>3, <1>7, HarnessPasses DEF Component
    <3>2. tile \in EvidenceTiles(dm)
      BY <1>3, <1>7 DEF EvidenceTiles
    <3>3. dm.claims # <<>>
      BY <1>3, <1>7
    <3> HIDE DEF tile, dm
    <3>4. TilesAdded(found, reply) = EvidenceTiles(dm)
      BY <2>2, <3>3 DEF TilesAdded, dm
    <3> DEFINE kids == TilesAdded(found, reply)
    <3>5. tile \in kids /\ kids # {}
      BY <3>2, <3>4
    <3>6. kids \subseteq more.components /\ HarnessRow(TileRow, IdsOf(kids)) \in more.components
      BY <3>5, AdditionsAre DEF more
    <3>7. IsFiniteSet(kids) /\ Holds(more.children, TileRow)
      BY <1>2, <3>5, AdditionsAreFinite, ChildrenGained DEF more
    <3> HIDE DEF kids
    <3>8. QED
      BY <1>6, <3>1, <3>5, <3>6, <3>7, HarnessNamesAre
  <2>3. QED
    BY <2>1, <2>2
<1>8. ASSUME NEW i \in DOMAIN Tappable(found) \cap 1 .. 6, Tappable(found)[i] \notin Poisoned
      PROVE  AskButton(i) \in screen \/ ByModel("Button")
  <2>1. CASE "Button" \in ComposedTypes(found, reply)
    BY <1>3, <2>1, NamedIsByModel
  <2>2. CASE "Button" \notin ComposedTypes(found, reply)
    <3> DEFINE button == Component(AskButton(i), "Button", <<>>,
                           {LabelField("bindable", Tappable(found)[i]), Field("action", "registered")})
    <3>1. Passes(button, TRUE) /\ FillFallback(button) = button /\ button.id = AskButton(i)
      BY <1>8, HarnessPasses DEF Component
    <3>2. button \in AskButtons(found)
      BY <1>8 DEF AskButtons
    <3> HIDE DEF button
    <3>3. ButtonsAdded(found, reply) = AskButtons(found)
      BY <2>2 DEF ButtonsAdded
    <3> DEFINE kids == ButtonsAdded(found, reply)
    <3>4. button \in kids /\ kids # {}
      BY <3>2, <3>3
    <3>5. kids \subseteq more.components /\ HarnessRow(AskRow, IdsOf(kids)) \in more.components
      BY <3>4, AdditionsAre DEF more
    <3>6. IsFiniteSet(kids) /\ Holds(more.children, AskRow)
      BY <1>2, <3>4, AdditionsAreFinite, ChildrenGained DEF more
    <3> HIDE DEF kids
    <3>7. QED
      BY <1>6, <3>1, <3>4, <3>5, <3>6, HarnessNamesAre
  <2>3. QED
    BY <2>1, <2>2
<1>9. RunGraphId \in screen \/ ByModel("RunGraph")
  <2>1. CASE "RunGraph" \in ComposedTypes(found, reply)
    BY <1>3, <2>1, NamedIsByModel
  <2>2. CASE "RunGraph" \notin ComposedTypes(found, reply)
    <3>1. GraphAdded(found, reply) = {TheRunGraph} /\ TheRunGraph.id = RunGraphId
      BY <2>2 DEF GraphAdded, TheRunGraph, Component
    <3>2. TheRunGraph \in more.components /\ Holds(more.children, RunGraphId)
      BY <3>1, AdditionsAre, ChildrenGained DEF more
    <3>3. TheRunGraph \in Served
      BY <1>3, <3>2, HarnessPasses
    <3>4. QED
      BY <1>5, <3>1, <3>2, <3>3, HarnessNamesAre
  <2>3. QED
    BY <2>1, <2>2
<1>10. QED
  BY <1>7, <1>8, <1>9

-----------------------------------------------------------------------------
(* The service: whichever of its parts a behaviour watches.                *)

ServiceInv == MemInv /\ RunsInv /\ ChunkInv /\ ViewInv /\ TurnInv /\ DrawnInv

LEMMA ServiceInitInv == ServiceInit => ServiceInv
BY MemInit, RunsInitInv, ChunkInitInv, ViewInitInv, TurnInitInv, DrawnInitInv DEF ServiceInit, ServiceInv

LEMMA ServiceStepInv == ServiceInv /\ [ServiceNext]_serviceVars => ServiceInv'
<1> SUFFICES ASSUME ServiceInv, [ServiceNext]_serviceVars PROVE ServiceInv'
  OBVIOUS
<1>1. [Next]_vars
  BY DEF ServiceNext, serviceVars, MemoryStep, TasksStep, ViewStep, TurnStep, ChunkingStep, RunsStep
<1>2. [RunsNext]_runVars
  BY DEF ServiceNext, serviceVars, MemoryStep, TasksStep, ViewStep, TurnStep, ChunkingStep, RunsStep
<1>3. [ChunkingNext]_chunkVars
  BY DEF ServiceNext, serviceVars, MemoryStep, TasksStep, ViewStep, TurnStep, ChunkingStep, RunsStep
<1>4. [ViewNext]_liveVars
  BY DEF ServiceNext, serviceVars, MemoryStep, TasksStep, ViewStep, TurnStep, ChunkingStep, RunsStep
<1>5. [TurnNext]_turnVars
  BY DEF ServiceNext, serviceVars, MemoryStep, TasksStep, ViewStep, TurnStep, ChunkingStep, RunsStep
<1>6. QED
  BY <1>1, <1>2, <1>3, <1>4, <1>5, MemStep, RunsStepInv, ChunkStepInv, ViewStepInv, TurnStepInv, DrawnStepInv
     DEF ServiceInv

(* Each part keeps its invariant while the others are at rest.             *)
THEOREM ServiceInvariant == ServiceSpec => []ServiceInv
<1>1. ServiceInit => ServiceInv
  BY ServiceInitInv
<1>2. ServiceInv /\ [ServiceNext]_serviceVars => ServiceInv'
  BY ServiceStepInv
<1>3. QED
  BY <1>1, <1>2, PTL DEF ServiceSpec

(* What a write returned is in the table with its audit row (store.py),    *)
(* and what a run's graph says succeeded, or a request was told, is among  *)
(* the records, whatever crashes (runtime.py).                             *)
THEOREM ServiceReturnedIsKept == ServiceSpec => []ReturnedIsKept
<1>1. ServiceInv => ReturnedIsKept
  BY RunsInvIsEnough DEF ServiceInv, ReturnedIsKept, ReturnedIsAudited, MemInv, TableInv, Audited
<1>2. QED
  BY <1>1, ServiceInvariant, PTL

(* However a document is cut (chunking.py), its chunks are all of it; only *)
(* the last version's are evidence (ingest_document); and a run is given   *)
(* nothing that it said itself but the fact it was asked to remember.      *)
THEOREM ServiceEvidenceIsSound == ServiceSpec => []EvidenceIsSound
<1>1. ServiceInv => EvidenceIsSound
  BY DocumentedIsEvidence, RunsInvIsEnough DEF ServiceInv, EvidenceIsSound, ChunkInv
<1>2. QED
  BY <1>1, ServiceInvariant, PTL

(* Whatever breaks, is sent twice or is recorded meanwhile, a viewer holds *)
(* a state the run really had: every patch once, in order, and with it     *)
(* the results of just the events before (agui.py, client/index.html).     *)
THEOREM ServiceViewWasTrue == ServiceSpec => []ViewWasTrue
<1>1. ServiceInv => ViewWasTrue
  BY DEF ServiceInv, ViewInv, ViewWasTrue
<1>2. QED
  BY <1>1, ServiceInvariant, PTL

(* A claim of the page has the confidence and the sources of what the run  *)
(* itself gathered of its subject, whatever the structured answer states   *)
(* of it, and a value only that was stated for it (runtime.py).            *)
THEOREM ServiceConfidenceIsEarned == ServiceSpec => []ConfidenceIsEarned
<1>1. ServiceInv => ConfidenceIsEarned
  BY TurnInvIsEnough DEF ServiceInv
<1>2. QED
  BY <1>1, ServiceInvariant, PTL

(* "Provenance is guaranteed, not requested": whatever surface the model   *)
(* replies with, a root that draws its children draws every claim's tile,  *)
(* the buttons and the run that the wall lets through, unless the model    *)
(* has composed some of its own (runtime.py, validator.py, index.html).    *)
THEOREM ServiceWarrantIsDrawn == ServiceSpec => []WarrantIsDrawn
<1>1. ServiceInv => WarrantIsDrawn
  BY WarrantHolds DEF ServiceInv
<1>2. QED
  BY <1>1, ServiceInvariant, PTL
=============================================================================
