------------------------------ MODULE Chunking ------------------------------
(***************************************************************************)
(* How a document is cut into the chunks that memory keeps                 *)
(* (s13code/core/memory/chunking.py): a block of at most max_words is      *)
(* taken, a local model is asked whether a second topic begins inside it,  *)
(* and if so that suffix is left to the next block.                        *)
(*                                                                         *)
(* A document is a sequence of units: a word that begins a line (of text,  *)
(* a heading, a table row or a fence), another word, or the rest of the    *)
(* word before it, which is where a reply may cut it.  White space is left *)
(* out, but for a newline at the very end.                                 *)
(***************************************************************************)
EXTENDS Naturals, Sequences, FiniteSets, FiniteSetsExt

CONSTANTS Markdowns,    \* documents: [units, newline]
          MaxWords,     \* max_words, 512
          SemanticFloor \* min_words: a smaller block is not asked about, 40

LineKinds == {"text", "heading", "row", "fence"}

ASSUME ChunkingAssumption ==
  /\ MaxWords \in Nat \ {0} /\ SemanticFloor \in Nat
  /\ \A d \in Markdowns : d.units \in Seq(LineKinds \cup {"word", "rest"})

VARIABLES markdown,
          pending_start, \* the first unit that is in no chunk yet
          raw            \* the chunks: [from, to, rolled], without to

chunkVars == <<markdown, pending_start, raw>>

Units == markdown.units
End == Len(Units) + 1

(* Words of the text from i up to j; what follows a cut is a word.         *)
Words(i, j) == Cardinality({u \in i .. j - 1 : u = i \/ Units[u] # "rest"})

(* The end of the budget, always the end of a word.                        *)
NominalEnd(start) ==
  IF Words(start, End) <= MaxWords THEN End
  ELSE CHOOSE u \in start .. End - 1 : Words(start, u) = MaxWords /\ Units[u] # "rest"

(* A heading has a title.  The last heading, a fence that is not closed,   *)
(* or the table that the last line belongs to is left to the next block.   *)
(* Where the code looks for the line before the first newline of the block *)
(* it finds the first line of the document.                                *)
Headings(start, end) == {u \in start + 1 .. end - 2 : Units[u] = "heading"}
Fences(start, end) == {u \in start .. end - 1 : Units[u] = "fence"}

LastRows(start, end) ==
  LET lines == {u \in start + 1 .. end - 1 : Units[u] \in LineKinds}
      rows == {u \in lines : \A v \in lines : v >= u => Units[v] = "row"}
  IN IF (end = End /\ markdown.newline) \/ (rows = lines /\ Units[1] = "row") THEN {} ELSE rows

StructuralEnd(start, end) ==
  LET headings == Headings(start, end)
      fences == Fences(start, end)
      rows == LastRows(start, end)
  IN IF headings # {} THEN Max(headings)
     ELSE IF Cardinality(fences) % 2 = 1 /\ Max(fences) > start THEN Max(fences)
     ELSE IF rows # {} THEN Min(rows)
     ELSE end

BlockEnd == StructuralEnd(pending_start, NominalEnd(pending_start))

ChunkingInit == markdown \in Markdowns /\ pending_start = 1 /\ raw = <<>>

(* One topic, or the block was too small to ask, or asking raised, or the  *)
(* reply is no suffix of the block, or all of it.                          *)
KeepsBlock ==
  /\ pending_start < End
  /\ raw' = Append(raw, [from |-> pending_start, to |-> BlockEnd, rolled |-> FALSE])
  /\ pending_start' = BlockEnd
  /\ UNCHANGED markdown

(* Mutant: the next block begins after this one.                           *)
RollsOverAndSkips(p) ==
  /\ pending_start < End /\ Words(pending_start, BlockEnd) >= SemanticFloor
  /\ p \in pending_start + 1 .. BlockEnd - 1
  /\ raw' = Append(raw, [from |-> pending_start, to |-> p, rolled |-> TRUE])
  /\ pending_start' = BlockEnd
  /\ UNCHANGED markdown

(* The reply is the suffix of the block that begins at p.                  *)
RollsOver(p) ==
  /\ pending_start < End /\ Words(pending_start, BlockEnd) >= SemanticFloor
  /\ p \in pending_start + 1 .. BlockEnd - 1
  /\ raw' = Append(raw, [from |-> pending_start, to |-> p, rolled |-> TRUE])
  /\ pending_start' = p
  /\ UNCHANGED markdown

ChunkingNext == KeepsBlock \/ \E p \in 1 .. Len(Units) : RollsOver(p)

(***************************************************************************)
(* Whatever the model replies and whatever structure the budget runs into, *)
(* every unit is in one chunk and the chunks are in order, none is empty   *)
(* (so that the loop ends) or over the budget, and only a reply, never the *)
(* budget or a structure, cuts a word.                                     *)
(***************************************************************************)
ChunksAreWhole ==
  /\ pending_start = (IF raw = <<>> THEN 1 ELSE raw[Len(raw)].to)
  /\ \A k \in DOMAIN raw :
       LET c == raw[k] IN
       /\ c.from = (IF k = 1 THEN 1 ELSE raw[k - 1].to) /\ c.from < c.to
       /\ Words(c.from, c.to) <= MaxWords
       /\ c.rolled \/ c.to = End \/ Units[c.to] # "rest"
=============================================================================
