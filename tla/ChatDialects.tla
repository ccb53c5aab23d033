---------------------------- MODULE ChatDialects ----------------------------
(***************************************************************************)
(* What a provider is posted of a conversation that calls tools            *)
(* (glc/providers.py, and what POST /v1/chat does before and after).  The  *)
(* client keeps the conversation in one form, sends all of it each turn,   *)
(* and any provider may serve the next turn: OpenAI's wire form tells      *)
(* calls by id, Gemini's by name, Ollama's by their order; an Ollama model *)
(* without tools is asked for them in prose.  Texts are left out.          *)
(***************************************************************************)
EXTENDS Naturals, Sequences, FiniteSets, FiniteSetsExt

CONSTANTS Tools, MaxParallel, MaxTurns \* bounds: calls of a reply, turns

ASSUME DialectsAssumption == MaxParallel \in Nat /\ MaxTurns \in Nat

Dialects == {"openai", "gemini", "ollama", "prompted"}

VARIABLES request,  \* system: its blocks; cache_system; image: of the first message
          messages, \* assistant turns with calls, and the results of tools
          picture,  \* the image, once links are resolved
          provider, \* the dialect of the provider that was posted to
          body,     \* what it was posted: [system, cached, images, items]
          phase     \* who has the conversation

dialectVars == <<request, messages, picture, provider, body, phase>>

NoBody == [system |-> {}, cached |-> {}, images |-> {}, items |-> <<>>]

DialectsInit ==
  /\ request \in [system : SUBSET {"marked", "plain"}, cache_system : BOOLEAN,
                  image : {"none", "data", "image_url", "source"}]
  /\ messages = <<>> /\ picture = "none" /\ provider = "none" /\ body = NoBody
  /\ phase = "client"

Turns == Cardinality({k \in DOMAIN messages : messages[k].role = "assistant"})

----------------------------------------------------------------------------
(* A link in an image_url block is fetched, or the turn ends; a link in a  *)
(* block of another type stays one.                                        *)
Resolves ==
  /\ phase = "client"
  /\ \/ picture' = (IF request.image = "image_url" THEN "data" ELSE request.image) /\ phase' = "routing"
     \/ request.image = "image_url" /\ phase' = "over" /\ UNCHANGED picture
  /\ UNCHANGED <<request, messages, provider, body>>

(* The messages in a dialect.  Mutant: a call is given an id of the body.  *)
OpenAIItemFresh(m) ==
  IF m.role = "tool" THEN [result |-> m.id]
  ELSE [calls |-> [n \in DOMAIN m.calls |-> [id |-> <<"body", n>>, name |-> m.calls[n].name]]]

OpenAIItem(m) ==
  IF m.role = "tool" THEN [result |-> m.id]
  ELSE [calls |-> [n \in DOMAIN m.calls |-> [id |-> m.calls[n].id, name |-> m.calls[n].name]]]

(* Gemini's own signature of a call goes back to it.                       *)
GeminiItem(m) ==
  IF m.role = "tool" THEN [result |-> m.name]
  ELSE [calls |-> [n \in DOMAIN m.calls |-> [name |-> m.calls[n].name, signed |-> m.calls[n].signed]]]

(* A result is bare, or, in prose, gives an id that the call did not.      *)
OllamaItem(m, prompted) ==
  IF m.role = "tool" THEN [result |-> IF prompted THEN m.id ELSE "bare"]
  ELSE [calls |-> [n \in DOMAIN m.calls |-> [name |-> m.calls[n].name]]]

(* OpenAI is passed any image, the others the data of one.                 *)
ImageBlocks == {picture} \ {"none", "source"}

OpenAIBody ==
  [system |-> request.system, cached |-> {}, images |-> {picture} \ {"none"},
   items |-> [k \in DOMAIN messages |-> OpenAIItem(messages[k])]]

Cacheable ==
  IF "marked" \in request.system THEN {"marked"}
  ELSE IF request.cache_system THEN request.system ELSE {}

(* What is cached is not posted again.                                     *)
GeminiBody(cached) ==
  [system |-> request.system \ cached, cached |-> cached, images |-> ImageBlocks,
   items |-> [k \in DOMAIN messages |-> GeminiItem(messages[k])]]

OllamaBody(prompted) ==
  [system |-> request.system, cached |-> {}, images |-> ImageBlocks,
   items |-> [k \in DOMAIN messages |-> OllamaItem(messages[k], prompted)]]

(* A short text, or one that the cache has no content for, is not cached.  *)
BodiesFor(d, tools) ==
  CASE d = "openai" -> {OpenAIBody}
    [] d = "gemini" -> {GeminiBody({}), GeminiBody(Cacheable)}
    [] OTHER -> {OllamaBody(d = "prompted" /\ tools)}

Posts(d) ==
  /\ phase = "routing" /\ provider' = d /\ body' \in BodiesFor(d, TRUE)
  /\ phase' = "posted"
  /\ UNCHANGED <<request, messages, picture>>

(* A second body after a 400: OpenAI's messages begin with a hint, Gemini  *)
(* gets what the cached content held.                                      *)
HintsJson ==
  /\ phase \in {"posted", "fixing"} /\ provider = "openai"
  /\ body' = [body EXCEPT !.system = @ \cup {"hint"}]
  /\ UNCHANGED <<request, messages, picture, provider, phase>>

Uncaches ==
  /\ phase \in {"posted", "fixing", "streamed"} /\ provider = "gemini" /\ body.cached # {}
  /\ body' = [body EXCEPT !.cached = {}, !.system = request.system]
  /\ UNCHANGED <<request, messages, picture, provider, phase>>

(* A reply without calls that is not the JSON asked for: the provider is   *)
(* asked again, without tools.                                             *)
AsksForJson ==
  /\ phase = "posted" /\ body' \in BodiesFor(provider, FALSE) /\ phase' = "fixing"
  /\ UNCHANGED <<request, messages, picture, provider>>

Forgets == provider' = "none" /\ body' = NoBody

(* The provider failed and another one is posted to, or the second reply   *)
(* is returned, or is no JSON either.                                      *)
FailsOver ==
  /\ phase \in {"posted", "fixing"} /\ phase' = "routing" /\ Forgets
  /\ UNCHANGED <<request, messages, picture>>

Fixed ==
  /\ phase = "fixing" /\ phase' = "over" /\ Forgets
  /\ UNCHANGED <<request, messages, picture>>

(* A stream yields texts, and of calls at most an OpenAI wire's fragments. *)
StreamsText(d) ==
  /\ phase = "routing" /\ provider' = d /\ body' \in BodiesFor(d, TRUE)
  /\ phase' = "streamed"
  /\ UNCHANGED <<request, messages, picture>>

----------------------------------------------------------------------------
(* The calls of a reply.  An id of the provider's is unique in its reply   *)
(* alone; one that the gateway makes up is unique.                         *)
Fresh(n) == <<"call", Turns, n>>
Own(n) == <<"own", n>>

Call(id, name, signed) == [id |-> id, name |-> name, signed |-> signed]

Named(names, own, signed) ==
  [n \in DOMAIN names |-> Call(IF own THEN Own(n) ELSE Fresh(n), names[n], signed)]

OpenAICalls(names) == {Named(names, own, FALSE) : own \in BOOLEAN}
GeminiCalls(names) == {Named(names, FALSE, signed) : signed \in BOOLEAN}
OllamaCalls(names) == {Named(names, own, FALSE) : own \in BOOLEAN}

(* In prose there is one call or none: more are returned as a text.        *)
PromptedCalls(names) == IF Len(names) = 1 THEN {Named(names, FALSE, FALSE)} ELSE {<<>>}

CallsOf(d, names) ==
  CASE d = "openai" -> OpenAICalls(names) [] d = "gemini" -> GeminiCalls(names)
    [] d = "ollama" -> OllamaCalls(names) [] d = "prompted" -> PromptedCalls(names)

Replies(names) ==
  /\ phase = "posted" /\ Forgets
  /\ \E calls \in CallsOf(provider, names) :
       IF calls = <<>> \/ Turns = MaxTurns THEN phase' = "over" /\ UNCHANGED messages
       ELSE /\ messages' = Append(messages, [role |-> "assistant", calls |-> calls])
            /\ phase' = "tools"
  /\ UNCHANGED <<request, picture>>

(* The client answers the calls, in their order, by id and name.           *)
RunsTools ==
  LET calls == messages[Len(messages)].calls
  IN /\ phase = "tools" /\ phase' = "client"
     /\ messages' = messages \o [n \in DOMAIN calls |->
                                   [role |-> "tool", id |-> calls[n].id, name |-> calls[n].name]]
     /\ UNCHANGED <<request, picture, provider, body>>

DialectsNext ==
  \/ Resolves \/ HintsJson \/ Uncaches \/ AsksForJson \/ FailsOver \/ Fixed \/ RunsTools
  \/ \E d \in Dialects : Posts(d) \/ StreamsText(d)
  \/ \E l \in 0 .. MaxParallel : \E names \in [1 .. l -> Tools] : Replies(names)

----------------------------------------------------------------------------
(* The call of the latest turn that a reader of the body takes the k-th    *)
(* item for the result of: the one with its id, the next of its name, or   *)
(* the next.                                                               *)
TurnOf(items, k) == Max({j \in 1 .. k - 1 : "calls" \in DOMAIN items[j]})

AnsweredIn(k) ==
  LET j == TurnOf(body.items, k)
      calls == body.items[j].calls
      result(i) == body.items[i].result
      alike(i) == {n \in DOMAIN calls : n <= i /\ calls[n].name = result(k)}
      before == Cardinality({i \in j + 1 .. k : result(i) = result(k)})
  IN CASE provider = "openai" -> {n \in DOMAIN calls : calls[n].id = result(k)}
       [] provider = "gemini" -> {n \in DOMAIN calls : n \in alike(n) /\ Cardinality(alike(n)) = before}
       [] OTHER -> {k - j}

Answered(k) ==
  LET calls == messages[Max({j \in 1 .. k - 1 : messages[j].role = "assistant"})].calls
  IN {n \in DOMAIN calls : calls[n].id = messages[k].id}

(***************************************************************************)
(* Whichever providers served the turns before, whatever was retried with  *)
(* another body, and whatever their wire forms leave out: the provider     *)
(* that is asked now has the whole system prompt, once, and the image; it  *)
(* takes every result for the answer to the call it answers; and Gemini    *)
(* gets back the signatures of its own calls (ToolCall.provider_meta).     *)
(***************************************************************************)
ConversationIsWhole ==
  phase \in {"posted", "fixing", "streamed"} =>
    /\ body.system \cup body.cached \in {request.system, request.system \cup {"hint"}}
    /\ body.system \cap body.cached = {}
    /\ picture = "data" => body.images = {"data"}
    /\ \A k \in DOMAIN messages :
         IF messages[k].role = "tool" THEN AnsweredIn(k) = Answered(k)
         ELSE provider = "gemini" => \A n \in DOMAIN messages[k].calls :
                body.items[k].calls[n].signed = messages[k].calls[n].signed
=============================================================================
