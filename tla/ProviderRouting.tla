-------------------------- MODULE ProviderRouting --------------------------
(***************************************************************************)
(* How the gateway serves a request for a model: POST /v1/chat and its     *)
(* batch (glc/routes/chat.py), the router and its rate states              *)
(* (glc/routing.py), the clients' posts (glc/providers.py), the Gemini     *)
(* content cache (glc/cache.py) and the embedding ring (glc/embedders.py). *)
(*                                                                         *)
(* Requests share one event loop: a step lasts from one await to the next, *)
(* so that picking a provider and recording the call are one step.  Time   *)
(* may pass at every await; a sleep ends in the unit of time it is due in. *)
(***************************************************************************)
EXTENDS RateMeter, SequencesExt

CONSTANTS Calls,          \* the requests, numbered
          Batch,          \* ... those of one POST /v1/chat/batch, in order
          MaxConcurrency, \* ... and its limit
          Requests,       \* what each may ask for
          Environment,    \* the variables that are set
          GeminiNames, GeminiKeys, \* gemini_1, ...; the numbered keys' variables
          KeyOf, RouterKeyOf, \* variable that configures an instance, by pool
          EmbedNames,     \* EMBED_ORDER
          LlmOrder, TierToOrder, RouterOrder,
          Limits, Client, Model, \* of an instance; what a model can: "thinks", "sees"
          RouterTokens,   \* the estimate of a classification, 400
          Failures,       \* how a post may fail, of Errors
          Backoff,        \* _backoff_for, by failure
          TokenCounts,    \* what a reply may have used
          PinnedWait, LongestSleep, \* 30 and 5 seconds
          Ttl, Margin,    \* of a cached content, 300 and 5 seconds
          EmbedLimits, BackoffSteps,
          Boots, LastBegin, MaxTime \* bounds: the process starts, no request
                                    \* begins any more, the clock stops

Errors == {"bad_request", "unauthorized", "forbidden", "rate_limited", "upstream", "timeout",
           "other"}

ASSUME RoutingAssumption ==
  /\ Failures \subseteq Errors /\ Batch \subseteq Calls /\ Calls \subseteq Nat
  /\ Boots \subseteq Nat /\ Ttl \in Nat /\ Margin \in Nat /\ Margin < Ttl
  /\ MaxTime >= LastBegin + PinnedWait + LongestSleep
  /\ \A e \in {"rate_limited", "upstream", "timeout", "unauthorized", "forbidden"} : Backoff[e] > 0

VARIABLES now,
          meter,  \* Router.state and RouterPool.state
          embed,  \* EmbedRateState of each embedder
          cache,  \* GeminiCache, for the one system prompt that is long enough:
                  \* the expiry it stored, when Gemini drops the content
          call,   \* where each request is
          begun   \* history: when each instance was picked

vars == <<now, meter, embed, cache, call, begun>>

-----------------------------------------------------------------------------
(* The elements of a sequence that are in S, in order: as a recursive      *)
(* function, which the provers can follow.                                 *)
Among(seq, S) ==
  LET kept[k \in 0 .. Len(seq)] ==
        IF k = 0 THEN <<>> ELSE IF seq[k] \in S THEN Append(kept[k - 1], seq[k]) ELSE kept[k - 1]
  IN kept[Len(seq)]

(* What is configured: an instance for every key that is set.  The keys of *)
(* Gemini are numbered as they are found; without a numbered one the old   *)
(* single key makes a pool of one.  The routers use the workers' keys.     *)
GeminiPool ==
  LET keys == Cardinality(GeminiKeys \cap Environment)
      size == IF keys = 0 /\ "GEMINI_API_KEY" \in Environment THEN 1 ELSE keys
  IN SubSeq(GeminiNames, 1, size)

Workers == ToSet(GeminiPool) \cup {p \in DOMAIN KeyOf : KeyOf[p] \in Environment}

Routers == {p \in DOMAIN RouterKeyOf : RouterKeyOf[p] \in Environment}

(* A provider that is in both pools has two instances of its own models,   *)
(* and a RateState in each pool: they go by different names here.          *)
ASSUME PoolsAssumption == Workers \cap Routers = {}

(* Every name there is has its limits.  Nobody cools down for longer than  *)
(* a pinned request would wait: 6 seconds at most, of 30.                  *)
ASSUME LimitsAssumption ==
  /\ PinnedWait \in Nat
  /\ \A p \in Workers \cup Routers :
       /\ Limits[p].rpm \in Nat /\ Limits[p].rpd \in Nat
       /\ Limits[p].cooldown \in 0 .. PinnedWait

(* A name for every key of Gemini; the orders are lists of names.          *)
ASSUME OrdersAssumption ==
  /\ IsFiniteSet(GeminiKeys) /\ GeminiNames \in Seq(STRING)
  /\ Len(GeminiNames) >= 1 /\ Cardinality(GeminiKeys) <= Len(GeminiNames)
  /\ LlmOrder \in Seq(STRING)
  /\ \A tier \in {"TINY", "LARGE"} : tier \in DOMAIN TierToOrder /\ TierToOrder[tier] \in Seq(STRING)

(* Ollama's embedder needs no key, Gemini's has only the single one.       *)
Embedders == {"ollama"} \cup (IF "GEMINI_API_KEY" \in Environment THEN {"gemini"} ELSE {})

EmbedOrder == SelectSeq(EmbedNames, LAMBDA e : e \in Embedders)

(* What an instance is said to offer: tools and structured answers always; *)
(* to see images as the name of its model hints.  To reason as its model   *)
(* can, but an instance of Gemini is called gemini_1, not gemini, and      *)
(* keeps what its class claims.                                            *)
Capabilities ==
  [p \in Workers |->
     {"tools", "structured"}
       \cup (IF Client[p] = "gemini" \/ ("thinks" \in Model[p] /\ Client[p] # "ollama")
             THEN {"reasoning"} ELSE {})
       \cup (IF "sees" \in Model[p] /\ Client[p] # "cerebras" THEN {"vision"} ELSE {})]

NewCall ==
  [pc |-> "new", req |-> [kind |-> "none"], plan |-> <<>>, left |-> <<>>, tries |-> 0,
   at |-> "none", phase |-> "none", body |-> {}, stage |-> 0, content |-> 0,
   since |-> 0, wake |-> 0, deadline |-> 0, failed |-> {}, end |-> "none"]

NewEmbedder == [calls_minute |-> <<>>, last_call |-> Never, unavailable_until |-> 0, step |-> 0]

Init ==
  /\ now \in Boots
  /\ meter = [p \in Workers \cup Routers |-> NewMeter(now)]
  /\ embed = [e \in Embedders |-> NewEmbedder]
  /\ cache = [expires |-> 0, dropped |-> 0]
  /\ call = [c \in Calls |-> NewCall]
  /\ begun = [p \in Workers \cup Routers |-> <<>>]

Goto(c, r) == call' = [call EXCEPT ![c] = r]

(* Only a request that found nobody is remembered with what it tried.      *)
Ends(c, r, how) ==
  Goto(c, IF how = "unavailable"
          THEN [NewCall EXCEPT !.pc = "ended", !.end = how, !.req = r.req, !.plan = r.plan,
                               !.failed = r.failed, !.deadline = r.deadline]
          ELSE [NewCall EXCEPT !.pc = "ended", !.end = how])

-----------------------------------------------------------------------------
(* The router.  expand: the instances of each name, in order, once.        *)
InstancesOf(name) ==
  IF name \in Workers THEN <<name>> ELSE IF name = "gemini" THEN GeminiPool ELSE <<>>

Expand(names) ==
  LET out[k \in 0 .. Len(names)] ==
        IF k = 0 THEN <<>>
        ELSE out[k - 1] \o Among(InstancesOf(names[k]), Workers \ ToSet(out[k - 1]))
  IN out[Len(names)]

(* The provider a request names, itself or through its agent's pin.        *)
Named(req) ==
  IF req.provider = "" /\ req.agent_pin \in Workers THEN req.agent_pin ELSE req.provider

Explicit(req) == Named(req) # ""

(* What a request needs of its provider, and its tokens: a fourth of its   *)
(* characters, an image standing for 1200, and the answer's limit.         *)
RequiredCaps(req) ==
  (req.asks \cap {"tools", "reasoning"})
    \cup (IF req.kind = "structured" THEN {"structured"} ELSE {})
    \cup (IF req.images > 0 THEN {"vision"} ELSE {})

EstTokens(req) == (req.chars + 1200 * req.images) \div 4 + req.max_tokens

Fits(p, req) ==
  EstTokens(req) <= Limits[p].max_ctx /\ RequiredCaps(req) \subseteq Capabilities[p]

Usable(p, req, meters) == Fits(p, req) /\ CanUse(meters[p], Limits[p], EstTokens(req), now)

(* Mutant: only the first candidate is asked.                              *)
PickFirst(r, meters) == IF r.left # <<>> /\ Usable(r.left[1], r.req, meters) THEN 1 ELSE 0

(* pick asks the meters of the candidates in order, up to the first it     *)
(* takes; asking one drops what has left its windows.                      *)
Pick(r, meters) == SelectInSeq(r.left, LAMBDA p : Usable(p, r.req, meters))

Asked(r, meters, i) ==
  LET seen == {r.left[j] : j \in 1 .. (IF i = 0 THEN Len(r.left) ELSE i)}
  IN [p \in DOMAIN meters |-> IF p \in seen /\ Fits(p, r.req) THEN Cleaned(meters[p], now)
                                                              ELSE meters[p]]

-----------------------------------------------------------------------------
(* What the clients post besides the messages, to the request's model or   *)
(* the instance's own.  Reasoning is left out of the call that repairs a   *)
(* reply, and for a model that cannot.                                     *)
ModelOf(r) == IF r.req.override = <<>> THEN Model[r.at] ELSE r.req.override[1]

Thought(r) ==
  IF r.phase = "fix" \/ Client[r.at] = "ollama" \/ "thinks" \notin ModelOf(r) THEN {}
  ELSE r.req.asks \cap {"reasoning"}

Format(r) == IF r.req.kind = "structured" THEN {"schema"} ELSE {}

FirstBody(r) == Format(r) \cup Thought(r)

(* provider.chat, up to its first await: the Gemini client looks for the   *)
(* system prompt's cached content, and asks for a new one when it has none *)
(* that stays for the margin; the others post at once.                     *)
EnterChat(c, r) ==
  LET post == [r EXCEPT !.pc = "posting", !.body = FirstBody(r), !.stage = 0, !.content = 0,
                        !.since = 0]
  IN IF Client[r.at] # "gemini" \/ ~r.req.cached
     THEN Goto(c, post) /\ UNCHANGED cache
     ELSE IF cache.expires > now + Margin
     THEN /\ Goto(c, [post EXCEPT !.body = @ \cup {"cached"}, !.content = cache.dropped,
                                  !.since = now])
          /\ UNCHANGED cache
     ELSE /\ Goto(c, [post EXCEPT !.pc = "minting", !.body = {}, !.since = now])
          /\ cache' = [expires |-> 0, dropped |-> 0]

(* One turn of the loop over candidates, from its pick to its first await. *)
(* A stream is returned as soon as its provider is chosen: nobody is asked *)
(* before the stream is read.                                              *)
Attempt(c, r, meters) ==
  LET i == IF r.tries = 0 THEN 0 ELSE Pick(r, meters)
      p == r.left[i]
      s == [r EXCEPT !.at = p, !.tries = @ - 1, !.phase = "first"]
  IN IF i = 0
     THEN /\ Ends(c, r, "unavailable")
          /\ meter' = IF r.tries = 0 THEN meters ELSE Asked(r, meters, 0)
          /\ UNCHANGED <<cache, begun>>
     ELSE /\ meter' = [Asked(r, meters, i) EXCEPT ![p] = Recorded(@, now)]
          /\ begun' = [begun EXCEPT ![p] = Append(@, now)]
          /\ IF r.req.kind = "stream"
             THEN Goto(c, [s EXCEPT !.pc = "streaming"]) /\ UNCHANGED cache
             ELSE EnterChat(c, s)

Over(r, candidates) ==
  [r EXCEPT !.plan = candidates, !.left = candidates, !.tries = Len(candidates) + 1]

(* The loop that waits for one named provider to cool down.                *)
PinnedTurn(c, r) ==
  LET p  == r.left[1]
      cd == CooldownLeft(meter[p], Limits[p], now)
  IN IF now < r.deadline /\ Pick(r, meter) = 0 /\ cd > 0 /\ cd <= PinnedWait
     THEN /\ Goto(c, [r EXCEPT !.pc = "waiting",
                               !.wake = now + (IF cd < LongestSleep THEN cd ELSE LongestSleep)])
          /\ meter' = [meter EXCEPT ![p] = Cleaned(@, now)]
          /\ UNCHANGED <<cache, begun>>
     ELSE Attempt(c, r, meter)

(* The count of tokens the tier depends on: 1.4 for every word.            *)
EstimateTokens(req) == (7 * req.words) \div 5

TierFromCount(n) == IF n > 8000 THEN "HUGE" ELSE IF n >= 1000 THEN "LARGE" ELSE "TINY"

(* The turn of _classify_tier that asks the first usable router of rest;   *)
(* without one the count of tokens decides.                                *)
TierWorkers == [tier \in DOMAIN TierToOrder |-> Among(TierToOrder[tier], Workers)]

Tiered(r, tier) == Over(r, TierWorkers[tier])

Candidates == SelectSeq(RouterOrder, LAMBDA p : p \in Routers)

Classify(c, r, rest, meters) ==
  LET i == SelectInSeq(rest, LAMBDA p : CanUse(meters[p], Limits[p], RouterTokens, now))
  IN IF i = 0
     THEN Attempt(c, Tiered(r, TierFromCount(EstimateTokens(r.req))), meters)
     ELSE /\ Goto(c, [r EXCEPT !.pc = "classifying", !.at = rest[i],
                               !.left = SubSeq(rest, i + 1, Len(rest))])
          /\ meter' = [meters EXCEPT ![rest[i]] = Recorded(Cleaned(@, now), now)]
          /\ begun' = [begun EXCEPT ![rest[i]] = Append(@, now)]
          /\ UNCHANGED cache

EnterRouting(c, r) ==
  IF r.req.auto /\ ~Explicit(r.req)
  THEN IF TierFromCount(EstimateTokens(r.req)) = "HUGE"
       THEN Ends(c, r, "too_long") /\ UNCHANGED <<meter, cache, begun>>
       ELSE Classify(c, r, Candidates, meter)
  ELSE LET s == Over(r, Expand(IF Explicit(r.req) THEN <<Named(r.req)>> ELSE LlmOrder))
       IN IF Explicit(r.req) /\ s.plan = <<>>
          THEN Ends(c, r, "unknown") /\ UNCHANGED <<meter, cache, begun>>
          ELSE IF Explicit(r.req) /\ Len(s.plan) = 1
          THEN PinnedTurn(c, [s EXCEPT !.deadline = now + PinnedWait])
          ELSE Attempt(c, s, meter)

(* An image that is elsewhere is fetched before anything else is looked at.*)
BeginChat(c, r) ==
  IF r.req.remote THEN Goto(c, [r EXCEPT !.pc = "fetching"]) /\ UNCHANGED <<meter, cache, begun>>
                  ELSE EnterRouting(c, r)

ImagesCome(c) ==
  /\ call[c].pc = "fetching"
  /\ EnterRouting(c, call[c])
  /\ UNCHANGED <<now, embed>>

ImageMissing(c) ==
  /\ call[c].pc = "fetching"
  /\ Ends(c, call[c], "bad_image")
  /\ UNCHANGED <<now, meter, embed, cache, begun>>

-----------------------------------------------------------------------------
(* embed_with_failover: the first embedder of left that its rate state     *)
(* allows; a named one is the only one.                                    *)
EmbedReady(e) ==
  LET m == embed[e]
      recent == SelectSeq(m.calls_minute, LAMBDA t : t >= now - Window)
  IN /\ now >= m.unavailable_until
     /\ EmbedLimits[e].cooldown <= now - m.last_call
     /\ EmbedLimits[e].rpm > 0 => Len(recent) < EmbedLimits[e].rpm

EmbeddersFor(req) == SelectSeq(EmbedOrder, LAMBDA e : req.provider \in {"", e})

EmbedFrom(c, r, left) ==
  LET i == SelectInSeq(left, EmbedReady)
  IN IF i = 0
     THEN Ends(c, r, IF r.req.provider = "" THEN "unavailable"
                     ELSE IF left = <<>> THEN "unknown" ELSE "rate_limited")
     ELSE Goto(c, [r EXCEPT !.pc = "embedding", !.at = left[i],
                            !.left = SubSeq(left, i + 1, Len(left))])

(* The semaphore of a batch lets its calls in in their order.              *)
Admitted(c) ==
  c \in Batch =>
    /\ Cardinality({b \in Batch : call[b].pc \notin {"new", "ended"}}) < MaxConcurrency
    /\ \A b \in Batch : b < c => call[b].pc # "new"

Enters(c, r) ==
  \/ /\ r.req.kind = "embed"
     /\ IF r.req.chars > 8000 THEN Ends(c, r, "too_long") ELSE EmbedFrom(c, r, EmbeddersFor(r.req))
     /\ UNCHANGED <<meter, cache, begun>>
  \/ r.req.kind # "embed" /\ BeginChat(c, r)

Begin(c) ==
  /\ call[c].pc = "new" /\ now <= LastBegin /\ Admitted(c)
  /\ \E req \in Requests[c] : Enters(c, [call[c] EXCEPT !.req = req])
  /\ UNCHANGED <<now, embed>>

-----------------------------------------------------------------------------
(* A router's reply: a tier, no tier, or an exception.  HUGE is looked for *)
(* first, and counts as LARGE: the count was below the limit.  An          *)
(* exception leaves no backoff.                                            *)
ParsedTier(words) ==
  IF words \cap {"HUGE", "LARGE"} # {} THEN "LARGE" ELSE IF "TINY" \in words THEN "TINY" ELSE "none"

RouterReplies(c) ==
  LET r == call[c]
  IN /\ r.pc = "classifying"
     /\ \E words \in {{"TINY"}, {"HUGE", "TINY"}, {}}, n \in TokenCounts :
          LET meters == [meter EXCEPT ![r.at] = WithTokens(@, n, now)]
              reply  == ParsedTier(words)
          IN IF reply = "none" THEN Classify(c, r, r.left, meters)
                               ELSE Attempt(c, Tiered(r, reply), meters)
     /\ UNCHANGED <<now, embed>>

RouterFails(c) ==
  /\ call[c].pc = "classifying"
  /\ Classify(c, call[c], call[c].left, meter)
  /\ UNCHANGED <<now, embed>>

(* The pinned loop wakes when its sleep is over.                           *)
PinnedWakes(c) ==
  /\ call[c].pc = "waiting" /\ now >= call[c].wake
  /\ PinnedTurn(c, call[c])
  /\ UNCHANGED <<now, embed>>

-----------------------------------------------------------------------------
(* Mutant: the cache counts from the answer.                               *)
StoredExpiryLate(r) == now + Ttl

(* The client of a provider.  Gemini mints the content when the request    *)
(* reaches it, at some time since it was sent; the cache counts from the   *)
(* time it looked.  Without content the whole system prompt is posted.     *)
StoredExpiry(r) == r.since + Ttl

MintEnds(c) ==
  LET r == [call[c] EXCEPT !.pc = "posting", !.body = FirstBody(call[c])]
  IN /\ call[c].pc = "minting"
     /\ \/ \E minted \in call[c].since .. now :
             /\ cache' = [expires |-> StoredExpiry(call[c]), dropped |-> minted + Ttl]
             /\ Goto(c, [r EXCEPT !.body = @ \cup {"cached"}, !.content = minted + Ttl])
        \/ Goto(c, [r EXCEPT !.since = 0]) /\ UNCHANGED cache
     /\ UNCHANGED <<now, meter, embed, begun>>

(* What a client posts again with, after a failure: the body and how far   *)
(* its list of remedies it is.  The failure's text decides which complaint *)
(* it is.  The OpenAI client leaves reasoning out, replaces a schema       *)
(* whatever the status, and names JSON in the messages.                    *)
OpenAIRemedies(r, failure) ==
  (IF r.stage = 0 /\ "reasoning" \in r.body THEN {<<r.body \ {"reasoning"}, 1>>} ELSE {})
  \cup (IF r.stage < 2 /\ "schema" \in r.body
        THEN {<<(r.body \ {"schema"}) \cup {"object"}, 2>>} ELSE {})
  \cup (IF r.stage < 3 /\ "object" \in r.body /\ failure = "bad_request"
        THEN {<<r.body, 3>>} ELSE {})

(* The Gemini client posts once more after a bad request, without          *)
(* reasoning, and without the cached content if the answer speaks of it.   *)
GeminiRemedies(r, failure) ==
  IF r.stage = 0 /\ failure = "bad_request"
  THEN {<<r.body \ quirks, 3>> : quirks \in {{"reasoning"}, {"reasoning", "cached"}}}
  ELSE {}

(* The OpenAI client has no remedies for a stream.                         *)
Remedies(r, failure) ==
  CASE Client[r.at] = "gemini" -> GeminiRemedies(r, failure)
    [] Client[r.at] = "ollama" \/ r.req.kind = "stream" -> {}
    [] OTHER -> OpenAIRemedies(r, failure)

(* A client that has a remedy for every answer of this kind must use it.   *)
Raises(r, failure) ==
  \/ failure \in {"timeout", "other"}
  \/ CASE Client[r.at] = "gemini" -> ~(r.stage = 0 /\ failure = "bad_request")
       [] Client[r.at] = "ollama" -> TRUE
       [] OTHER -> ~(r.stage < 2 /\ "schema" \in r.body)

PostsAgain(c) ==
  LET r == call[c]
  IN /\ r.pc = "posting"
     /\ \E failure \in Failures \ {"timeout"} : \E remedy \in Remedies(r, failure) :
          Goto(c, [r EXCEPT !.body = remedy[1], !.stage = remedy[2]])
     /\ UNCHANGED <<now, meter, embed, cache, begun>>

-----------------------------------------------------------------------------
(* chat has its reply.  A structured one that does not validate is asked   *)
(* for once more, and then given up; only a reply that is returned counts  *)
(* its tokens.                                                             *)
Served(c) ==
  LET r == call[c]
  IN /\ r.pc = "posting" /\ r.req.kind # "stream"
     /\ \E n \in TokenCounts :
          /\ meter' = [meter EXCEPT ![r.at] = WithTokens(@, n, now)]
          /\ Ends(c, r, "served")
     /\ UNCHANGED <<now, embed, cache, begun>>

Misformed(c) ==
  LET r == call[c]
  IN /\ r.pc = "posting" /\ r.req.kind = "structured"
     /\ IF r.phase = "fix" THEN Ends(c, r, "invalid") /\ UNCHANGED cache
                           ELSE EnterChat(c, [r EXCEPT !.phase = "fix"])
     /\ UNCHANGED <<now, meter, embed, begun>>

Transient(failure) == failure \in {"upstream", "timeout"}

(* A failure that ends the call: a provider the request named, or a status *)
(* its client calls not retryable.                                         *)
Fatal(r, failure) ==
  \/ Explicit(r.req)
  \/ (failure \in {"bad_request", "unauthorized"} /\ Client[r.at] # "ollama")

BackoffFor(r, failure) ==
  IF failure \in {"bad_request", "other"}
     \/ (failure \in {"unauthorized", "forbidden"} /\ r.req.override # <<>>)
  THEN 0 ELSE Backoff[failure]

(* provider.chat raises: a transient failure of the first try is followed  *)
(* by one more try of the same provider, after a pause; any other takes    *)
(* the provider out of the call.                                           *)
Without(left, p) == Among(left, ToSet(left) \ {p})

ChatRaises(c) ==
  LET r == call[c]
  IN /\ r.pc = "posting" /\ r.req.kind # "stream"
     /\ \E failure \in Failures :
          /\ Raises(r, failure)
          /\ IF r.phase = "first" /\ Transient(failure)
             THEN /\ Goto(c, [r EXCEPT !.pc = "pausing", !.body = {}, !.stage = 0])
                  /\ UNCHANGED <<meter, cache, begun>>
             ELSE LET secs == BackoffFor(r, failure)
                      meters == IF secs = 0 THEN meter
                                ELSE [meter EXCEPT ![r.at] = MarkedUnavailable(@, secs, now)]
                      s == [r EXCEPT !.failed = @ \cup {r.at}, !.left = Without(@, r.at)]
                  IN IF Fatal(r, failure)
                     THEN /\ Ends(c, s, "failed") /\ meter' = meters
                          /\ UNCHANGED <<cache, begun>>
                     ELSE Attempt(c, s, meters)
     /\ UNCHANGED <<now, embed>>

(* Mutant: the second try does not count as one.                           *)
TriesAgainForever(c) ==
  /\ call[c].pc = "pausing"
  /\ EnterChat(c, call[c])
  /\ UNCHANGED <<now, meter, embed, begun>>

TriesAgain(c) ==
  /\ call[c].pc = "pausing"
  /\ EnterChat(c, [call[c] EXCEPT !.phase = "second"])
  /\ UNCHANGED <<now, meter, embed, begun>>

(* A stream that is read asks its provider; those of Gemini and Ollama     *)
(* make one whole call of chat.  Nobody reads the streams of a batch.      *)
StreamRuns(c) ==
  /\ call[c].pc = "streaming" /\ c \notin Batch
  /\ EnterChat(c, call[c])
  /\ UNCHANGED <<now, meter, embed, begun>>

(* It ends well, in an error event or with its reader, at any await; none  *)
(* of them reaches the router.                                             *)
StreamEnds(c) ==
  /\ call[c].pc \in {"streaming", "minting", "posting"} /\ call[c].req.kind = "stream"
  /\ Ends(c, call[c], "streamed")
  /\ UNCHANGED <<now, meter, embed, cache, begun>>

(* An embedder answers with a vector, or raises: any other status, no      *)
(* vector, no answer.  A success is recorded now and clears the backoff, a *)
(* failure waits one step longer than the last.                            *)
EmbedRecorded(m) ==
  [calls_minute |-> Append(SelectSeq(m.calls_minute, LAMBDA t : t >= now - Window), now),
   last_call |-> now, unavailable_until |-> 0, step |-> 0]

EmbedFailed(m) ==
  LET steps == Len(BackoffSteps)
      secs  == BackoffSteps[IF m.step < steps THEN m.step + 1 ELSE steps]
  IN [m EXCEPT !.step = IF @ < steps THEN @ + 1 ELSE @, !.unavailable_until = now + secs]

EmbedReturns(c) ==
  LET r == call[c]
  IN /\ r.pc = "embedding"
     /\ embed' = [embed EXCEPT ![r.at] = EmbedRecorded(@)]
     /\ Ends(c, r, "served")
     /\ UNCHANGED <<now, meter, cache, begun>>

EmbedRaises(c) ==
  LET r == call[c]
  IN /\ r.pc = "embedding"
     /\ embed' = [embed EXCEPT ![r.at] = EmbedFailed(@)]
     /\ IF r.req.provider # "" THEN Ends(c, r, "failed") ELSE EmbedFrom(c, r, r.left)
     /\ UNCHANGED <<now, meter, cache, begun>>

-----------------------------------------------------------------------------
(* Sleeps end in time; the clock stops with the last request.              *)
Tick ==
  /\ now < MaxTime /\ \E c \in Calls : call[c].pc # "ended"
  /\ \A c \in Calls : call[c].pc = "waiting" => now < call[c].wake
  /\ now' = now + 1
  /\ UNCHANGED <<meter, embed, cache, call, begun>>

Answer(c) ==
  \/ ImagesCome(c) \/ ImageMissing(c) \/ RouterReplies(c) \/ RouterFails(c) \/ PinnedWakes(c) \/ MintEnds(c) \/ PostsAgain(c)
  \/ Served(c) \/ Misformed(c) \/ ChatRaises(c) \/ TriesAgain(c)
  \/ StreamRuns(c) \/ StreamEnds(c)
  \/ EmbedReturns(c) \/ EmbedRaises(c)

Next == Tick \/ \E c \in Calls : Begin(c) \/ Answer(c)

(* Every request to a provider has a timeout, and sleeps are finite.       *)
Fairness == WF_vars(Tick) /\ \A c \in Calls : WF_vars(Answer(c))

Spec == Init /\ [][Next]_vars /\ Fairness

-----------------------------------------------------------------------------
Times(p, since) == Cardinality({i \in DOMAIN begun[p] : begun[p][i] >= since})

(* The pool of an instance picks it at most rpm times in any minute, bounds*)
(* included, and at most rpd times in a calendar day, wherever in the day  *)
(* the process started: the picks are what RateState counts.  What a pick  *)
(* posts besides its first request (the second try of a failure, a body    *)
(* without its quirks, the repair of a reply) is in no limit.              *)
PicksWithinLimits ==
  \A p \in Workers \cup Routers :
    /\ Times(p, now - Window) <= Limits[p].rpm
    /\ Times(p, DayStart(now)) <= Limits[p].rpd

(* The 503 of chat is true: every candidate failed in this very call or    *)
(* cannot be used at this moment; a named provider that is only cooling    *)
(* down was waited for until the deadline (chat, the loops over pick).     *)
UnavailableIsTrue ==
  [][\A c \in Calls :
       LET r == call'[c]
       IN call[c].pc # "ended" /\ r.end = "unavailable" /\ r.req.kind # "embed" =>
            \A p \in ToSet(r.plan) :
              \/ p \in r.failed
              \/ ~Fits(p, r.req)
              \/ ~WithinLimits(meter'[p], Limits[p], EstTokens(r.req), now)
              \/ /\ CooldownLeft(meter'[p], Limits[p], now) > 0
                 /\ (Explicit(r.req) /\ Len(r.plan) = 1) => now >= r.deadline]_vars

(* A post names only a cached content that Gemini holds for more than the  *)
(* margin after the request looked for one: found or minted, and however   *)
(* long the mint that stored it took, the post, the one that repeats it and*)
(* those of a stream find it there if they leave within the margin         *)
(* (cache.py, get_or_create).  One that leaves later, such as the post that*)
(* repeats a request whose refusal took long to come, may name one that is *)
(* gone: the client leaves the name out only for a refusal that says so.   *)
CachedNameAlive ==
  \A c \in Calls : "cached" \in call[c].body => call[c].since + Margin < call[c].content

(* Every request ends, whatever fails, and however long it had to wait.    *)
RequestsEnd == \A c \in Calls : (call[c].pc # "new") ~> (call[c].pc = "ended")
=============================================================================
