------------------------- MODULE MCProviderRouting -------------------------
(***************************************************************************)
(* The gateway with one Gemini key and one OpenAI-shaped provider, one     *)
(* router, two embedders and a scaled clock.                               *)
(***************************************************************************)
EXTENDS ProviderRouting

MCGeminiNames == <<"g1", "g2">>
MCKeyOf == [q |-> "GROQ_API_KEY", o |-> "OLLAMA_MODEL"]
MCRouterKeyOf == [router |-> "GROQ_API_KEY"]
MCLlmOrder == <<"gemini", "q">>
MCTierToOrder == [TINY |-> <<"q", "gemini">>, LARGE |-> <<"gemini", "q">>]
MCRouterOrder == <<"router">>
MCEmbedNames == <<"ollama", "gemini">>

Of(rpm, rpd, tpm, cooldown, max_ctx) ==
  [rpm |-> rpm, rpd |-> rpd, tpm |-> tpm, cooldown |-> cooldown, max_ctx |-> max_ctx,
   tokens_per_day |-> 99]

MCLimits == [g1 |-> Of(1, 99, 99, 1, 9),
             q |-> Of(99, 1, 2, 2, 1), router |-> Of(99, 1, 2, 2, 1)]
MCClient == [g1 |-> "gemini", q |-> "groq"]
MCModel == [g1 |-> {"thinks", "sees"}, q |-> {"thinks"}]
MCBackoff == [e \in Errors |-> IF e = "rate_limited" THEN 2 ELSE IF e = "unauthorized" THEN 9 ELSE 1]
MCEmbedLimits == [ollama |-> [rpm |-> 0, cooldown |-> 0], gemini |-> [rpm |-> 1, cooldown |-> 1]]
MCBackoffSteps == <<1, 2>>

Ask(kind, provider, auto, cached) ==
  [kind |-> kind, provider |-> provider, agent_pin |-> "", auto |-> auto, asks |-> {},
   words |-> 1, chars |-> 4, images |-> 0, remote |-> FALSE, max_tokens |-> 0,
   cached |-> cached, override |-> <<>>]

Pooled == Ask("chat", "", FALSE, TRUE)
Pinned == [Ask("structured", "", FALSE, FALSE) EXCEPT !.agent_pin = "q", !.asks = {"reasoning"}]
Asks ==
  {Pooled, Pinned, Ask("chat", "", TRUE, TRUE),
   [Ask("chat", "", TRUE, FALSE) EXCEPT !.words = 6000],
   [Ask("chat", "nobody", FALSE, FALSE) EXCEPT !.images = 1, !.remote = TRUE],
   Ask("stream", "", FALSE, TRUE), Ask("embed", "", FALSE, FALSE)}
MCRequests == <<Asks, {Pooled, Pinned, Ask("embed", "gemini", FALSE, FALSE)}>>
=============================================================================
