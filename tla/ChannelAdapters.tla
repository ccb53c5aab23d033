--------------------------- MODULE ChannelAdapters --------------------------
(***************************************************************************)
(* The adapters of the other channels (glc/channels/catalogue/*/adapter.py)*)
(* and the processes that drive them: on_message turns an event into an    *)
(* envelope or drops it, the gateway (or, for LINE, the agent) is asked,   *)
(* and send carries the answer back.  Handlers of several events overlap,  *)
(* and meet in what an adapter remembers of its conversations.             *)
(*                                                                         *)
(* A behaviour is about one channel, whose processes share nothing with    *)
(* another's but the pairing store, which is keyed by channel.  Its events *)
(* are numbered in the order of their arrival.                             *)
(***************************************************************************)
EXTENDS ChannelGateway

CONSTANTS MaxEvents, Wire, \* bound: events; the [user, place, mentioned] of each
          Delivery         \* LINE: the webhook call an event came in

ASSUME AdaptersAssumption == MaxEvents \in Nat /\ \A i \in 1 .. MaxEvents : Wire[i].user \in Senders

Events == 1 .. MaxEvents

VARIABLES channel,        \* the channel's name, and its adapter's configuration:
          config,         \* is_public_channel, was_mentioned, the opt-in checks
          at,             \* where an event is
          told,           \* history: [to, final] of each text sent for an event
          conv_cache,     \* Teams: the event whose conversation a user gets
          reply_tokens,   \* LINE: the event whose reply token a user has
          offset, owner_id, \* Telegram: next update; whether an owner is known
          link            \* the bridge's socket: whether open, and its owners

adapterVars == <<channel, config, at, told, conv_cache, reply_tokens, offset, owner_id, link>>
bridgeVars == <<conv_cache, reply_tokens, offset, owner_id, link>>

Names == {"telegram", "discord", "slack", "webui", "webhook", "line", "signal", "teams",
          "matrix", "twilio_sms", "imap", "local_mic"}
NoEvent == 0

AdaptersInit ==
  /\ channel \in Names
  /\ config \in [public : BOOLEAN, mentioned : BOOLEAN, strict : BOOLEAN]
  /\ at = [i \in Events |-> "new"] /\ told = [i \in Events |-> <<>>]
  /\ conv_cache = [u \in Senders |-> NoEvent] /\ reply_tokens = [u \in Senders |-> NoEvent]
  /\ offset = 1 /\ owner_id \in BOOLEAN
  /\ link = [open |-> TRUE, owners |-> owners]

User(i) == Wire[i].user
Level(i) == pairings[User(i)]     \* classify
Passes(i, mentioned) == Allowed(User(i), owners, TRUE, mentioned)

----------------------------------------------------------------------------
(* What on_message makes an envelope of.  An event that is no message, or  *)
(* is not signed, or has no field it needs, is dropped besides.            *)

Telegram(i) == config.public => Passes(i, config.mentioned)

(* Messages of bots may be dropped, and direct ones be asked about, too.   *)
Discord(i) ==
  config.public \/ config.strict
    => Allowed(User(i), owners, config.public, Wire[i].mentioned)

Slack(i) == config.public => Level(i) # "none"

WebUi(i) == TRUE

Webhook(i) == config.public => Passes(i, config.mentioned)

Line(i) ==
  config.public /\ Level(i) = "none" => Allowed(User(i), {}, TRUE, config.mentioned)

Signal(i) == config.public => Passes(i, FALSE)

Teams(i) == config.public => Passes(i, Wire[i].mentioned)

(* Its owners are the sender, if he is one.                                *)
Matrix(i) ==
  config.public =>
    Allowed(User(i), {u \in {User(i)} : Level(i) = "owner_paired"}, TRUE, Wire[i].mentioned)

(* Whom the gate refuses is marked untrusted, which the gateway only logs. *)
TwilioSms(i) == TRUE

Imap(i) == config.public => Level(i) # "none"

(* Silence and an empty transcript are dropped as well.                    *)
LocalMic(i) == config.public => Passes(i, Wire[i].mentioned)

Takes(i) ==
  CASE channel = "telegram" -> Telegram(i) [] channel = "discord" -> Discord(i)
    [] channel = "slack" -> Slack(i)       [] channel = "webui" -> WebUi(i)
    [] channel = "webhook" -> Webhook(i)   [] channel = "signal" -> Signal(i)
    [] channel = "teams" -> Teams(i)       [] channel = "matrix" -> Matrix(i)
    [] channel = "twilio_sms" -> TwilioSms(i) [] channel = "imap" -> Imap(i)
    [] channel = "local_mic" -> LocalMic(i)

(* Where send carries an answer: most to the user, whoever else is there.  *)
Unaddressed == "unaddressed"

TelegramTo(i) == User(i)

(* The transport knows the channel, the room or the socket, or nobody does.*)
DiscordTo(i) == Unaddressed
MatrixTo(i) == Unaddressed
WebUiTo(i) == Unaddressed

(* Without a test's events to look at, a fixed channel.                    *)
SlackTo(i) == "C01CHAN"

WebhookTo(i) == User(i)

(* The group, if the reply names one; the driver gives it the message's.   *)
SignalTo(i) == Wire[i].place

TeamsTo(i) == Wire[conv_cache[User(i)]].place

TwilioSmsTo(i) == User(i)

ImapTo(i) == User(i)

LocalMicTo(i) == User(i)

Address(i) ==
  CASE channel = "telegram" -> TelegramTo(i) [] channel = "discord" -> DiscordTo(i)
    [] channel = "slack" -> SlackTo(i)       [] channel = "webui" -> WebUiTo(i)
    [] channel = "webhook" -> WebhookTo(i)   [] channel = "signal" -> SignalTo(i)
    [] channel = "teams" -> TeamsTo(i)       [] channel = "matrix" -> MatrixTo(i)
    [] channel = "twilio_sms" -> TwilioSmsTo(i) [] channel = "imap" -> ImapTo(i)
    [] channel = "local_mic" -> LocalMicTo(i)

Becomes(i, pc) == at' = [at EXCEPT ![i] = pc]
Told(i, to, final) == told' = [told EXCEPT ![i] = Append(@, [to |-> to, final |-> final])]

----------------------------------------------------------------------------
(* Telegram's poller: the offset has passed an update before it is handled;*)
(* without an owner's id, the first sender is paired as one.               *)
TelegramPolls(i) ==
  /\ channel = "telegram" /\ offset = i /\ \A j \in Events : at[j] # "polled"
  /\ offset' = i + 1 /\ Becomes(i, "polled")
  /\ owner_id' = TRUE
  /\ IF owner_id THEN UNCHANGED pairings
     ELSE pairings' = [pairings EXCEPT ![User(i)] = "owner_paired"]
  /\ UNCHANGED <<channel, config, told, conv_cache, reply_tokens, link>>

Arrived(i) ==
  /\ channel # "line"
  /\ at[i] = IF channel = "telegram" THEN "polled" ELSE "new"

(* on_message; Teams remembers the conversation of what it takes.          *)
Receives(i) ==
  /\ Arrived(i) /\ link.open /\ Takes(i) /\ Becomes(i, "taken")
  /\ IF channel = "teams" THEN conv_cache' = [conv_cache EXCEPT ![User(i)] = i]
     ELSE UNCHANGED conv_cache
  /\ UNCHANGED <<channel, config, told, reply_tokens, offset, owner_id, link, pairings>>

(* Dropped, or on_message or the forwarding raised.                        *)
Drops(i) ==
  /\ Arrived(i) /\ Becomes(i, "dropped")
  /\ UNCHANGED <<channel, config, told, bridgeVars, pairings>>

(* The gateway decides by the owners it knows for this connection, and by  *)
(* what three adapters tell it of the conversation.  It limits and answers.*)
Relays(i) ==
  LET public == config.public /\ channel \in {"telegram", "webhook", "local_mic"}
      mentioned == IF channel = "local_mic" THEN Wire[i].mentioned ELSE config.mentioned
      known == IF channel \in {"webhook", "twilio_sms"} THEN owners ELSE link.owners
  IN /\ at[i] = "taken" /\ link.open
     /\ \/ Allowed(User(i), known, public, mentioned) /\ Becomes(i, "answering")
        \/ Becomes(i, "refused")
     /\ UNCHANGED <<channel, config, told, bridgeVars, pairings>>

(* send; what the provider says to it changes nothing.                     *)
Delivers(i) ==
  /\ at[i] = "answering" /\ channel # "line"
  /\ Becomes(i, "done") /\ Told(i, Address(i), TRUE)
  /\ UNCHANGED <<channel, config, bridgeVars, pairings>>

(* send raised before or after its answer got out.                         *)
SendRaises(i) ==
  /\ at[i] = "answering" /\ channel # "line" /\ Becomes(i, "lost")
  /\ Told(i, Address(i), TRUE) \/ UNCHANGED told
  /\ UNCHANGED <<channel, config, bridgeVars, pairings>>

(* The gateway closes the socket.  Telegram's poller goes on without it.   *)
LinkCloses ==
  /\ link.open /\ channel \notin {"line", "webhook", "twilio_sms"}
  /\ link' = [link EXCEPT !.open = FALSE]
  /\ at' = [i \in Events |-> IF at[i] = "taken" THEN "lost" ELSE at[i]]
  /\ UNCHANGED <<channel, config, told, conv_cache, reply_tokens, offset, owner_id, pairings>>

LinkOpens ==
  /\ ~link.open /\ channel # "telegram"
  /\ link' = [open |-> TRUE, owners |-> owners]
  /\ UNCHANGED <<channel, config, at, told, conv_cache, reply_tokens, offset, owner_id, pairings>>

----------------------------------------------------------------------------
(* LINE's bridge (line/dev/live_bridge.py): the events of one webhook call *)
(* are handled one after the other, those of several calls overlap.        *)

Over == {"done", "dropped", "limited"}
Turn(i) ==
  /\ channel = "line" /\ at[i] = "new"
  /\ \A j \in Events : j < i /\ Delivery[j] = Delivery[i] => at[j] \in Over

(* An event that is not a text message, or that on_message drops: it has   *)
(* kept the reply token of the latter.                                     *)
LineDrops(i) ==
  /\ Turn(i) /\ Becomes(i, "dropped")
  /\ \/ UNCHANGED reply_tokens
     \/ ~Line(i) /\ reply_tokens' = [reply_tokens EXCEPT ![User(i)] = i]
  /\ UNCHANGED <<channel, config, told, conv_cache, offset, owner_id, link, pairings>>

(* Mutant: the first text is pushed, and the token kept for the answer.    *)
LineTakesAndKeeps(i) ==
  /\ Turn(i) /\ Line(i)
  /\ reply_tokens' = [reply_tokens EXCEPT ![User(i)] = i]
  /\ IF Level(i) = "none" THEN Becomes(i, "telling") /\ Told(i, User(i), TRUE)
     ELSE Becomes(i, "acking") /\ Told(i, User(i), FALSE)
  /\ UNCHANGED <<channel, config, conv_cache, offset, owner_id, link, pairings>>

(* on_message stores the event's reply token and, before anything can be   *)
(* awaited, the first text takes it: that the account is not paired, or    *)
(* the acknowledgement.                                                    *)
LineTakes(i) ==
  /\ Turn(i) /\ Line(i)
  /\ reply_tokens' = [reply_tokens EXCEPT ![User(i)] = NoEvent]
  /\ IF Level(i) = "none" THEN Becomes(i, "telling") /\ Told(i, Wire[i].place, TRUE)
     ELSE Becomes(i, "acking") /\ Told(i, Wire[i].place, FALSE)
  /\ UNCHANGED <<channel, config, conv_cache, offset, owner_id, link, pairings>>

(* A text was sent, or limited, which only an acknowledgement heeds.       *)
LineSent(i) ==
  /\ \/ at[i] \in {"telling", "telling answer"} /\ Becomes(i, "done")
     \/ at[i] = "acking" /\ (Becomes(i, "asking") \/ Becomes(i, "limited"))
  /\ UNCHANGED <<channel, config, told, bridgeVars, pairings>>

(* The call of LINE raised: the rest of the webhook call is not handled.   *)
LineRaises(i) ==
  /\ at[i] \in {"telling", "acking", "telling answer"}
  /\ at' = [j \in Events |->
       IF j = i \/ (j > i /\ Delivery[j] = Delivery[i]) THEN "lost" ELSE at[j]]
  /\ UNCHANGED <<channel, config, told, bridgeVars, pairings>>

(* The agent has answered, or could not be reached.  The answer takes a    *)
(* reply token that is there and has not expired; else it is pushed.       *)
LineAnswers(i) ==
  LET t == reply_tokens[User(i)] IN
  /\ at[i] = "asking" /\ Becomes(i, "telling answer")
  /\ \/ t # NoEvent /\ Told(i, Wire[t].place, TRUE)
     \/ Told(i, User(i), TRUE)
  /\ reply_tokens' = [reply_tokens EXCEPT ![User(i)] = NoEvent]
  /\ UNCHANGED <<channel, config, conv_cache, offset, owner_id, link, pairings>>

----------------------------------------------------------------------------
AdaptersStep ==
  \/ LinkCloses \/ LinkOpens
  \/ \E i \in Events :
       \/ TelegramPolls(i) \/ Receives(i) \/ Drops(i) \/ Relays(i) \/ Delivers(i)
       \/ SendRaises(i)
       \/ LineDrops(i) \/ LineTakes(i) \/ LineSent(i) \/ LineRaises(i) \/ LineAnswers(i)

(* Pairings change meanwhile.                                              *)
AdaptersNext ==
  \/ AdaptersStep /\ UNCHANGED <<pending, recent, socket, post, inbound, used>>
  \/ (IssueCode \/ \E c \in Codes : ConfirmCode(c)) /\ UNCHANGED adapterVars

(* Where the asker of an event may be answered.                            *)
Home(i) ==
  IF channel = "teams" THEN {Wire[j].place : j \in {k \in Events : User(k) = User(i)}}
  ELSE {User(i), Wire[i].place}

(***************************************************************************)
(* However the handlers of several events overlap, whatever is sent for an *)
(* event goes to its sender or to the conversation he wrote in, and it is  *)
(* answered once.  A Teams user may get an answer in another conversation  *)
(* of his; Slack's send does not know the conversation, and three others   *)
(* name none.                                                              *)
(***************************************************************************)
AnsweredAtHome ==
  channel # "slack" => \A i \in Events :
    /\ \A m, n \in DOMAIN told[i] : told[i][m].final /\ told[i][n].final => m = n
    /\ \A n \in DOMAIN told[i] : told[i][n].to \in Home(i) \cup {Unaddressed}
=============================================================================
