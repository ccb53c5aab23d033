----------------------------- MODULE MCChannels -----------------------------
(***************************************************************************)
(* The processes through which messages come in: the gateway's channel     *)
(* routes, the Gmail poller, the drivers of the other adapters, the Twilio *)
(* Voice adapter, and the conversations that the gateway's chat route      *)
(* carries to its providers.  They share neither messages nor state but    *)
(* the pairing store, so that every interleaving of two is one of each     *)
(* beside any of the other: a behaviour watches one, and the rest rest.    *)
(*                                                                         *)
(* The gateway has an owner whose webhook message comes from a side that   *)
(* posts again and who writes to a socket, too, and an allow-listed sender *)
(* who is not paired until a code is confirmed and whose side does not     *)
(* post again.  The two write to every other channel, the owner in private *)
(* and in a group, and LINE posts the first and the last of three events   *)
(* together.  Two calls ring.                                              *)
(***************************************************************************)
EXTENDS ChannelAdapters, MailPoller, VoiceStreams, ChatDialects, TLC

MCFrom == "m1" :> "owner" @@ "m2" :> "listed"
MCSide == "m1" :> "meta" @@ "m2" :> "twilio"

MCWire ==
  1 :> [user |-> "owner", place |-> "owner", mentioned |-> FALSE] @@
  2 :> [user |-> "owner", place |-> "group", mentioned |-> TRUE] @@
  3 :> [user |-> "listed", place |-> "group", mentioned |-> FALSE]
MCDelivery == 1 :> "d1" @@ 2 :> "d2" @@ 3 :> "d1"
MCCaller == "s1" :> "ann" @@ "s2" :> "bob"

VARIABLE watched

channelVars == <<vars, mailVars, adapterVars, voiceVars, dialectVars, watched>>

(* Configuration that an adapter does not read is off.                     *)
Configured ==
  /\ config.strict => channel = "discord"
  /\ config.mentioned => channel \in {"telegram", "webhook", "line"}
  /\ owner_id \/ channel = "telegram"

(* What the request has one of, it has in each of two ways.                *)
Varied ==
  /\ request.cache_system => request.system = {"plain"}
  /\ request.image = "source" => request.system = {}

AtRest == channel = "imap" /\ config = [public |-> FALSE, mentioned |-> FALSE, strict |-> FALSE]

ChannelsInit ==
  /\ watched \in {"gateway", "poller", "adapters", "voice", "chat"}
  /\ Init /\ MailInit /\ AdaptersInit /\ Configured /\ VoiceInit /\ DialectsInit /\ Varied
  /\ watched # "adapters" => AtRest
  /\ watched # "voice" => ~buffer_audio
  /\ watched # "chat" => request = [system |-> {}, cache_system |-> FALSE, image |-> "none"]

GatewayStep(A) ==
  watched = "gateway" /\ A /\ UNCHANGED <<mailVars, adapterVars, voiceVars, dialectVars, watched>>
PollerStep(A) ==
  watched = "poller" /\ A /\ UNCHANGED <<vars, adapterVars, voiceVars, dialectVars, watched>>
AdapterStep ==
  watched = "adapters" /\ AdaptersNext /\ UNCHANGED <<mailVars, voiceVars, dialectVars, watched>>
VoiceStep ==
  watched = "voice" /\ VoiceNext /\ UNCHANGED <<vars, mailVars, adapterVars, dialectVars, watched>>
ChatStep ==
  watched = "chat" /\ DialectsNext /\ UNCHANGED <<vars, mailVars, adapterVars, voiceVars, watched>>

ChannelsNext ==
  GatewayStep(Next) \/ PollerStep(MailNext) \/ AdapterStep \/ VoiceStep \/ ChatStep

(* The fairness of the gateway and of the poller.                          *)
ChannelsFairness ==
  /\ WF_channelVars(GatewayStep(Tick))
  /\ \A m \in Messages : WF_channelVars(GatewayStep(Handle(m)))
  /\ WF_channelVars(PollerStep(Poll))

ChannelsSpec == ChannelsInit /\ [][ChannelsNext]_channelVars /\ ChannelsFairness

(***************************************************************************)
(* Every message a side posts again is taken, and every mail is handled,   *)
(* once the other messages of its sender, the failures and the restarts    *)
(* have come to an end (MaxSocketMessages, MaxFaults, MaxRestarts, and     *)
(* those of the poller): a refusal by the limiter, a failure and a restart *)
(* leave nothing behind that keeps it out for ever.                        *)
(***************************************************************************)
EveryMessageIsTaken == MessageIsTaken /\ MailIsTaken
=============================================================================
