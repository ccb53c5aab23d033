--------------------------- MODULE ChannelGateway ---------------------------
(***************************************************************************)
(* The channel routes of the gateway for one channel, WhatsApp: adapters'  *)
(* sockets and provider webhooks (glc/routes/channels.py), the pairing     *)
(* store and the allow list they consult (glc/security), the limiter they  *)
(* share, the audit row and the answer (catalogue/whatsapp/adapter.py).    *)
(*                                                                         *)
(* Handlers run on one event loop and await only what they receive and     *)
(* send: the decision on a message is one step, its answer another.        *)
(* Pairings and audit rows are in files; the limiter and the connections   *)
(* die with the process.  Times are ages, so that time need not end.       *)
(***************************************************************************)
EXTENDS Integers, Sequences, SequencesExt, FiniteSets

CONSTANTS Senders, Owners, AllowedSenders, \* channel users; paired as owners by
                                           \* the installer; in channels.yaml
          Messages, From, Side,  \* messages to the webhook, who and what sent them
          Redelivers,            \* sides that post again until answered 200
          Sockets, Window, Cap,  \* 60 seconds and messages_per_minute
          Codes, CodeTtl,        \* pairing codes, and 300 seconds
          MaxSocketMessages, MaxIssues, MaxFaults, MaxRestarts \* bounds

ASSUME GatewayAssumption ==
  /\ Owners \subseteq Senders /\ AllowedSenders \subseteq Senders
  /\ Window \in Nat /\ Cap \in Nat \ {0} /\ CodeTtl \in Nat /\ MaxRestarts \in Nat
  /\ From \in [Messages -> Senders]

VARIABLES pairings,  \* trust_level of a channel user
          pending,   \* pending_codes: who asked for what, seconds left
          recent,    \* RateLimiter: ages of a sender's admitted messages
          socket,    \* a connection: the owners it read, whether it answers
          post,      \* where a message to the webhook is
          inbound,   \* audit: ages of a sender's inbound_message rows, up to
                     \* Window, and which process wrote them
          used       \* how much of each bound is used up

vars == <<pairings, pending, recent, socket, post, inbound, used>>

Levels == {"user_paired", "owner_paired"}
NoCode == [user |-> "none", level |-> "none", left |-> 0]
Closed == [pc |-> "closed", owners |-> {}]

(* The processes that serve one after the other; the one that runs.        *)
Processes == 0 .. MaxRestarts
Running == used.restarts

Init ==
  /\ pairings = [s \in Senders |-> IF s \in Owners THEN "owner_paired" ELSE "none"]
  /\ pending = [c \in Codes |-> NoCode]
  /\ recent = [s \in Senders |-> <<>>]
  /\ socket = [k \in Sockets |-> Closed]
  /\ post = [m \in Messages |-> "new"]
  /\ inbound = [p \in Processes |-> [s \in Senders |-> <<>>]]
  /\ used = [socket |-> 0, issues |-> 0, faults |-> 0, restarts |-> 0]

Uses(what, limit) == used[what] < limit /\ used' = [used EXCEPT ![what] = @ + 1]

owners == {s \in Senders : pairings[s] = "owner_paired"}

----------------------------------------------------------------------------
(* Pairing.                                                                *)

(* A code is drawn at random and replaces the row that had it.             *)
IssueCode ==
  /\ Uses("issues", MaxIssues)
  /\ \E c \in Codes, s \in Senders, l \in Levels :
       pending' = [pending EXCEPT ![c] = [user |-> s, level |-> l, left |-> CodeTtl]]
  /\ UNCHANGED <<pairings, recent, socket, post, inbound>>

Asked(c) == pending[c] # NoCode
Paired(c) == pairings' = [pairings EXCEPT ![pending[c].user] = pending[c].level]

ConfirmCode(c) ==
  /\ Asked(c)
  /\ IF pending[c].left < 0 THEN UNCHANGED pairings ELSE Paired(c)
  /\ pending' = [pending EXCEPT ![c] = NoCode]
  /\ UNCHANGED <<recent, socket, post, inbound, used>>

----------------------------------------------------------------------------
(* The decision on a message.                                              *)

(* allowed(), of an enabled channel with mention_only_in_public.           *)
Allowed(s, own, public, mentioned) ==
  s \in own \cup AllowedSenders /\ (public => mentioned)

(* Mutant: the window is half open.                                        *)
RecentOpen(s) == SelectSeq(recent[s], LAMBDA age : age < Window)

(* _gc: while the first is too old, popleft.                               *)
WithoutOld(ages) ==
  LET old == {i \in DOMAIN ages : \A j \in 1 .. i : ages[j] > Window}
  IN SubSeq(ages, Cardinality(old) + 1, Len(ages))

(* The admitted messages of the last Window seconds.                       *)
Recent(s) == WithoutOld(recent[s])

Refused(s) == Len(Recent(s)) >= Cap

(* Mutant: a refused message counts against its sender, too.               *)
CountedAlways(s) == recent' = [recent EXCEPT ![s] = Append(Recent(s), 0)]

(* check_message: only an admitted message enters the window.              *)
Counted(s) ==
  recent' = [recent EXCEPT ![s] = IF Refused(s) THEN Recent(s) ELSE Append(Recent(s), 0)]

RowWritten(s) == inbound' = [inbound EXCEPT ![Running][s] = Append(@, 0)]

----------------------------------------------------------------------------
(* WS /v1/channels/{name}: owners are read when the connection opens.      *)

SocketOpens(k) ==
  /\ socket[k].pc = "closed"
  /\ socket' = [socket EXCEPT ![k] = [pc |-> "reading", owners |-> owners]]
  /\ UNCHANGED <<pairings, pending, recent, post, inbound, used>>

Reads(k) == socket[k].pc = "reading" /\ Uses("socket", MaxSocketMessages)
Answers(k) == socket' = [socket EXCEPT ![k].pc = "answering"]

(* Not an envelope, or not an allowed one.                                 *)
SocketDrops(k) ==
  /\ Reads(k) /\ Answers(k)
  /\ \/ TRUE
     \/ \E s \in Senders, public, mentioned \in BOOLEAN :
          ~Allowed(s, socket[k].owners, public, mentioned)
  /\ UNCHANGED <<pairings, pending, recent, post, inbound>>

SocketTakes(k) ==
  /\ Reads(k) /\ Answers(k)
  /\ \E s \in Senders, public, mentioned \in BOOLEAN :
       /\ Allowed(s, socket[k].owners, public, mentioned)
       /\ Counted(s)
       /\ IF Refused(s) THEN UNCHANGED inbound ELSE RowWritten(s)
  /\ UNCHANGED <<pairings, pending, post>>

SocketAnswers(k) ==
  /\ socket[k].pc = "answering"
  /\ socket' = [socket EXCEPT ![k].pc = "reading"]
  /\ UNCHANGED <<pairings, pending, recent, post, inbound, used>>

SocketCloses(k) ==
  /\ socket[k].pc # "closed"
  /\ socket' = [socket EXCEPT ![k] = Closed]
  /\ UNCHANGED <<pairings, pending, recent, post, inbound, used>>

----------------------------------------------------------------------------
(* POST /v1/channels/{name}/webhook.                                       *)

(* The bodies posted: a message, with the signature of its side; a report  *)
(* on an earlier answer, which holds none; a body that nobody signed.      *)
Bodies == {"message", "report", "unsigned"}
Signed(body) == body # "unsigned"
Holds(body) == body # "report"
Parses(body) == Signed(body) /\ Holds(body)

(* What on_message makes of a body it can use, of either side: no group,   *)
(* and no mention.  The route itself asks allowed() about it.              *)
Envelope(m) == [user |-> From[m], public |-> FALSE, mentioned |-> FALSE]
Accepted(m) == Allowed(Envelope(m).user, owners, Envelope(m).public, Envelope(m).mentioned)

(* A body without a message is answered 200 at once.                       *)
Posted(m) ==
  /\ post[m] = "new"
  /\ \E body \in Bodies :
       post' = [post EXCEPT ![m] = IF Parses(body) THEN "posted" ELSE "dropped"]
  /\ UNCHANGED <<pairings, pending, recent, socket, inbound, used>>

(* An answer other than 200: the side that posted may post it again.       *)
NotTaken(m) == post' = [post EXCEPT ![m] = IF Side[m] \in Redelivers THEN "later" ELSE "lost"]

WebhookDrops(m) ==
  /\ post[m] = "posted" /\ ~Accepted(m)
  /\ post' = [post EXCEPT ![m] = "dropped"]
  /\ UNCHANGED <<pairings, pending, recent, socket, inbound, used>>

(* 429.                                                                    *)
WebhookRefuses(m) ==
  /\ post[m] = "posted" /\ Accepted(m) /\ Refused(From[m])
  /\ Counted(From[m]) /\ NotTaken(m)
  /\ UNCHANGED <<pairings, pending, socket, inbound, used>>

(* The audit row, then send(), which answers only a paired user, on the    *)
(* side he wrote from: on_message has just put it into provider_cache.     *)
WebhookAdmits(m) ==
  /\ post[m] = "posted" /\ Accepted(m) /\ ~Refused(From[m])
  /\ Counted(From[m]) /\ RowWritten(From[m])
  /\ post' = [post EXCEPT ![m] = IF pairings[From[m]] = "none" THEN "unsent" ELSE "sending"]
  /\ UNCHANGED <<pairings, pending, socket, used>>

(* The row cannot be written: the message is counted, and a 500.           *)
WebhookRaises(m) ==
  /\ post[m] = "posted" /\ Accepted(m) /\ ~Refused(From[m])
  /\ Uses("faults", MaxFaults) /\ Counted(From[m]) /\ NotTaken(m)
  /\ UNCHANGED <<pairings, pending, socket, inbound>>

AnswerSent(m) ==
  /\ post[m] = "sending"
  /\ post' = [post EXCEPT ![m] = "answered"]
  /\ UNCHANGED <<pairings, pending, recent, socket, inbound, used>>

(* The provider's API answers with an error, or with no JSON, or no number *)
(* to send from is set: send() returns the error, and the route a 200.     *)
AnswerRefused(m) ==
  /\ post[m] = "sending" /\ Uses("faults", MaxFaults)
  /\ post' = [post EXCEPT ![m] = "unsent"]
  /\ UNCHANGED <<pairings, pending, recent, socket, inbound>>

(* The provider's API cannot be reached: a 500.                            *)
AnswerRaises(m) ==
  /\ post[m] = "sending" /\ Uses("faults", MaxFaults) /\ NotTaken(m)
  /\ UNCHANGED <<pairings, pending, recent, socket, inbound>>

----------------------------------------------------------------------------
(* Time, restarts, and the system.                                         *)

Older(ages) == [i \in DOMAIN ages |-> IF ages[i] > Window THEN ages[i] ELSE ages[i] + 1]

(* A second passes; what was not taken is posted again.                    *)
Tick ==
  /\ recent' = [s \in Senders |-> Older(recent[s])]
  /\ inbound' = [p \in Processes |-> [s \in Senders |-> WithoutOld(Older(inbound[p][s]))]]
  /\ pending' = [c \in Codes |->
       IF Asked(c) /\ pending[c].left >= 0 THEN [pending[c] EXCEPT !.left = @ - 1]
       ELSE pending[c]]
  /\ post' = [m \in Messages |-> IF post[m] = "later" THEN "posted" ELSE post[m]]
  /\ UNCHANGED <<pairings, socket, used>>

(* What dies with a process: its limiter, its connections, the requests    *)
(* under way.  The rows of the audit stay.                                 *)
Process ==
  /\ recent' = [s \in Senders |-> <<>>]
  /\ socket' = [k \in Sockets |-> Closed]
  /\ post' = [m \in Messages |->
       IF post[m] # "sending" THEN post[m]
       ELSE IF Side[m] \in Redelivers THEN "later" ELSE "lost"]

(* kill, a crash, a restart; confirm_code may have paired and not deleted. *)
Restart ==
  /\ Uses("restarts", MaxRestarts) /\ Process
  /\ UNCHANGED pairings \/ \E c \in Codes : Asked(c) /\ pending[c].left >= 0 /\ Paired(c)
  /\ UNCHANGED <<pending, inbound>>

Handle(m) == WebhookDrops(m) \/ WebhookRefuses(m) \/ WebhookAdmits(m) \/ AnswerSent(m)

Next ==
  \/ IssueCode \/ Tick \/ Restart
  \/ \E c \in Codes : ConfirmCode(c)
  \/ \E k \in Sockets : SocketOpens(k) \/ SocketDrops(k) \/ SocketTakes(k)
                        \/ SocketAnswers(k) \/ SocketCloses(k)
  \/ \E m \in Messages : Posted(m) \/ Handle(m) \/ WebhookRaises(m)
                         \/ AnswerRefused(m) \/ AnswerRaises(m)

(* Time passes, and the event loop runs the handler of a posted message.   *)
Fairness == WF_vars(Tick) /\ \A m \in Messages : WF_vars(Handle(m))

Spec == Init /\ [][Next]_vars /\ Fairness

----------------------------------------------------------------------------
(***************************************************************************)
(* Whatever comes over sockets and webhooks together, the audit never      *)
(* shows more than Cap messages of a sender that one process admitted in a *)
(* closed interval of Window seconds.  An interval that a restart falls    *)
(* into may show Cap of each process that served in it, because the        *)
(* limiter starts empty and the audit does not (RateLimiter._check).       *)
(***************************************************************************)
AdmissionBounded == \A p \in Processes, s \in Senders : Len(inbound[p][s]) <= Cap

(***************************************************************************)
(* A message whose side posts again is taken in the end, if its sender's   *)
(* other messages, the failures and the restarts come to an end, as they   *)
(* do here by MaxSocketMessages, MaxFaults and MaxRestarts: a message that *)
(* is refused does not count (RateLimiter._check), so that the window      *)
(* empties and the next post finds a place.  The assumption is needed: a   *)
(* sender who never stops writing may fill the window before each post,    *)
(* and the code keeps no place for it.                                     *)
(***************************************************************************)
MessageIsTaken ==
  \A m \in Messages : Side[m] \in Redelivers =>
    (post[m] = "posted" ~> post[m] \in {"dropped", "answered", "unsent"})
=============================================================================
