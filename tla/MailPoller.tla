----------------------------- MODULE MailPoller -----------------------------
(***************************************************************************)
(* The Gmail channel process (glc/channels/catalogue/gmail/server.py): one *)
(* loop that lists what the mailbox added since last_history_id, hands     *)
(* every message to the adapter and answers it.  The mailbox is a sequence *)
(* whose indices are both message and history ids; the answers the process *)
(* sends land in it too.                                                   *)
(*                                                                         *)
(* The loop is sequential; what can interleave is the mail that arrives,   *)
(* an exception, which ends the round without moving last_history_id, and  *)
(* a restart, which starts from the mailbox as it then is.                 *)
(***************************************************************************)
EXTENDS Integers, Sequences, FiniteSets

CONSTANTS Mails,            \* bound: mails from outside
          PageSize,         \* records in one answer of history.list, 100
          MaxMailFaults,    \* bound: failed calls and exceptions
          MaxMailRestarts   \* bound: restarts of the process

ASSUME MailAssumption == /\ Mails \in Nat /\ PageSize \in Nat \ {0}
                         /\ MaxMailFaults \in Nat /\ MaxMailRestarts \in Nat

VARIABLES mailbox,         \* "mail" or "own", in the order of arrival
          last_history_id,
          booted_at,       \* history: last_history_id the process started with
          processed_ids,
          history_cache,   \* history ids for which the client answers itself
          page, new_id,    \* what is left of the listed records, and historyId
          poller,          \* "asleep", "handling" or "sending"
          answered,        \* history: the answers delivered, by message id
          mailFaults, mailRestarts

mailVars == <<mailbox, last_history_id, booted_at, processed_ids, history_cache, page,
              new_id, poller, answered, mailFaults, mailRestarts>>

(* Every mail may be answered once by every process that ever ran.         *)
Ids == 1 .. 2 * (Mails + MaxMailFaults)

MailInit ==
  /\ mailbox = <<>> /\ last_history_id = 0 /\ booted_at = 0
  /\ processed_ids = {} /\ history_cache = {} /\ page = <<>> /\ new_id = 0 /\ poller = "asleep"
  /\ answered = [i \in Ids |-> 0] /\ mailFaults = 0 /\ mailRestarts = 0

MailFault == mailFaults < MaxMailFaults /\ mailFaults' = mailFaults + 1

MailArrives ==
  /\ Cardinality({i \in DOMAIN mailbox : mailbox[i] = "mail"}) < Mails
  /\ mailbox' = Append(mailbox, "mail")
  /\ UNCHANGED <<last_history_id, booted_at, processed_ids, history_cache, page, new_id,
                 poller, answered, mailFaults, mailRestarts>>

(* One answer of history.list.                                             *)
Listed ==
  [k \in 1 .. (IF Len(mailbox) - last_history_id < PageSize
               THEN Len(mailbox) - last_history_id ELSE PageSize) |-> last_history_id + k]

(* history_list returns one page and the id the mailbox has reached; a     *)
(* failure is an empty history without an id.                              *)
HistoryListed ==
  /\ poller = "asleep" /\ last_history_id \notin history_cache
  /\ page' = Listed /\ new_id' = Len(mailbox) /\ poller' = "handling"
  /\ UNCHANGED <<mailbox, last_history_id, booted_at, processed_ids, history_cache, answered,
                 mailFaults, mailRestarts>>

HistoryFails ==
  /\ poller = "asleep" /\ last_history_id \notin history_cache /\ MailFault
  /\ page' = <<>> /\ new_id' = 0 /\ poller' = "handling"
  /\ UNCHANGED <<mailbox, last_history_id, booted_at, processed_ids, history_cache, answered,
                 mailRestarts>>

(* Mutant: the entry is read and left.                                     *)
CacheKept(id) == history_cache

(* The client's own answer is given once.                                  *)
CacheTaken(id) == history_cache \ {id}

(* ... to the loop, after a round that ended before the adapter asked: the *)
(* record's message again, and no newer id.                                *)
HistoryCached ==
  /\ poller = "asleep" /\ last_history_id \in history_cache
  /\ page' = <<last_history_id>> /\ new_id' = last_history_id /\ poller' = "handling"
  /\ history_cache' = CacheTaken(last_history_id)
  /\ UNCHANGED <<mailbox, last_history_id, booted_at, processed_ids, answered, mailFaults,
                 mailRestarts>>

(* An exception anywhere in a round: the rest of the page is dropped.      *)
RoundRaises == page' = <<>> /\ new_id' = 0 /\ poller' = "asleep"

(* Mutant: only processed_ids keeps the process from answering itself.     *)
IgnoredIfSeen(i) == i \in processed_ids

(* A message seen before, or one's own.                                    *)
Ignored(i) == i \in processed_ids \/ mailbox[i] = "own"

MessageIgnored ==
  /\ poller = "handling" /\ page # <<>>
  /\ processed_ids' = processed_ids \cup {Head(page)} /\ page' = Tail(page)
  /\ IF Ignored(Head(page)) THEN UNCHANGED mailFaults ELSE MailFault
  /\ UNCHANGED <<mailbox, last_history_id, booted_at, history_cache, new_id, poller, answered,
                 mailRestarts>>

(* The adapter lists the history of this one record, which the loop put    *)
(* into the client's cache, fetches the message and reads it.  It accepts  *)
(* the message, or an exception comes before it asked, or after.           *)
MessageRead ==
  /\ poller = "handling" /\ page # <<>> /\ ~Ignored(Head(page))
  /\ processed_ids' = processed_ids \cup {Head(page)}
  /\ \/ /\ poller' = "sending" /\ history_cache' = CacheTaken(Head(page))
        /\ UNCHANGED <<page, new_id, mailFaults>>
     \/ /\ RoundRaises /\ MailFault
        /\ history_cache' \in {CacheTaken(Head(page)), history_cache \cup {Head(page)}}
  /\ UNCHANGED <<mailbox, last_history_id, booted_at, answered, mailRestarts>>

Delivered ==
  /\ mailbox' = Append(mailbox, "own")
  /\ answered' = [answered EXCEPT ![Head(page)] = @ + 1]

(* send returned the id of the answer.                                     *)
ReplySent ==
  /\ poller = "sending" /\ Delivered
  /\ processed_ids' = processed_ids \cup {Len(mailbox) + 1}
  /\ page' = Tail(page) /\ poller' = "handling"
  /\ UNCHANGED <<last_history_id, booted_at, history_cache, new_id, mailFaults, mailRestarts>>

(* send raised, before or after Gmail took the answer.                     *)
ReplyRaises ==
  /\ poller = "sending" /\ MailFault /\ RoundRaises
  /\ Delivered \/ UNCHANGED <<mailbox, answered>>
  /\ UNCHANGED <<last_history_id, booted_at, processed_ids, history_cache, mailRestarts>>

(* The end of a round.  cleanup_expired runs first, and may raise.         *)
RoundEnds ==
  /\ poller = "handling" /\ page = <<>>
  /\ RoundRaises
  /\ \/ /\ last_history_id' = IF new_id > last_history_id THEN new_id ELSE last_history_id
        /\ UNCHANGED mailFaults
     \/ MailFault /\ UNCHANGED last_history_id
  /\ UNCHANGED <<mailbox, booted_at, processed_ids, history_cache, answered, mailRestarts>>

PollerRestarts ==
  /\ mailRestarts < MaxMailRestarts /\ mailRestarts' = mailRestarts + 1
  /\ last_history_id' = Len(mailbox) /\ booted_at' = Len(mailbox)
  /\ processed_ids' = {} /\ history_cache' = {} /\ RoundRaises
  /\ UNCHANGED <<mailbox, answered, mailFaults>>

Poll ==
  \/ HistoryListed \/ HistoryFails \/ HistoryCached \/ MessageIgnored \/ MessageRead
  \/ ReplySent \/ ReplyRaises \/ RoundEnds

MailNext == MailArrives \/ Poll \/ PollerRestarts

(* The loop sleeps POLL_INTERVAL seconds and runs again, whatever it met.  *)
MailFairness == WF_mailVars(Poll)

MailSpec == MailInit /\ [][MailNext]_mailVars /\ MailFairness

(***************************************************************************)
(* No mail is answered twice and no answer is answered, whatever was       *)
(* listed again after an exception or a restart.                           *)
(***************************************************************************)
MailAnsweredOnce ==
  \A i \in DOMAIN mailbox : answered[i] <= IF mailbox[i] = "own" THEN 0 ELSE 1

(***************************************************************************)
(* Every mail is taken up in the end, although rounds break off, unless    *)
(* the process was started again after it came: over and over nothing is   *)
(* left.                                                                   *)
(***************************************************************************)
MailIsTaken ==
  []<>(\A i \in DOMAIN mailbox : i \in processed_ids \/ i <= booted_at)
=============================================================================
