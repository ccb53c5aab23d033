---------------------------- MODULE ChannelProofs ----------------------------
(***************************************************************************)
(* Theorems about the processes through which messages come in, whatever   *)
(* their senders, events, codes, windows and calls: the gateway's routes   *)
(* (ChannelGateway), the drivers of the other adapters (ChannelAdapters),  *)
(* the Twilio Voice adapter (VoiceStreams), the Gmail poller (MailPoller)  *)
(* and the chat route's conversations (ChatDialects), beside each other as *)
(* MCChannels has them.                                                    *)
(***************************************************************************)
EXTENDS MCChannels, FiniteSetTheorems, TLAPS

(***************************************************************************)
(* The Gmail poller, for every number of mails, page size, and number of   *)
(* exceptions and restarts.                                                *)
(***************************************************************************)
MailTypeOK ==
  /\ mailbox \in Seq({"mail", "own"})
  /\ last_history_id \in Nat /\ booted_at \in Nat /\ new_id \in Nat
  /\ processed_ids \subseteq DOMAIN mailbox
  /\ history_cache \subseteq DOMAIN mailbox
  /\ page \in Seq(Nat)
  /\ poller \in {"asleep", "handling", "sending"}
  /\ answered \in [Ids -> Nat]
  /\ mailFaults \in Nat /\ mailRestarts \in Nat

(* The process looks only at what came after it started.                   *)
PollInv ==
  /\ booted_at <= last_history_id /\ last_history_id <= Len(mailbox) /\ new_id <= Len(mailbox)
  /\ \A i \in history_cache : booted_at < i
  /\ \A k \in DOMAIN page : page[k] \in DOMAIN mailbox /\ booted_at < page[k]
  /\ poller = "sending" =>
       /\ page # <<>> /\ mailbox[page[1]] = "mail"
       /\ page[1] \in processed_ids /\ answered[page[1]] = 0

OfKind(k) == {i \in DOMAIN mailbox : mailbox[i] = k}
AnsweredMails == {i \in Ids : answered[i] # 0}

(* What has an answer is a mail that the process has taken up, or that it  *)
(* will never be shown; each answer in the mailbox answers one mail.       *)
AnswerInv ==
  /\ \A i \in AnsweredMails : /\ answered[i] = 1 /\ i \in OfKind("mail")
                              /\ i \in processed_ids \/ i <= booted_at
  /\ Cardinality(OfKind("own")) = Cardinality(AnsweredMails)
  /\ Cardinality(OfKind("mail")) <= Mails

MailInv == MailTypeOK /\ PollInv /\ AnswerInv

-----------------------------------------------------------------------------
(* The mailbox.                                                            *)

LEMMA MailboxGrows ==
  ASSUME MailTypeOK, NEW k \in {"mail", "own"}, mailbox' = Append(mailbox, k)
  PROVE  /\ mailbox' \in Seq({"mail", "own"}) /\ Len(mailbox') = Len(mailbox) + 1
         /\ DOMAIN mailbox' = DOMAIN mailbox \cup {Len(mailbox) + 1}
         /\ Len(mailbox) + 1 \notin DOMAIN mailbox
         /\ \A i \in DOMAIN mailbox : mailbox'[i] = mailbox[i]
         /\ mailbox'[Len(mailbox) + 1] = k
         /\ OfKind(k)' = OfKind(k) \cup {Len(mailbox) + 1}
         /\ \A j \in {"mail", "own"} \ {k} : OfKind(j)' = OfKind(j)
<1>1. /\ mailbox' \in Seq({"mail", "own"}) /\ Len(mailbox') = Len(mailbox) + 1
      /\ DOMAIN mailbox' = DOMAIN mailbox \cup {Len(mailbox) + 1}
      /\ Len(mailbox) + 1 \notin DOMAIN mailbox
      /\ \A i \in DOMAIN mailbox : mailbox'[i] = mailbox[i]
      /\ mailbox'[Len(mailbox) + 1] = k
  BY DEF MailTypeOK
<1>2. QED
  BY <1>1 DEF OfKind

LEMMA MailFinite ==
  ASSUME MailTypeOK
  PROVE  /\ \A k : IsFiniteSet(OfKind(k)) /\ Cardinality(OfKind(k)) \in Nat
         /\ IsFiniteSet(AnsweredMails) /\ Cardinality(AnsweredMails) \in Nat
         /\ IsFiniteSet(DOMAIN mailbox) /\ Cardinality(DOMAIN mailbox) = Len(mailbox)
<1>1. /\ DOMAIN mailbox = 1 .. Len(mailbox) /\ Len(mailbox) \in Nat
      /\ 2 * (Mails + MaxMailFaults) \in Int
  BY MailAssumption DEF MailTypeOK
<1>2. IsFiniteSet(DOMAIN mailbox) /\ Cardinality(DOMAIN mailbox) = Len(mailbox)
  BY <1>1, FS_Interval
<1>3. IsFiniteSet(Ids)
  BY <1>1, FS_Interval DEF Ids
<1>4. \A k : OfKind(k) \subseteq DOMAIN mailbox
  BY DEF OfKind
<1>5. AnsweredMails \subseteq Ids
  BY DEF AnsweredMails
<1>6. QED
  BY <1>2, <1>3, <1>4, <1>5, FS_Subset, FS_CardinalityType

(* An answer is never counted where no mail is: the mailbox holds at most  *)
(* the mails and one answer to each.                                       *)
LEMMA MailboxBounded ==
  ASSUME MailInv
  PROVE  /\ DOMAIN mailbox \subseteq Ids
         /\ Len(mailbox) = Cardinality(OfKind("mail")) + Cardinality(OfKind("own"))
         /\ Cardinality(OfKind("own")) <= Cardinality(OfKind("mail"))
<1>1. MailTypeOK /\ AnswerInv
  BY DEF MailInv
<1>2. OfKind("mail") \cup OfKind("own") = DOMAIN mailbox /\ OfKind("mail") \cap OfKind("own") = {}
  <2>1. \A i \in DOMAIN mailbox : mailbox[i] \in {"mail", "own"}
    BY <1>1 DEF MailTypeOK
  <2>2. QED
    BY <2>1 DEF OfKind
<1>3. Len(mailbox) = Cardinality(OfKind("mail")) + Cardinality(OfKind("own"))
  <2>1. Cardinality(OfKind("mail") \cap OfKind("own")) = 0
    BY <1>2, FS_EmptySet
  <2>2. /\ Cardinality(OfKind("mail") \cup OfKind("own"))
            = Cardinality(OfKind("mail")) + Cardinality(OfKind("own"))
              - Cardinality(OfKind("mail") \cap OfKind("own"))
    BY <1>1, MailFinite, FS_Union
  <2>3. QED
    BY <1>1, <1>2, <2>1, <2>2, MailFinite
<1>4. Cardinality(OfKind("own")) <= Cardinality(OfKind("mail"))
  <2>1. AnsweredMails \subseteq OfKind("mail")
    BY <1>1 DEF AnswerInv
  <2>2. QED
    BY <1>1, <2>1, MailFinite, FS_Subset DEF AnswerInv
<1>5. Len(mailbox) <= 2 * (Mails + MaxMailFaults)
  <2>1. /\ Cardinality(OfKind("mail")) <= Mails /\ Cardinality(OfKind("mail")) \in Nat
        /\ Cardinality(OfKind("own")) \in Nat
    BY <1>1, MailFinite DEF AnswerInv
  <2>2. QED
    BY <1>3, <1>4, <2>1, MailAssumption
<1>6. DOMAIN mailbox \subseteq Ids
  BY <1>1, <1>5, MailAssumption DEF Ids, MailTypeOK
<1>7. QED
  BY <1>3, <1>4, <1>6

(* The first message of a page, and the rest.                              *)
LEMMA PageFacts ==
  ASSUME MailTypeOK, page # <<>>
  PROVE  /\ Head(page) = page[1] /\ 1 \in DOMAIN page
         /\ Tail(page) \in Seq(Nat)
         /\ \A k \in DOMAIN Tail(page) : k + 1 \in DOMAIN page /\ Tail(page)[k] = page[k + 1]
BY DEF MailTypeOK

-----------------------------------------------------------------------------
(* Steps.                                                                  *)

(* The poller's steps that neither receive mail nor answer.                *)
LEMMA QuietPoll ==
  ASSUME MailInv, MailTypeOK', UNCHANGED <<mailbox, answered, booted_at>>,
         processed_ids \subseteq processed_ids'
  PROVE  AnswerInv'
BY DEF MailInv, AnswerInv, OfKind, AnsweredMails

(* What arrives is behind everything the process has seen.                 *)
LEMMA ArrivalStep ==
  ASSUME MailInv, MailArrives
  PROVE  MailInv'
<1> USE DEF MailInv
<1>1. mailbox' = Append(mailbox, "mail")
      /\ UNCHANGED <<last_history_id, booted_at, processed_ids, history_cache, page, new_id,
                     poller, answered, mailFaults, mailRestarts>>
  BY DEF MailArrives
<1>2. /\ mailbox' \in Seq({"mail", "own"}) /\ Len(mailbox') = Len(mailbox) + 1
      /\ DOMAIN mailbox' = DOMAIN mailbox \cup {Len(mailbox) + 1}
      /\ Len(mailbox) + 1 \notin DOMAIN mailbox
      /\ \A i \in DOMAIN mailbox : mailbox'[i] = mailbox[i]
      /\ OfKind("mail")' = OfKind("mail") \cup {Len(mailbox) + 1}
      /\ OfKind("own")' = OfKind("own")
  BY <1>1, MailboxGrows
<1>3. MailTypeOK'
  BY <1>1, <1>2 DEF MailTypeOK
<1>4. PollInv'
  <2>1. Len(mailbox) \in Nat
    BY DEF MailTypeOK
  <2>2. PollInv
    OBVIOUS
  <2>3. 1 \in DOMAIN page \/ page = <<>>
    BY DEF MailTypeOK
  <2>4. QED
    BY <1>1, <1>2, <2>1, <2>2, <2>3 DEF PollInv, MailTypeOK
<1>5. AnswerInv'
  <2>1. AnsweredMails' = AnsweredMails
    BY <1>1 DEF AnsweredMails
  <2>2. Cardinality(OfKind("mail")') <= Mails
    <3>1. Cardinality(OfKind("mail")) < Mails
      BY DEF MailArrives, OfKind
    <3>2. Cardinality(OfKind("mail")') = Cardinality(OfKind("mail")) + 1
      <4>1. Len(mailbox) + 1 \notin OfKind("mail") /\ IsFiniteSet(OfKind("mail"))
        BY <1>2, MailFinite DEF OfKind
      <4>2. QED
        BY <1>2, <4>1, FS_AddElement
    <3>3. QED
      BY <3>1, <3>2, MailFinite, MailAssumption
  <2>3. QED
    BY <1>1, <1>2, <2>1, <2>2 DEF AnswerInv
<1>6. QED
  BY <1>3, <1>4, <1>5

(* An answer: the mail it answers had none, and it lands in the mailbox.   *)
LEMMA DeliveredStep ==
  ASSUME MailInv, poller = "sending", Delivered, UNCHANGED booted_at,
         processed_ids \subseteq processed_ids'
  PROVE  AnswerInv' /\ answered' \in [Ids -> Nat]
<1> USE DEF MailInv
<1> DEFINE h == page[1]
<1>1. /\ page # <<>> /\ mailbox[h] = "mail" /\ h \in processed_ids /\ answered[h] = 0
      /\ h \in DOMAIN mailbox /\ h \in Ids
  BY MailboxBounded DEF PollInv, MailTypeOK
<1>2. mailbox' = Append(mailbox, "own") /\ answered' = [answered EXCEPT ![h] = @ + 1]
  BY <1>1, PageFacts DEF Delivered
<1> HIDE DEF h
<1>3. /\ Len(mailbox) + 1 \notin DOMAIN mailbox
      /\ OfKind("own")' = OfKind("own") \cup {Len(mailbox) + 1}
      /\ OfKind("mail")' = OfKind("mail")
  BY <1>2, MailboxGrows
<1>4. /\ answered' \in [Ids -> Nat] /\ answered'[h] = 1
      /\ \A i \in Ids \ {h} : answered'[i] = answered[i]
  BY <1>1, <1>2 DEF MailTypeOK
<1>5. AnsweredMails' = AnsweredMails \cup {h} /\ h \notin AnsweredMails
  BY <1>1, <1>4 DEF AnsweredMails
<1>6. Cardinality(OfKind("own")') = Cardinality(AnsweredMails')
  <2>1. Cardinality(OfKind("own")') = Cardinality(OfKind("own")) + 1
    <3>1. Len(mailbox) + 1 \notin OfKind("own") /\ IsFiniteSet(OfKind("own"))
      BY <1>3, MailFinite DEF OfKind
    <3>2. QED
      BY <1>3, <3>1, FS_AddElement
  <2>2. Cardinality(AnsweredMails') = Cardinality(AnsweredMails) + 1
    BY <1>5, MailFinite, FS_AddElement
  <2>3. QED
    BY <2>1, <2>2 DEF AnswerInv
<1>7. \A i \in AnsweredMails' : /\ answered'[i] = 1 /\ i \in OfKind("mail")'
                                /\ i \in processed_ids' \/ i <= booted_at'
  BY <1>1, <1>3, <1>4, <1>5 DEF AnswerInv, OfKind, AnsweredMails
<1>8. QED
  BY <1>3, <1>4, <1>6, <1>7 DEF AnswerInv

LEMMA MailStep ==
  ASSUME MailInv, [MailNext]_mailVars
  PROVE  MailInv'
<1> USE DEF MailInv
<1>0. /\ Len(mailbox) \in Nat /\ DOMAIN mailbox = 1 .. Len(mailbox)
      /\ page \in Seq(Nat) /\ PageSize \in Nat
      /\ last_history_id \in Nat /\ booted_at \in Nat /\ new_id \in Nat
      /\ mailFaults \in Nat /\ mailRestarts \in Nat
  BY MailAssumption DEF MailTypeOK
<1>f. MailFault => mailFaults' \in Nat
  BY <1>0 DEF MailFault
<1>c. \A id : CacheTaken(id) \subseteq history_cache
  BY DEF CacheTaken
<1>a. CASE MailArrives
  BY <1>a, ArrivalStep
<1>1. CASE HistoryListed
  <2> DEFINE n == IF Len(mailbox) - last_history_id < PageSize
                  THEN Len(mailbox) - last_history_id ELSE PageSize
  <2>1. n \in Nat /\ n <= Len(mailbox) - last_history_id
    BY <1>0 DEF PollInv
  <2>2. page' = [k \in 1 .. n |-> last_history_id + k]
    BY <1>1 DEF HistoryListed, Listed
  <2> HIDE DEF n
  <2>3. /\ page' \in Seq(Nat) /\ DOMAIN page' = 1 .. n
        /\ \A k \in 1 .. n : /\ page'[k] \in DOMAIN mailbox
                            /\ last_history_id < page'[k]
    BY <1>0, <2>1, <2>2
  <2>4. /\ new_id' = Len(mailbox) /\ poller' = "handling" /\ mailFaults' = mailFaults
        /\ UNCHANGED <<mailbox, last_history_id, booted_at, processed_ids, history_cache,
                       answered, mailRestarts>>
    BY <1>1 DEF HistoryListed
  <2>5. MailTypeOK'
    BY <1>0, <2>3, <2>4 DEF MailTypeOK
  <2>6. \A k \in DOMAIN page' : page'[k] \in DOMAIN mailbox /\ booted_at < page'[k]
    BY <1>0, <2>3 DEF PollInv
  <2>7. PollInv'
    BY <1>0, <2>4, <2>6 DEF PollInv
  <2>8. QED
    BY <2>4, <2>5, <2>7, QuietPoll
<1>2. CASE HistoryFails
  <2>1. MailTypeOK'
    BY <1>0, <1>2, <1>f DEF HistoryFails, MailTypeOK
  <2>2. PollInv'
    BY <1>0, <1>2 DEF HistoryFails, PollInv
  <2>3. QED
    BY <1>2, <2>1, <2>2, QuietPoll DEF HistoryFails
<1>3. CASE HistoryCached
  <2>1. /\ page' = <<last_history_id>> /\ new_id' = last_history_id /\ poller' = "handling"
        /\ last_history_id \in history_cache /\ history_cache' \subseteq history_cache
        /\ UNCHANGED <<mailbox, last_history_id, booted_at, processed_ids, answered,
                       mailFaults, mailRestarts>>
    BY <1>3, <1>c DEF HistoryCached
  <2>2. MailTypeOK'
    BY <1>0, <2>1 DEF MailTypeOK
  <2>3. PollInv'
    BY <1>0, <2>1 DEF PollInv, MailTypeOK
  <2>4. QED
    BY <2>1, <2>2, <2>3, QuietPoll
<1>4. CASE MessageIgnored
  <2>1. /\ page # <<>> /\ page' = Tail(page) /\ poller = "handling"
        /\ processed_ids' = processed_ids \cup {page[1]}
        /\ mailFaults' \in Nat
        /\ UNCHANGED <<mailbox, last_history_id, booted_at, history_cache, new_id, poller,
                       answered, mailRestarts>>
    BY <1>0, <1>4, <1>f, PageFacts DEF MessageIgnored
  <2>2. page[1] \in DOMAIN mailbox
    BY <2>1, PageFacts DEF PollInv
  <2>3. MailTypeOK'
    BY <1>0, <2>1, <2>2, PageFacts DEF MailTypeOK
  <2>4. PollInv'
    BY <1>0, <2>1, PageFacts DEF PollInv
  <2>5. QED
    BY <2>1, <2>3, <2>4, QuietPoll
<1>5. CASE MessageRead
  <2> DEFINE h == page[1]
  <2>1. /\ page # <<>> /\ h \in DOMAIN mailbox /\ booted_at < h /\ Head(page) = h
    BY <1>5, PageFacts DEF MessageRead, PollInv
  <2>2. /\ h \notin processed_ids /\ mailbox[h] = "mail"
        /\ processed_ids' = processed_ids \cup {h}
        /\ UNCHANGED <<mailbox, last_history_id, booted_at, answered, mailRestarts>>
    BY <1>5, <2>1 DEF MessageRead, Ignored, MailTypeOK
  <2>3. answered[h] = 0
    <3>1. h \in Ids /\ ~(h <= booted_at)
      BY <1>0, <2>1, MailboxBounded
    <3>2. QED
      BY <2>2, <3>1 DEF AnswerInv, AnsweredMails
  <2> HIDE DEF h
  <2>4. history_cache' \subseteq history_cache \cup {h}
    BY <1>5, <1>c, <2>1 DEF MessageRead
  <2>5. CASE poller' = "sending" /\ UNCHANGED <<page, new_id, mailFaults>>
    <3>1. MailTypeOK'
      BY <2>1, <2>2, <2>4, <2>5 DEF MailTypeOK
    <3>2. PollInv'
      BY <1>0, <2>1, <2>2, <2>3, <2>4, <2>5 DEF PollInv, h
    <3>3. QED
      BY <2>2, <3>1, <3>2, QuietPoll
  <2>6. CASE RoundRaises /\ MailFault
    <3>1. MailTypeOK'
      BY <1>f, <2>1, <2>2, <2>4, <2>6 DEF MailTypeOK, RoundRaises
    <3>2. PollInv'
      BY <1>0, <2>1, <2>2, <2>4, <2>6 DEF PollInv, RoundRaises
    <3>3. QED
      BY <2>2, <3>1, <3>2, QuietPoll
  <2>7. QED
    BY <1>5, <2>5, <2>6 DEF MessageRead
<1>6. CASE ReplySent
  <2>1. /\ page # <<>> /\ page' = Tail(page) /\ poller = "sending" /\ poller' = "handling"
        /\ processed_ids' = processed_ids \cup {Len(mailbox) + 1}
        /\ Delivered /\ mailbox' = Append(mailbox, "own")
        /\ UNCHANGED <<last_history_id, booted_at, history_cache, new_id, mailFaults,
                       mailRestarts>>
    BY <1>6 DEF ReplySent, Delivered, PollInv
  <2>2. AnswerInv' /\ answered' \in [Ids -> Nat]
    BY <2>1, DeliveredStep
  <2>3. /\ mailbox' \in Seq({"mail", "own"}) /\ Len(mailbox') = Len(mailbox) + 1
        /\ DOMAIN mailbox' = DOMAIN mailbox \cup {Len(mailbox) + 1}
    BY <2>1, MailboxGrows
  <2>4. MailTypeOK'
    BY <1>0, <2>1, <2>2, <2>3, PageFacts DEF MailTypeOK
  <2>5. PollInv'
    BY <1>0, <2>1, <2>3, PageFacts DEF PollInv
  <2>6. QED
    BY <2>2, <2>4, <2>5
<1>7. CASE ReplyRaises
  <2>1. /\ poller = "sending" /\ page' = <<>> /\ new_id' = 0 /\ poller' = "asleep"
        /\ mailFaults' \in Nat
        /\ UNCHANGED <<last_history_id, booted_at, processed_ids, history_cache, mailRestarts>>
    BY <1>7, <1>f DEF ReplyRaises, RoundRaises
  <2>2. CASE Delivered
    <3>1. AnswerInv' /\ answered' \in [Ids -> Nat]
      BY <2>1, <2>2, DeliveredStep
    <3>2. /\ mailbox' \in Seq({"mail", "own"}) /\ Len(mailbox') = Len(mailbox) + 1
          /\ DOMAIN mailbox' = DOMAIN mailbox \cup {Len(mailbox) + 1}
      BY <2>2, MailboxGrows DEF Delivered
    <3>3. MailTypeOK'
      BY <2>1, <3>1, <3>2 DEF MailTypeOK
    <3>4. PollInv'
      BY <1>0, <2>1, <3>2 DEF PollInv
    <3>5. QED
      BY <3>1, <3>3, <3>4
  <2>3. CASE UNCHANGED <<mailbox, answered>>
    <3>1. MailTypeOK'
      BY <2>1, <2>3 DEF MailTypeOK
    <3>2. PollInv'
      BY <1>0, <2>1, <2>3 DEF PollInv
    <3>3. QED
      BY <2>1, <2>3, <3>1, <3>2, QuietPoll
  <2>4. QED
    BY <1>7, <2>2, <2>3 DEF ReplyRaises
<1>8. CASE RoundEnds
  <2>1. /\ page' = <<>> /\ new_id' = 0 /\ poller' = "asleep" /\ mailFaults' \in Nat
        /\ last_history_id' \in {last_history_id, new_id} /\ last_history_id <= last_history_id'
        /\ UNCHANGED <<mailbox, booted_at, processed_ids, history_cache, answered, mailRestarts>>
    BY <1>0, <1>8, <1>f DEF RoundEnds, RoundRaises
  <2>2. MailTypeOK'
    BY <1>0, <2>1 DEF MailTypeOK
  <2>3. PollInv'
    BY <1>0, <2>1 DEF PollInv
  <2>4. QED
    BY <2>1, <2>2, <2>3, QuietPoll
<1>9. CASE PollerRestarts
  <2>1. /\ page' = <<>> /\ new_id' = 0 /\ poller' = "asleep" /\ processed_ids' = {}
        /\ history_cache' = {} /\ last_history_id' = Len(mailbox) /\ booted_at' = Len(mailbox)
        /\ mailRestarts' = mailRestarts + 1 /\ UNCHANGED <<mailbox, answered, mailFaults>>
    BY <1>9 DEF PollerRestarts, RoundRaises
  <2>2. MailTypeOK'
    BY <1>0, <2>1 DEF MailTypeOK
  <2>3. PollInv'
    BY <1>0, <2>1 DEF PollInv
  <2>4. \A i \in OfKind("mail") : i <= booted_at'
    BY <1>0, <2>1 DEF OfKind
  <2>5. AnsweredMails' = AnsweredMails /\ \A k : OfKind(k)' = OfKind(k)
    BY <2>1 DEF OfKind, AnsweredMails
  <2>6. AnswerInv'
    BY <2>1, <2>4, <2>5 DEF AnswerInv
  <2>7. QED
    BY <2>2, <2>3, <2>6
<1>10. CASE UNCHANGED mailVars
  <2>1. MailTypeOK'
    BY <1>10 DEF MailTypeOK, mailVars
  <2>2. PollInv'
    BY <1>10 DEF PollInv, mailVars
  <2>3. QED
    BY <1>10, <2>1, <2>2, QuietPoll DEF mailVars
<1>11. QED
  BY <1>a, <1>1, <1>2, <1>3, <1>4, <1>5, <1>6, <1>7, <1>8, <1>9, <1>10 DEF MailNext, Poll

LEMMA MailInitInv == MailInit => MailInv
<1> SUFFICES ASSUME MailInit PROVE MailInv
  OBVIOUS
<1>1. MailTypeOK
  BY DEF MailInit, MailTypeOK
<1>2. PollInv
  BY DEF MailInit, PollInv
<1>3. OfKind("mail") = {} /\ OfKind("own") = {} /\ AnsweredMails = {}
  BY DEF MailInit, OfKind, AnsweredMails
<1>4. AnswerInv
  BY <1>3, FS_EmptySet, MailAssumption DEF AnswerInv
<1>5. QED
  BY <1>1, <1>2, <1>4 DEF MailInv

LEMMA MailInvIsEnough == MailInv => MailAnsweredOnce
<1> SUFFICES ASSUME MailInv, NEW i \in DOMAIN mailbox
             PROVE  answered[i] <= IF mailbox[i] = "own" THEN 0 ELSE 1
  BY DEF MailAnsweredOnce
<1>1. i \in Ids
  BY MailboxBounded
<1>2. answered[i] = 0 \/ (answered[i] = 1 /\ mailbox[i] = "mail")
  <2>1. answered[i] # 0 => i \in AnsweredMails
    BY <1>1 DEF AnsweredMails
  <2>2. i \in AnsweredMails => answered[i] = 1 /\ i \in OfKind("mail")
    BY DEF MailInv, AnswerInv
  <2>3. QED
    BY <2>1, <2>2 DEF OfKind
<1>3. QED
  BY <1>2

(* No mail is answered twice and no answer is answered, whatever is listed *)
(* again after exceptions and restarts.                                    *)
THEOREM MailPollerAnsweredOnce == MailSpec => []MailAnsweredOnce
<1>1. MailInit => MailInv
  BY MailInitInv
<1>2. MailInv /\ [MailNext]_mailVars => MailInv'
  BY MailStep
<1>3. MailInv => MailAnsweredOnce
  BY MailInvIsEnough
<1>4. QED
  BY <1>1, <1>2, <1>3, PTL DEF MailSpec

-----------------------------------------------------------------------------

(***************************************************************************)
(* The limiter's window and the audit rows it has to bound.                *)
(***************************************************************************)
Falling(ages) == \A i, j \in DOMAIN ages : i <= j => ages[j] <= ages[i]

(* For each row there is an entry of the window that is no older: the last *)
(* for the last, and so on.                                                *)
Covers(window, rows) ==
  /\ Len(rows) <= Len(window)
  /\ \A k \in DOMAIN rows : window[Len(window) - Len(rows) + k] <= rows[k]

UsedInv ==
  /\ used \in [socket : Nat, issues : Nat, faults : Nat, restarts : Nat]
  /\ used.restarts <= MaxRestarts

(* The window of the limiter covers the rows of the process that runs; the *)
(* rows of the earlier ones only grow older, and a later one has none.     *)
AdmitInv ==
  /\ UsedInv
  /\ recent \in [Senders -> Seq(Nat)]
  /\ inbound \in [Processes -> [Senders -> Seq(0 .. Window)]]
  /\ \A p \in Processes, s \in Senders :
       Len(inbound[p][s]) <= Cap /\ Falling(inbound[p][s])
  /\ \A s \in Senders : Covers(recent[s], inbound[Running][s])
  /\ \A p \in Processes, s \in Senders : p > Running => inbound[p][s] = <<>>

LEMMA RunningIsOne ==
  ASSUME UsedInv
  PROVE  Running \in Processes
BY GatewayAssumption DEF UsedInv, Running, Processes

LEMMA UsesStep ==
  ASSUME UsedInv, NEW what \in {"socket", "issues", "faults"}, NEW limit, Uses(what, limit)
  PROVE  UsedInv' /\ Running' = Running
BY DEF Uses, UsedInv, Running

(* Only a restart puts another process in place of the one that runs.      *)
LEMMA UsedStep ==
  ASSUME UsedInv, [Next]_vars
  PROVE  /\ UsedInv'
         /\ Running' = Running \/ (Restart /\ Running' = Running + 1)
<1>1. ASSUME NEW what \in {"socket", "issues", "faults"}, NEW limit, Uses(what, limit)
      PROVE  UsedInv' /\ Running' = Running
  BY <1>1, UsesStep
<1>2. ASSUME UNCHANGED used PROVE UsedInv' /\ Running' = Running
  BY <1>2 DEF UsedInv, Running
<1>3. ASSUME Restart PROVE UsedInv' /\ Running' = Running + 1
  BY <1>3, GatewayAssumption DEF Restart, Uses, UsedInv, Running
<1>4. ASSUME NEW k \in Sockets, SocketDrops(k) \/ SocketTakes(k)
      PROVE  Uses("socket", MaxSocketMessages)
  BY <1>4 DEF SocketDrops, SocketTakes, Reads
<1>5. ASSUME NEW k \in Sockets, SocketOpens(k) \/ SocketAnswers(k) \/ SocketCloses(k)
      PROVE  UNCHANGED used
  BY <1>5 DEF SocketOpens, SocketAnswers, SocketCloses
<1>6. ASSUME NEW m \in Messages, WebhookRaises(m) \/ AnswerRefused(m) \/ AnswerRaises(m)
      PROVE  Uses("faults", MaxFaults)
  BY <1>6 DEF WebhookRaises, AnswerRefused, AnswerRaises
<1>7. ASSUME NEW m \in Messages,
             Posted(m) \/ WebhookDrops(m) \/ WebhookRefuses(m) \/ WebhookAdmits(m) \/ AnswerSent(m)
      PROVE  UNCHANGED used
  BY <1>7 DEF Posted, WebhookDrops, WebhookRefuses, WebhookAdmits, AnswerSent
<1>8. IssueCode => Uses("issues", MaxIssues)
  BY DEF IssueCode
<1>9. ASSUME Tick \/ (\E c \in Codes : ConfirmCode(c)) \/ UNCHANGED vars
      PROVE  UNCHANGED used
  BY <1>9 DEF Tick, ConfirmCode, vars
<1>10. QED
  BY <1>1, <1>2, <1>3, <1>4, <1>5, <1>6, <1>7, <1>8, <1>9 DEF Next, Handle

(* A step that leaves the limiter, the rows and the process alone.         *)
LEMMA AdmitRests ==
  ASSUME AdmitInv, UNCHANGED <<recent, inbound>>, UsedInv', Running' = Running
  PROVE  AdmitInv'
BY DEF AdmitInv, Falling, Covers

LEMMA Entry ==
  ASSUME NEW S, NEW seq \in Seq(S), NEW i \in DOMAIN seq
  PROVE  seq[i] \in S
OBVIOUS

LEMMA Entries ==
  ASSUME NEW S, NEW seq \in Seq(S)
  PROVE  Len(seq) \in Nat /\ DOMAIN seq = 1 .. Len(seq)
OBVIOUS

LEMMA Joined ==
  ASSUME NEW S, NEW p \in Seq(S), NEW q \in Seq(S)
  PROVE  /\ p \o q \in Seq(S) /\ Len(p \o q) = Len(p) + Len(q)
         /\ DOMAIN (p \o q) = 1 .. Len(p) + Len(q)
         /\ \A i \in 1 .. Len(p) + Len(q) :
              (p \o q)[i] = IF i <= Len(p) THEN p[i] ELSE q[i - Len(p)]
<1>1. Len(p) \in Nat /\ Len(q) \in Nat
  OBVIOUS
<1>2. QED
  BY <1>1

LEMMA Narrower ==
  ASSUME NEW S, NEW T, NEW seq \in Seq(T), \A i \in DOMAIN seq : seq[i] \in S
  PROVE  seq \in Seq(S)
<1>1. Len(seq) \in Nat /\ seq \in [1 .. Len(seq) -> S]
  OBVIOUS
<1>2. QED
  BY <1>1

LEMMA Suffix ==
  ASSUME NEW S, NEW seq \in Seq(S), NEW m \in 0 .. Len(seq)
  PROVE  LET rest == SubSeq(seq, m + 1, Len(seq)) IN
         /\ rest \in Seq(S) /\ Len(rest) = Len(seq) - m /\ DOMAIN rest = 1 .. Len(seq) - m
         /\ \A k \in 1 .. Len(seq) - m : rest[k] = seq[m + k]
<1>1. Len(seq) \in Nat /\ m \in Nat /\ m <= Len(seq)
  OBVIOUS
<1>2. QED
  BY <1>1

LEMMA Dropped ==
  ASSUME NEW ages \in Seq(Nat)
  PROVE  \E m \in 0 .. Len(ages) :
           /\ WithoutOld(ages) = SubSeq(ages, m + 1, Len(ages))
           /\ \A n \in 0 .. Len(ages) - 1 : ages[n + 1] <= Window => m <= n
           /\ Falling(ages) => \A i \in m + 1 .. Len(ages) : ages[i] <= Window
<1> DEFINE old == {i \in DOMAIN ages : \A j \in 1 .. i : ages[j] > Window}
           m == Cardinality(old)
<1>1. Len(ages) \in Nat /\ DOMAIN ages = 1 .. Len(ages) /\ Window \in Nat
  BY GatewayAssumption
<1>2. \A n \in Nat : IsFiniteSet(1 .. n) /\ Cardinality(1 .. n) = n
  <2>1. ASSUME NEW n \in Nat
        PROVE  IsFiniteSet(1 .. n) /\ Cardinality(1 .. n) = n
    <3>1. IsFiniteSet(1 .. n) /\ Cardinality(1 .. n) = IF 1 > n THEN 0 ELSE n - 1 + 1
      BY FS_Interval
    <3>2. QED
      BY <3>1
  <2>2. QED
    BY <2>1
<1>3. old \subseteq 1 .. Len(ages)
  BY <1>1
<1>4. IsFiniteSet(old) /\ m \in Nat /\ m <= Len(ages)
  <2>1. IsFiniteSet(old) /\ m <= Cardinality(1 .. Len(ages))
    BY <1>1, <1>2, <1>3, FS_Subset
  <2>2. m \in Nat
    BY <2>1, FS_CardinalityType
  <2>3. QED
    BY <1>1, <1>2, <2>1, <2>2
<1>5. ASSUME NEW n \in 0 .. Len(ages) - 1, ages[n + 1] <= Window
      PROVE  m <= n
  <2>1. n \in Nat /\ n + 1 \in 1 .. Len(ages)
    BY <1>1
  <2>2. old \subseteq 1 .. n
    <3>1. SUFFICES ASSUME NEW i \in old PROVE i <= n
      BY <1>1
    <3>2. i \in Nat /\ (n + 1 <= i => ages[n + 1] > Window)
      BY <1>1, <2>1
    <3>3. ages[n + 1] \in Nat
      BY <1>1, <2>1
    <3>4. QED
      BY <1>1, <1>5, <2>1, <3>2, <3>3
  <2>3. m <= Cardinality(1 .. n)
    BY <1>2, <2>1, <2>2, FS_Subset
  <2>4. QED
    BY <1>2, <2>1, <2>3
<1>6. ASSUME Falling(ages), NEW i \in m + 1 .. Len(ages)
      PROVE  ages[i] <= Window
  <2>1. SUFFICES ASSUME ages[i] > Window PROVE FALSE
    BY <1>1, <1>4
  <2>2. i \in Nat /\ i \in 1 .. Len(ages) /\ m < i
    BY <1>1, <1>4
  <2>3. 1 .. i \subseteq old
    <3>1. ASSUME NEW k \in 1 .. i, NEW j \in 1 .. k
          PROVE  k \in DOMAIN ages /\ ages[j] > Window
      <4>1. k \in DOMAIN ages /\ j \in DOMAIN ages /\ j <= i /\ i \in DOMAIN ages
        BY <1>1, <2>2
      <4>2. ages[i] <= ages[j] /\ ages[i] \in Nat /\ ages[j] \in Nat
        BY <1>6, <4>1 DEF Falling
      <4>3. QED
        BY <1>1, <2>1, <4>1, <4>2
    <3>2. QED
      BY <3>1
  <2>4. Cardinality(1 .. i) <= m
    BY <1>4, <2>3, FS_Subset
  <2>5. QED
    BY <1>2, <1>4, <2>2, <2>4
<1>7. WithoutOld(ages) = SubSeq(ages, m + 1, Len(ages))
  BY DEF WithoutOld
<1> HIDE DEF m, old
<1>8. m \in 0 .. Len(ages)
  BY <1>1, <1>4
<1>9. /\ \A n \in 0 .. Len(ages) - 1 : ages[n + 1] <= Window => m <= n
      /\ Falling(ages) => \A i \in m + 1 .. Len(ages) : ages[i] <= Window
  BY <1>5, <1>6
<1>10. QED
  BY <1>7, <1>8, <1>9

(* What is popped is too old to be needed for a row.                       *)
LEMMA DroppedCovers ==
  ASSUME NEW window \in Seq(Nat), NEW rows \in Seq(0 .. Window), Covers(window, rows)
  PROVE  WithoutOld(window) \in Seq(Nat) /\ Covers(WithoutOld(window), rows)
<1>1. PICK m \in 0 .. Len(window) :
        /\ WithoutOld(window) = SubSeq(window, m + 1, Len(window))
        /\ \A n \in 0 .. Len(window) - 1 : window[n + 1] <= Window => m <= n
  BY Dropped
<1> DEFINE w == WithoutOld(window)
<1>2. /\ Len(window) \in Nat /\ Len(rows) \in Nat /\ m \in Nat /\ m <= Len(window)
      /\ Window \in Nat /\ DOMAIN rows = 1 .. Len(rows)
  BY GatewayAssumption
<1>3. /\ w \in Seq(Nat) /\ Len(w) = Len(window) - m
      /\ \A k \in 1 .. Len(w) : w[k] = window[m + k]
  BY <1>1, <1>2
<1> HIDE DEF w
<1>4. m <= Len(window) - Len(rows)
  <2>1. CASE rows = <<>>
    BY <1>2, <2>1
  <2>2. CASE rows # <<>>
    <3>1. 1 \in DOMAIN rows /\ Len(rows) >= 1
      BY <1>2, <2>2
    <3> DEFINE n == Len(window) - Len(rows)
    <3>2. n \in 0 .. Len(window) - 1
      BY <1>2, <3>1 DEF Covers
    <3>3. window[n + 1] <= rows[1] /\ rows[1] \in 0 .. Window
      <4>1. window[Len(window) - Len(rows) + 1] <= rows[1]
        BY <3>1 DEF Covers
      <4>2. rows[1] \in 0 .. Window
        BY <3>1, Entry
      <4>3. QED
        BY <4>1, <4>2
    <3>4. window[n + 1] \in Nat
      BY <1>2, <3>2
    <3>5. window[n + 1] <= Window
      BY <1>2, <3>3, <3>4
    <3>6. QED
      BY <1>1, <3>2, <3>5
  <2>3. QED
    BY <2>1, <2>2
<1>5. ASSUME NEW k \in DOMAIN rows
      PROVE  w[Len(w) - Len(rows) + k] <= rows[k]
  <2>1. Len(w) - Len(rows) + k \in 1 .. Len(w)
    <3>1. k \in Nat /\ 1 <= k /\ k <= Len(rows)
      BY <1>2
    <3>2. Len(w) \in Nat /\ Len(w) - Len(rows) \in Nat
      BY <1>2, <1>3, <1>4
    <3>3. QED
      BY <1>2, <3>1, <3>2
  <2>2. w[Len(w) - Len(rows) + k] = window[m + (Len(w) - Len(rows) + k)]
    BY <1>3, <2>1
  <2>3. m + (Len(w) - Len(rows) + k) = Len(window) - Len(rows) + k
    BY <1>2, <1>3
  <2>4. QED
    BY <2>2, <2>3 DEF Covers
<1>6. Covers(w, rows)
  BY <1>2, <1>3, <1>4, <1>5 DEF Covers
<1>7. QED
  BY <1>3, <1>6 DEF w

(* An admission that has its row, and one that has not.                    *)
LEMMA AdmittedCovers ==
  ASSUME NEW window \in Seq(Nat), NEW rows \in Seq(0 .. Window), Covers(window, rows), Falling(rows)
  PROVE  /\ Covers(Append(window, 0), rows)
         /\ Covers(Append(window, 0), Append(rows, 0))
         /\ Append(rows, 0) \in Seq(0 .. Window) /\ Falling(Append(rows, 0))
<1> DEFINE w == Append(window, 0)
           r == Append(rows, 0)
<1>1. Len(window) \in Nat /\ Len(rows) \in Nat /\ Window \in Nat /\ Len(rows) <= Len(window)
  BY GatewayAssumption DEF Covers
<1>2. /\ w \in Seq(Nat) /\ Len(w) = Len(window) + 1 /\ w[Len(w)] = 0
      /\ \A k \in 1 .. Len(window) : w[k] = window[k]
  BY <1>1
<1>3. /\ r \in Seq(0 .. Window) /\ Len(r) = Len(rows) + 1 /\ r[Len(r)] = 0
      /\ \A k \in 1 .. Len(rows) : r[k] = rows[k]
      /\ DOMAIN r = 1 .. Len(r) /\ DOMAIN rows = 1 .. Len(rows)
  BY <1>1
<1>4. \A k \in DOMAIN rows : rows[k] \in 0 .. Window
  BY <1>1
<1> HIDE DEF w, r
<1>5. Covers(w, rows)
  <2>1. SUFFICES ASSUME NEW k \in DOMAIN rows
                 PROVE  w[Len(w) - Len(rows) + k] <= rows[k]
    BY <1>1, <1>2 DEF Covers
  <2>2. CASE k = Len(rows)
    BY <1>1, <1>2, <1>3, <1>4, <2>2
  <2>3. CASE k # Len(rows)
    <3>1. k + 1 \in DOMAIN rows /\ k \in Nat
      BY SMTT(30), <1>1, <1>3, <2>3
    <3>2. Len(w) - Len(rows) + k = Len(window) - Len(rows) + (k + 1)
      BY <1>1, <1>2, <3>1
    <3>3. Len(window) - Len(rows) + (k + 1) \in 1 .. Len(window)
      BY SMTT(30), <1>1, <1>3, <3>1
    <3>4. window[Len(window) - Len(rows) + (k + 1)] <= rows[k + 1]
      BY <3>1 DEF Covers
    <3>5. rows[k + 1] <= rows[k]
      BY <3>1 DEF Falling
    <3>6. window[Len(window) - Len(rows) + (k + 1)] \in Nat
      BY SMTT(30), <1>1, <3>3
    <3>7. w[Len(w) - Len(rows) + k] = window[Len(window) - Len(rows) + (k + 1)]
      BY <1>2, <3>2, <3>3
    <3>8. rows[k] \in Nat /\ rows[k + 1] \in Nat
      BY <1>1, <1>4, <3>1
    <3>9. QED
      BY <3>4, <3>5, <3>6, <3>7, <3>8
  <2>4. QED
    BY <2>2, <2>3
<1>6. Covers(w, r)
  <2>1. SUFFICES ASSUME NEW k \in DOMAIN r
                 PROVE  w[Len(w) - Len(r) + k] <= r[k]
    BY <1>1, <1>2, <1>3 DEF Covers
  <2>2. CASE k = Len(r)
    BY <1>1, <1>2, <1>3, <2>2
  <2>3. CASE k # Len(r)
    <3>1. k \in DOMAIN rows
      BY <1>1, <1>3, <2>3
    <3>2. Len(w) - Len(r) + k = Len(window) - Len(rows) + k
      BY <1>1, <1>2, <1>3, <3>1
    <3>3. Len(window) - Len(rows) + k \in 1 .. Len(window)
      BY <1>1, <1>3, <3>1
    <3>4. QED
      BY <1>2, <1>3, <3>1, <3>2, <3>3 DEF Covers
  <2>4. QED
    BY <2>2, <2>3
<1>7. Falling(r)
  <2>1. SUFFICES ASSUME NEW i \in DOMAIN r, NEW j \in DOMAIN r, i <= j
                 PROVE  r[j] <= r[i]
    BY DEF Falling
  <2>2. r[i] \in 0 .. Window
    <3>1. CASE i = Len(r)
      BY <1>1, <1>3, <3>1
    <3>2. CASE i # Len(r)
      BY <1>1, <1>3, <1>4, <3>2
    <3>3. QED
      BY <3>1, <3>2
  <2>3. CASE j = Len(r)
    BY <1>1, <1>3, <2>2, <2>3
  <2>4. CASE j # Len(r)
    <3>1. i \in DOMAIN rows /\ j \in DOMAIN rows
      BY SMTT(30), <1>1, <1>3, <2>1, <2>4
    <3>2. QED
      BY <1>3, <2>1, <3>1 DEF Falling
  <2>5. QED
    BY <2>3, <2>4
<1>8. QED
  BY <1>3, <1>5, <1>6, <1>7 DEF w, r

(* A second later.                                                         *)
LEMMA OlderCovers ==
  ASSUME NEW window \in Seq(Nat), NEW rows \in Seq(0 .. Window), Covers(window, rows), Falling(rows)
  PROVE  LET later == WithoutOld(Older(rows)) IN
         /\ Older(window) \in Seq(Nat) /\ later \in Seq(0 .. Window) /\ Len(later) <= Len(rows)
         /\ Falling(later) /\ Covers(Older(window), later)
<1> DEFINE w == Older(window)
           o == Older(rows)
           later == WithoutOld(o)
<1>1. /\ Len(window) \in Nat /\ Len(rows) \in Nat /\ Window \in Nat /\ Len(rows) <= Len(window)
      /\ DOMAIN window = 1 .. Len(window) /\ DOMAIN rows = 1 .. Len(rows)
  BY GatewayAssumption DEF Covers
<1>2. /\ w \in Seq(Nat) /\ Len(w) = Len(window)
      /\ \A k \in 1 .. Len(window) : w[k] = IF window[k] > Window THEN window[k] ELSE window[k] + 1
  <2>1. w \in [1 .. Len(window) -> Nat]
    BY <1>1 DEF Older
  <2>2. QED
    BY <1>1, <2>1 DEF Older
<1>3. /\ o \in Seq(Nat) /\ Len(o) = Len(rows) /\ DOMAIN o = 1 .. Len(rows)
      /\ \A k \in 1 .. Len(rows) : rows[k] \in 0 .. Window /\ o[k] = rows[k] + 1
  <2>1. \A k \in 1 .. Len(rows) : rows[k] \in 0 .. Window /\ o[k] = rows[k] + 1
    BY <1>1 DEF Older
  <2>2. o \in [1 .. Len(rows) -> Nat]
    BY <1>1, <2>1 DEF Older
  <2>3. QED
    BY <1>1, <2>1, <2>2 DEF Older
<1> HIDE DEF w, o
<1>4. Falling(o)
  <2>1. SUFFICES ASSUME NEW i \in DOMAIN o, NEW j \in DOMAIN o, i <= j
                 PROVE  o[j] <= o[i]
    BY DEF Falling
  <2>2. i \in DOMAIN rows /\ j \in DOMAIN rows
    BY <1>1, <1>3
  <2>3. rows[j] <= rows[i]
    BY <2>1, <2>2 DEF Falling
  <2>4. QED
    BY SMTT(30), <1>1, <1>3, <2>2, <2>3
<1>5. PICK m \in 0 .. Len(o) :
        /\ later = SubSeq(o, m + 1, Len(o))
        /\ \A i \in m + 1 .. Len(o) : o[i] <= Window
  BY <1>3, <1>4, Dropped
<1>6. m \in Nat /\ m <= Len(rows)
  BY <1>1, <1>3, <1>5
<1> HIDE DEF later
<1>7. /\ Len(later) = Len(rows) - m /\ later \in Seq(Nat)
      /\ DOMAIN later = 1 .. Len(rows) - m
      /\ \A k \in 1 .. Len(rows) - m : later[k] = o[m + k]
  <2>1. /\ Len(later) = Len(o) - m /\ later \in Seq(Nat) /\ DOMAIN later = 1 .. Len(o) - m
        /\ \A k \in 1 .. Len(o) - m : later[k] = o[m + k]
    <3>1. o \in Seq(Nat) /\ m \in 0 .. Len(o) /\ later = SubSeq(o, m + 1, Len(o))
      BY <1>3, <1>5
    <3>2. QED
      BY <3>1, Suffix
  <2>2. Len(o) = Len(rows)
    BY <1>3
  <2>3. QED
    BY <2>1, <2>2
<1>8. \A k \in 1 .. Len(rows) - m : m + k \in 1 .. Len(rows) /\ later[k] \in 0 .. Window
  <2>1. SUFFICES ASSUME NEW k \in 1 .. Len(rows) - m
                 PROVE  m + k \in 1 .. Len(rows) /\ later[k] \in 0 .. Window
    OBVIOUS
  <2>2. m + k \in m + 1 .. Len(o) /\ m + k \in 1 .. Len(rows)
    BY <1>1, <1>3, <1>6
  <2>3. o[m + k] \in Nat /\ o[m + k] <= Window
    BY <1>3, <1>5, <2>2
  <2>4. later[k] = o[m + k]
    BY <1>7
  <2>5. QED
    BY <1>1, <2>2, <2>3, <2>4
<1>9. later \in Seq(0 .. Window)
  <2>1. \A k \in DOMAIN later : later[k] \in 0 .. Window
    BY <1>7, <1>8
  <2>2. QED
    BY <1>7, <2>1, Narrower
<1>10. Falling(later)
  <2>1. SUFFICES ASSUME NEW i \in DOMAIN later, NEW j \in DOMAIN later, i <= j
                 PROVE  later[j] <= later[i]
    BY DEF Falling
  <2>2. m + i \in DOMAIN o /\ m + j \in DOMAIN o /\ m + i <= m + j
    <3>1. i \in 1 .. Len(rows) - m /\ j \in 1 .. Len(rows) - m
      BY <1>7
    <3>2. m + i \in DOMAIN o /\ m + j \in DOMAIN o
      BY <1>3, <1>8, <3>1
    <3>3. QED
      BY <1>1, <1>6, <2>1, <3>1, <3>2
  <2>3. QED
    BY <1>4, <1>7, <2>1, <2>2 DEF Falling
<1>11. Covers(w, later)
  <2>0. Len(later) <= Len(w)
    BY <1>1, <1>2, <1>6, <1>7
  <2>1. SUFFICES ASSUME NEW k \in 1 .. Len(rows) - m
                 PROVE  w[Len(w) - Len(later) + k] <= later[k]
    BY <1>7, <2>0 DEF Covers
  <2>2. m + k \in 1 .. Len(rows) /\ k \in Nat
    BY <1>1, <1>6, <1>8
  <2> DEFINE p == Len(window) - Len(rows) + (m + k)
  <2>3. p \in 1 .. Len(window) /\ Len(w) - Len(later) + k = p
    BY <1>1, <1>2, <1>6, <1>7, <2>2
  <2>4. window[p] <= rows[m + k] /\ rows[m + k] \in 0 .. Window
    BY <1>1, <1>3, <2>2 DEF Covers
  <2>5. window[p] \in Nat
    BY <1>1, <2>3
  <2> HIDE DEF p
  <2>6. w[p] = window[p] + 1
    BY <1>1, <1>2, <2>3, <2>4, <2>5
  <2>7. later[k] = rows[m + k] + 1
    BY <1>3, <1>7, <2>2
  <2>8. QED
    BY SMTT(30), <2>3, <2>4, <2>5, <2>6, <2>7
<1>12. QED
  BY <1>1, <1>2, <1>6, <1>7, <1>9, <1>10, <1>11 DEF w, o, later

LEMMA SeqOfNat ==
  ASSUME NEW rows \in Seq(0 .. Window)
  PROVE  rows \in Seq(Nat)
<1>1. \A i \in DOMAIN rows : rows[i] \in Nat
  <2>1. \A i \in DOMAIN rows : rows[i] \in 0 .. Window
    BY Entry
  <2>2. QED
    BY <2>1, GatewayAssumption
<1>2. QED
  BY <1>1, Narrower

LEMMA CoversItself ==
  ASSUME NEW rows \in Seq(Nat)
  PROVE  Covers(rows, rows)
<1>1. Len(rows) \in Nat /\ DOMAIN rows = 1 .. Len(rows)
  BY Entries
<1>2. ASSUME NEW k \in DOMAIN rows
      PROVE  rows[Len(rows) - Len(rows) + k] <= rows[k]
  <2>1. Len(rows) - Len(rows) + k = k
    BY <1>1
  <2>2. rows[k] \in Nat
    BY Entry
  <2>3. QED
    BY <2>1, <2>2
<1>3. QED
  BY <1>1, <1>2 DEF Covers

(* check_message, with the row of an admitted message or without one.      *)
LEMMA CountedAdmits ==
  ASSUME AdmitInv, NEW s \in Senders, Counted(s), UsedInv', Running' = Running,
         UNCHANGED inbound \/ (RowWritten(s) /\ ~Refused(s))
  PROVE  AdmitInv'
<1> DEFINE rows == inbound[Running][s]
           kept == WithoutOld(recent[s])
<1>0. Running \in Processes /\ Running \in Nat
  BY RunningIsOne DEF AdmitInv, Processes
<1>1. /\ rows \in Seq(0 .. Window) /\ recent[s] \in Seq(Nat) /\ Cap \in Nat
      /\ Len(rows) <= Cap /\ Falling(rows) /\ Covers(recent[s], rows)
  BY <1>0, GatewayAssumption DEF AdmitInv
<1>2. kept \in Seq(Nat) /\ Covers(kept, rows) /\ Recent(s) = kept
  BY <1>1, DroppedCovers DEF Recent
<1> HIDE DEF kept
<1>3. /\ Covers(Append(kept, 0), rows)
      /\ Covers(Append(kept, 0), Append(rows, 0))
      /\ Append(rows, 0) \in Seq(0 .. Window) /\ Falling(Append(rows, 0))
  BY <1>1, <1>2, AdmittedCovers
<1>4. Append(kept, 0) \in Seq(Nat) /\ Len(Append(rows, 0)) = Len(rows) + 1
  BY <1>1, <1>2
<1>5. /\ recent' \in [Senders -> Seq(Nat)]
      /\ recent'[s] = IF Refused(s) THEN kept ELSE Append(kept, 0)
      /\ \A t \in Senders \ {s} : recent'[t] = recent[t]
  BY <1>2, <1>4 DEF Counted, AdmitInv
<1>6. CASE UNCHANGED inbound
  <2>1. Covers(recent'[s], rows)
    BY <1>2, <1>3, <1>5
  <2>2. \A t \in Senders : Covers(recent'[t], inbound[Running][t])
    BY <1>5, <2>1 DEF AdmitInv
  <2>3. QED
    BY <1>5, <1>6, <2>2 DEF AdmitInv, Falling, Covers
<1>7. CASE RowWritten(s) /\ ~Refused(s)
  <2>1. /\ inbound' \in [Processes -> [Senders -> Seq(0 .. Window)]]
        /\ inbound'[Running][s] = Append(rows, 0)
        /\ \A p \in Processes, t \in Senders :
             p # Running \/ t # s => inbound'[p][t] = inbound[p][t]
    BY <1>0, <1>3, <1>7 DEF RowWritten, AdmitInv
  <2>2. Len(rows) + 1 <= Cap
    <3>1. ~ (Len(kept) >= Cap)
      BY <1>2, <1>7 DEF Refused
    <3>2. Len(rows) <= Len(kept) /\ Len(rows) \in Nat /\ Len(kept) \in Nat
      BY <1>1, <1>2 DEF Covers
    <3>3. QED
      BY <1>1, <3>1, <3>2
  <2>3. recent'[s] = Append(kept, 0)
    BY <1>5, <1>7
  <2>4. ASSUME NEW p \in Processes, NEW t \in Senders
        PROVE  Len(inbound'[p][t]) <= Cap /\ Falling(inbound'[p][t])
    <3>1. CASE p = Running /\ t = s
      BY <1>3, <1>4, <2>1, <2>2, <3>1
    <3>2. CASE p # Running \/ t # s
      BY <2>1, <3>2 DEF AdmitInv
    <3>3. QED
      BY <3>1, <3>2
  <2>5. ASSUME NEW t \in Senders
        PROVE  Covers(recent'[t], inbound'[Running][t])
    <3>1. CASE t = s
      BY <1>3, <2>1, <2>3, <3>1
    <3>2. CASE t # s
      BY <1>0, <1>5, <2>1, <3>2 DEF AdmitInv
    <3>3. QED
      BY <3>1, <3>2
  <2>6. ASSUME NEW p \in Processes, NEW t \in Senders, p > Running
        PROVE  inbound'[p][t] = <<>>
    <3>1. p # Running
      BY <1>0, <2>6
    <3>2. QED
      BY <2>1, <2>6, <3>1 DEF AdmitInv
  <2>7. QED
    BY <1>5, <2>1, <2>4, <2>5, <2>6 DEF AdmitInv, Falling, Covers
<1>8. QED
  BY <1>6, <1>7

(* A second passes: rows grow older, whichever process wrote them.         *)
LEMMA TickAdmits ==
  ASSUME AdmitInv, Tick, UsedInv', Running' = Running
  PROVE  AdmitInv'
<1>0. Running \in Processes
  BY RunningIsOne DEF AdmitInv
<1>1. /\ recent' = [s \in Senders |-> Older(recent[s])]
      /\ inbound' = [p \in Processes |-> [s \in Senders |-> WithoutOld(Older(inbound[p][s]))]]
  BY DEF Tick
<1>2. ASSUME NEW p \in Processes, NEW s \in Senders
      PROVE  /\ inbound'[p][s] \in Seq(0 .. Window)
             /\ Len(inbound'[p][s]) <= Cap /\ Falling(inbound'[p][s])
             /\ inbound[p][s] = <<>> => inbound'[p][s] = <<>>
  <2>1. /\ inbound[p][s] \in Seq(0 .. Window) /\ inbound[p][s] \in Seq(Nat)
        /\ Len(inbound[p][s]) <= Cap /\ Falling(inbound[p][s])
    BY SeqOfNat DEF AdmitInv
  <2>2. Covers(inbound[p][s], inbound[p][s])
    BY <2>1, CoversItself
  <2>3. inbound'[p][s] = WithoutOld(Older(inbound[p][s]))
    BY <1>1
  <2>4. /\ inbound'[p][s] \in Seq(0 .. Window) /\ Falling(inbound'[p][s])
        /\ Len(inbound'[p][s]) <= Len(inbound[p][s])
    BY <2>1, <2>2, <2>3, OlderCovers
  <2>5. Len(inbound'[p][s]) \in Nat /\ Len(inbound[p][s]) \in Nat /\ Cap \in Nat
    BY <2>1, <2>4, GatewayAssumption
  <2>6. inbound[p][s] = <<>> => inbound'[p][s] = <<>>
    <3>1. inbound[p][s] = <<>> => Len(inbound'[p][s]) = 0
      BY <2>4, <2>5
    <3>2. QED
      BY <2>4, <3>1
  <2>7. QED
    BY <2>1, <2>4, <2>5, <2>6
<1>3. ASSUME NEW s \in Senders
      PROVE  recent'[s] \in Seq(Nat) /\ Covers(recent'[s], inbound'[Running][s])
  <2>1. /\ recent[s] \in Seq(Nat) /\ inbound[Running][s] \in Seq(0 .. Window)
        /\ Falling(inbound[Running][s]) /\ Covers(recent[s], inbound[Running][s])
    BY <1>0 DEF AdmitInv
  <2>2. /\ recent'[s] = Older(recent[s])
        /\ inbound'[Running][s] = WithoutOld(Older(inbound[Running][s]))
    BY <1>0, <1>1
  <2>3. QED
    BY <2>1, <2>2, OlderCovers
<1>4. /\ recent' \in [Senders -> Seq(Nat)]
      /\ inbound' \in [Processes -> [Senders -> Seq(0 .. Window)]]
  BY <1>1, <1>2, <1>3
<1>5. \A p \in Processes, s \in Senders : p > Running => inbound'[p][s] = <<>>
  BY <1>2 DEF AdmitInv
<1>6. QED
  BY <1>2, <1>3, <1>4, <1>5 DEF AdmitInv, Falling, Covers

(* The next process starts with no window, and with no rows of its own.    *)
LEMMA RestartAdmits ==
  ASSUME AdmitInv, Restart, UsedInv', Running' = Running + 1
  PROVE  AdmitInv'
<1>0. /\ Running \in Processes /\ Running' \in Processes /\ Running \in Nat
      /\ \A p \in Processes : p \in Nat
  <2>1. Running' \in Processes
    BY GatewayAssumption DEF UsedInv, Running, Processes
  <2>2. QED
    BY <2>1, RunningIsOne DEF AdmitInv, Processes
<1>1. recent' = [s \in Senders |-> <<>>] /\ inbound' = inbound
  BY DEF Restart, Process
<1>2. \A p \in Processes : p > Running' => p > Running
  BY <1>0
<1>3. \A s \in Senders : inbound[Running'][s] = <<>>
  <2>1. Running' > Running
    BY <1>0
  <2>2. QED
    BY <1>0, <2>1 DEF AdmitInv
<1>4. \A s \in Senders : Covers(recent'[s], inbound'[Running'][s])
  <2>1. Len(<<>>) = 0 /\ DOMAIN <<>> = {}
    OBVIOUS
  <2>2. \A s \in Senders : recent'[s] = <<>> /\ inbound'[Running'][s] = <<>>
    BY <1>1, <1>3
  <2>3. QED
    BY <2>1, <2>2 DEF Covers
<1>5. recent' \in [Senders -> Seq(Nat)]
  BY <1>1
<1>6. QED
  BY <1>1, <1>2, <1>4, <1>5 DEF AdmitInv, Falling, Covers

LEMMA AdmitStep == AdmitInv /\ [Next]_vars => AdmitInv'
<1> SUFFICES ASSUME AdmitInv, [Next]_vars PROVE AdmitInv'
  OBVIOUS
<1>1. UsedInv' /\ (Running' = Running \/ (Restart /\ Running' = Running + 1))
  BY UsedStep DEF AdmitInv
<1>2. CASE Restart /\ Running' = Running + 1
  BY <1>1, <1>2, RestartAdmits
<1>3. CASE Running' = Running
  <2>1. CASE Tick
    BY <1>1, <1>3, <2>1, TickAdmits
  <2>2. CASE Restart
    <3>1. Running' = Running + 1 /\ Running \in Nat
      BY <2>2 DEF Restart, Uses, AdmitInv, UsedInv, Running
    <3>2. QED
      BY <1>3, <3>1
  <2>3. ASSUME NEW k \in Sockets, SocketTakes(k)
        PROVE  AdmitInv'
    <3>1. PICK s \in Senders : /\ Counted(s)
                               /\ IF Refused(s) THEN UNCHANGED inbound ELSE RowWritten(s)
      BY <2>3 DEF SocketTakes
    <3>2. QED
      BY <1>1, <1>3, <3>1, CountedAdmits
  <2>4. ASSUME NEW m \in Messages, WebhookRefuses(m) \/ WebhookAdmits(m) \/ WebhookRaises(m)
        PROVE  AdmitInv'
    <3>1. From[m] \in Senders
      BY GatewayAssumption
    <3>2. Counted(From[m]) /\ (UNCHANGED inbound \/ (RowWritten(From[m]) /\ ~Refused(From[m])))
      BY <2>4 DEF WebhookRefuses, WebhookAdmits, WebhookRaises
    <3>3. QED
      BY <1>1, <1>3, <3>1, <3>2, CountedAdmits
  <2>5. ASSUME NEW k \in Sockets, SocketOpens(k) \/ SocketDrops(k) \/ SocketAnswers(k) \/ SocketCloses(k)
        PROVE  UNCHANGED <<recent, inbound>>
    BY <2>5 DEF SocketOpens, SocketDrops, SocketAnswers, SocketCloses
  <2>6. ASSUME NEW m \in Messages,
               Posted(m) \/ WebhookDrops(m) \/ AnswerSent(m) \/ AnswerRefused(m) \/ AnswerRaises(m)
        PROVE  UNCHANGED <<recent, inbound>>
    BY <2>6 DEF Posted, WebhookDrops, AnswerSent, AnswerRefused, AnswerRaises
  <2>7. ASSUME IssueCode \/ (\E c \in Codes : ConfirmCode(c)) \/ UNCHANGED vars
        PROVE  UNCHANGED <<recent, inbound>>
    BY <2>7 DEF IssueCode, ConfirmCode, vars
  <2>8. ASSUME UNCHANGED <<recent, inbound>> PROVE AdmitInv'
    BY <1>1, <1>3, <2>8, AdmitRests
  <2>9. QED
    BY <2>1, <2>2, <2>3, <2>4, <2>5, <2>6, <2>7, <2>8 DEF Next, Handle
<1>4. QED
  BY <1>1, <1>2, <1>3

-----------------------------------------------------------------------------
(***************************************************************************)
(* Pairings, and who is told what.  A user who is paired stays so.         *)
(***************************************************************************)
PairInv ==
  /\ pairings \in [Senders -> Levels \cup {"none"}]
  /\ \A c \in Codes : Asked(c) => pending[c].user \in Senders /\ pending[c].level \in Levels
  /\ DOMAIN pending = Codes

PairingsStay ==
  /\ pairings' \in [Senders -> Levels \cup {"none"}]
  /\ \A s \in Senders : pairings[s] # "none" => pairings'[s] # "none"

(* Nothing final has been said for an event that is here.                  *)
Unanswered == {"new", "polled", "taken", "answering", "acking", "asking", "limited", "refused", "dropped"}

Rooms(i) == Home(i) \cup {Unaddressed} \cup (IF channel = "slack" THEN {SlackTo(i)} ELSE {})

EventOK(i) ==
  /\ told[i] \in Seq([to : Rooms(i), final : BOOLEAN])
  /\ at[i] \in Unanswered => \A m \in DOMAIN told[i] : ~told[i][m].final
  /\ \A m, n \in DOMAIN told[i] : told[i][m].final /\ told[i][n].final => m = n
  /\ channel = "teams" /\ at[i] \in {"taken", "answering"} =>
       conv_cache[User(i)] \in {j \in Events : User(j) = User(i)}
  /\ at[i] \in {"acking", "asking"} =>
       channel = "line" /\ Level(i) # "none" /\ reply_tokens[User(i)] = NoEvent

AdaptInv ==
  /\ channel \in Names
  /\ conv_cache \in [Senders -> Events \cup {NoEvent}]
  /\ reply_tokens \in [Senders -> Events \cup {NoEvent}]
  /\ DOMAIN at = Events /\ DOMAIN told = Events
  /\ \A i \in Events : EventOK(i)

LEMMA Senders1 == ASSUME NEW i \in Events PROVE User(i) \in Senders
BY AdaptersAssumption DEF User, Events

LEMMA PairStep ==
  ASSUME PairInv, [Next]_vars \/ AdaptersNext
  PROVE  PairInv' /\ PairingsStay
<1> USE DEF Levels
<1>1. CASE UNCHANGED <<pairings, pending>>
  BY <1>1 DEF PairInv, PairingsStay, Asked
<1>2. CASE IssueCode
  <2>1. PICK c \in Codes, s \in Senders, l \in Levels :
          pending' = [pending EXCEPT ![c] = [user |-> s, level |-> l, left |-> CodeTtl]]
    BY <1>2 DEF IssueCode
  <2>2. pairings' = pairings
    BY <1>2 DEF IssueCode
  <2>3. QED
    BY <2>1, <2>2 DEF PairInv, PairingsStay, Asked
<1>3. ASSUME NEW c \in Codes, ConfirmCode(c)
      PROVE  PairInv' /\ PairingsStay
  <2>1. pairings' = pairings \/ pairings' = [pairings EXCEPT ![pending[c].user] = pending[c].level]
    BY <1>3 DEF ConfirmCode, Paired
  <2>2. pending[c].user \in Senders /\ pending[c].level \in Levels
    BY <1>3 DEF ConfirmCode, PairInv
  <2>3. PairingsStay
    BY <2>1, <2>2 DEF PairInv, PairingsStay
  <2>4. pending' = [pending EXCEPT ![c] = NoCode]
    BY <1>3 DEF ConfirmCode
  <2>5. QED
    BY <2>3, <2>4 DEF PairInv, PairingsStay, Asked
<1>4. CASE Tick
  <2>1. pairings' = pairings
    BY <1>4 DEF Tick
  <2>3. ASSUME NEW c \in Codes, Asked(c)'
        PROVE  pending'[c].user \in Senders /\ pending'[c].level \in Levels
    <3>1. Asked(c) /\ pending'[c].user = pending[c].user /\ pending'[c].level = pending[c].level
      BY <1>4, <2>3 DEF Tick, Asked
    <3>2. QED
      BY <3>1 DEF PairInv
  <2>4. DOMAIN pending' = Codes
    BY <1>4 DEF Tick
  <2>5. QED
    BY <2>1, <2>3, <2>4 DEF PairInv, PairingsStay
<1>5. CASE Restart
  <2>1. pending' = pending
    BY <1>5 DEF Restart
  <2>2. \/ pairings' = pairings
        \/ \E c \in Codes : Asked(c) /\ pairings' = [pairings EXCEPT ![pending[c].user] = pending[c].level]
    BY <1>5 DEF Restart, Paired
  <2>3. PairingsStay
    BY <2>2 DEF PairInv, PairingsStay
  <2>4. QED
    BY <2>1, <2>3 DEF PairInv, PairingsStay, Asked
<1>6. ASSUME NEW k \in Sockets,
             SocketOpens(k) \/ SocketDrops(k) \/ SocketTakes(k) \/ SocketAnswers(k) \/ SocketCloses(k)
      PROVE  UNCHANGED <<pairings, pending>>
  BY <1>6 DEF SocketOpens, SocketDrops, SocketTakes, SocketAnswers, SocketCloses
<1>7. ASSUME NEW m \in Messages,
             Posted(m) \/ Handle(m) \/ WebhookRaises(m) \/ AnswerRefused(m) \/ AnswerRaises(m)
      PROVE  UNCHANGED <<pairings, pending>>
  BY <1>7 DEF Posted, Handle, WebhookDrops, WebhookRefuses, WebhookAdmits, WebhookRaises,
              AnswerSent, AnswerRefused, AnswerRaises
<1>8. ASSUME NEW i \in Events, TelegramPolls(i), UNCHANGED pending
      PROVE  PairInv' /\ PairingsStay
  <2>1. pairings' = pairings \/ pairings' = [pairings EXCEPT ![User(i)] = "owner_paired"]
    BY <1>8 DEF TelegramPolls
  <2>2. QED
    BY <1>8, <2>1, Senders1 DEF PairInv, PairingsStay, Asked
<1>9. ASSUME NEW i \in Events,
             \/ Receives(i) \/ Drops(i) \/ Relays(i) \/ Delivers(i) \/ SendRaises(i)
             \/ LineDrops(i) \/ LineTakes(i) \/ LineSent(i) \/ LineRaises(i) \/ LineAnswers(i)
      PROVE  UNCHANGED pairings
  BY <1>9 DEF Receives, Drops, Relays, Delivers, SendRaises,
              LineDrops, LineTakes, LineSent, LineRaises, LineAnswers
<1>10. ASSUME LinkCloses \/ LinkOpens
       PROVE  UNCHANGED pairings
  BY <1>10 DEF LinkCloses, LinkOpens
<1>11. CASE UNCHANGED vars
  BY <1>1, <1>11 DEF vars
<1>12. CASE Next
  BY <1>1, <1>2, <1>3, <1>4, <1>5, <1>6, <1>7, <1>12 DEF Next
<1>13. CASE AdaptersNext
  BY <1>1, <1>2, <1>3, <1>8, <1>9, <1>10, <1>13 DEF AdaptersNext, AdaptersStep
<1>14. QED
  BY <1>11, <1>12, <1>13

LEMMA EventGoesOn ==
  ASSUME PairInv, PairingsStay, NEW i \in Events, EventOK(i), channel' = channel,
         told'[i] = told[i],
         at'[i] \in Unanswered => at[i] \in Unanswered,
         channel = "teams" /\ at'[i] \in {"taken", "answering"} =>
           conv_cache'[User(i)] \in {j \in Events : User(j) = User(i)},
         at'[i] \in {"acking", "asking"} =>
           /\ at[i] \in {"acking", "asking"}
           /\ reply_tokens'[User(i)] \in {reply_tokens[User(i)], NoEvent}
  PROVE  EventOK(i)'
<1>1. Rooms(i)' = Rooms(i)
  BY DEF Rooms, Home, SlackTo
<1>2. Level(i) # "none" => Level(i)' # "none"
  BY Senders1 DEF PairingsStay, Level
<1>3. told'[i] \in Seq([to : Rooms(i)', final : BOOLEAN])
  BY <1>1 DEF EventOK
<1>4. QED
  BY <1>2, <1>3 DEF EventOK

LEMMA EventIsTold ==
  ASSUME PairInv, PairingsStay, NEW i \in Events, EventOK(i), channel' = channel,
         NEW to \in Rooms(i), NEW final \in BOOLEAN,
         told'[i] = Append(told[i], [to |-> to, final |-> final]),
         at[i] \in Unanswered, final => at'[i] \notin Unanswered,
         at'[i] \notin {"taken", "answering"},
         at'[i] \in {"acking", "asking"} =>
           channel = "line" /\ Level(i) # "none" /\ reply_tokens'[User(i)] = NoEvent
  PROVE  EventOK(i)'
<1> DEFINE t == [to |-> to, final |-> final]
           Texts == [to : Rooms(i), final : BOOLEAN]
<1>1. Rooms(i)' = Rooms(i)
  BY DEF Rooms, Home, SlackTo
<1>2. Level(i) # "none" => Level(i)' # "none"
  BY Senders1 DEF PairingsStay, Level
<1>3. t \in Texts /\ t.final = final /\ told[i] \in Seq(Texts)
  BY DEF EventOK
<1> HIDE DEF t, Texts
<1>4. /\ told'[i] \in Seq(Texts) /\ DOMAIN told'[i] = DOMAIN told[i] \cup {Len(told[i]) + 1}
      /\ \A m \in DOMAIN told[i] : told'[i][m] = told[i][m]
      /\ told'[i][Len(told[i]) + 1] = t
  BY <1>3 DEF t
<1>5. \A m \in DOMAIN told[i] : ~told[i][m].final
  BY DEF EventOK
<1>6. /\ at'[i] \in Unanswered => \A m \in DOMAIN told'[i] : ~told'[i][m].final
      /\ \A m, n \in DOMAIN told'[i] : told'[i][m].final /\ told'[i][n].final => m = n
  BY <1>3, <1>4, <1>5
<1>7. told'[i] \in Seq([to : Rooms(i)', final : BOOLEAN])
  BY <1>1, <1>4 DEF Texts
<1>8. QED
  BY <1>2, <1>6, <1>7 DEF EventOK

(* Where send of each adapter carries the answer.                          *)
LEMMA AddressIsHome ==
  ASSUME AdaptInv, NEW i \in Events, at[i] = "answering", channel # "line"
  PROVE  Address(i) \in Rooms(i)
<1>1. channel \in Names
  BY DEF AdaptInv
<1>2. CASE channel = "teams"
  <2>1. conv_cache[User(i)] \in {j \in Events : User(j) = User(i)}
    BY <1>2 DEF AdaptInv, EventOK
  <2>2. Address(i) = Wire[conv_cache[User(i)]].place
    BY <1>2 DEF Address, TeamsTo
  <2>3. QED
    BY <1>2, <2>1, <2>2 DEF Rooms, Home
<1>3. CASE channel # "teams"
  <2>1. Address(i) \in {User(i), Wire[i].place, Unaddressed}
        \/ (channel = "slack" /\ Address(i) = SlackTo(i))
    BY <1>1, <1>3 DEF Names, Address, TelegramTo, DiscordTo, MatrixTo, WebUiTo, WebhookTo, SignalTo,
                      TwilioSmsTo, ImapTo, LocalMicTo
  <2>2. QED
    BY <1>3, <2>1 DEF Rooms, Home
<1>4. QED
  BY <1>2, <1>3

LEMMA AdaptersRest ==
  ASSUME AdaptInv, PairInv, PairingsStay, UNCHANGED adapterVars
  PROVE  AdaptInv'
<1>1. UNCHANGED <<channel, at, told, conv_cache, reply_tokens>>
  BY DEF adapterVars
<1>2. \A i \in Events : EventOK(i)'
  <2>1. SUFFICES ASSUME NEW i \in Events PROVE EventOK(i)'
    OBVIOUS
  <2>2. EventOK(i)
    BY DEF AdaptInv
  <2>3. channel = "teams" /\ at[i] \in {"taken", "answering"} =>
          conv_cache[User(i)] \in {j \in Events : User(j) = User(i)}
    BY <2>2 DEF EventOK
  <2>4. QED
    BY <1>1, <2>2, <2>3, EventGoesOn
<1>3. QED
  BY <1>1, <1>2 DEF AdaptInv

(* An event goes on and the others stay where they are.                    *)
LEMMA OneGoesOn ==
  ASSUME AdaptInv, PairInv, PairingsStay, NEW i \in Events, NEW pc, Becomes(i, pc),
         UNCHANGED <<channel, told, conv_cache, reply_tokens>>,
         pc \in Unanswered => at[i] \in Unanswered,
         pc \in {"taken", "answering"} => at[i] \in {"taken", "answering"},
         pc \in {"acking", "asking"} => at[i] \in {"acking", "asking"}
  PROVE  AdaptInv'
<1>1. DOMAIN at' = Events /\ at'[i] = pc /\ \A j \in Events \ {i} : at'[j] = at[j]
  BY DEF AdaptInv, Becomes
<1>2. ASSUME NEW j \in Events
      PROVE  EventOK(j)'
  <2>1. EventOK(j)
    BY DEF AdaptInv
  <2>2. at'[j] \in Unanswered => at[j] \in Unanswered
    BY <1>1
  <2>3. channel = "teams" /\ at'[j] \in {"taken", "answering"} =>
          conv_cache'[User(j)] \in {k \in Events : User(k) = User(j)}
    BY <1>1, <2>1 DEF EventOK
  <2>4. at'[j] \in {"acking", "asking"} => at[j] \in {"acking", "asking"}
    BY <1>1
  <2>5. QED
    BY <2>1, <2>2, <2>3, <2>4, EventGoesOn
<1>3. QED
  BY <1>1, <1>2 DEF AdaptInv

(* An event goes on with a text of its own; a reply token may be gone.     *)
LEMMA OneIsTold ==
  ASSUME AdaptInv, PairInv, PairingsStay, NEW i \in Events, NEW pc, Becomes(i, pc),
         NEW to \in Rooms(i), NEW final \in BOOLEAN, Told(i, to, final),
         UNCHANGED <<channel, conv_cache>>,
         reply_tokens' = reply_tokens \/ reply_tokens' = [reply_tokens EXCEPT ![User(i)] = NoEvent],
         at[i] \in Unanswered, final => pc \notin Unanswered,
         pc \notin {"taken", "answering"},
         pc \in {"acking", "asking"} =>
           /\ channel = "line" /\ Level(i) # "none"
           /\ reply_tokens' = [reply_tokens EXCEPT ![User(i)] = NoEvent]
  PROVE  AdaptInv'
<1>1. DOMAIN at' = Events /\ at'[i] = pc /\ \A j \in Events \ {i} : at'[j] = at[j]
  BY DEF AdaptInv, Becomes
<1>2. /\ DOMAIN told' = Events /\ told'[i] = Append(told[i], [to |-> to, final |-> final])
      /\ \A j \in Events \ {i} : told'[j] = told[j]
  BY DEF AdaptInv, Told
<1>3. reply_tokens' \in [Senders -> Events \cup {NoEvent}]
  BY DEF AdaptInv
<1>4. EventOK(i) /\ User(i) \in Senders
  BY Senders1 DEF AdaptInv
<1>5. EventOK(i)'
  <2>1. pc \in {"acking", "asking"} =>
          channel = "line" /\ Level(i) # "none" /\ reply_tokens'[User(i)] = NoEvent
    BY <1>4 DEF AdaptInv
  <2>2. QED
    BY <1>1, <1>2, <1>4, <2>1, EventIsTold
<1>6. ASSUME NEW j \in Events \ {i}
      PROVE  EventOK(j)'
  <2>1. EventOK(j) /\ User(j) \in Senders
    BY Senders1 DEF AdaptInv
  <2>2. channel = "teams" /\ at'[j] \in {"taken", "answering"} =>
          conv_cache'[User(j)] \in {k \in Events : User(k) = User(j)}
    BY <1>1, <2>1 DEF EventOK
  <2>3. reply_tokens'[User(j)] \in {reply_tokens[User(j)], NoEvent}
    BY <2>1 DEF AdaptInv
  <2>4. QED
    BY <1>1, <1>2, <2>1, <2>2, <2>3, EventGoesOn
<1>7. QED
  BY <1>1, <1>2, <1>3, <1>5, <1>6 DEF AdaptInv

LEMMA SomeAreLost ==
  ASSUME AdaptInv, PairInv, PairingsStay, UNCHANGED <<channel, told, conv_cache, reply_tokens>>,
         DOMAIN at' = Events, \A j \in Events : at'[j] \in {at[j], "lost"}
  PROVE  AdaptInv'
<1>1. ASSUME NEW j \in Events
      PROVE  EventOK(j)'
  <2>1. EventOK(j)
    BY DEF AdaptInv
  <2>2. at'[j] \in Unanswered => at[j] \in Unanswered
    BY DEF Unanswered
  <2>3. channel = "teams" /\ at'[j] \in {"taken", "answering"} =>
          conv_cache'[User(j)] \in {k \in Events : User(k) = User(j)}
    BY <2>1 DEF EventOK
  <2>4. at'[j] \in {"acking", "asking"} => at[j] \in {"acking", "asking"}
    OBVIOUS
  <2>5. QED
    BY <2>1, <2>2, <2>3, <2>4, EventGoesOn
<1>2. QED
  BY <1>1 DEF AdaptInv

(* Telegram's updates are polled in order; only LINE tells by itself.      *)
OrderInv ==
  /\ offset \in Nat /\ DOMAIN at = Events
  /\ channel = "telegram" => \A i \in Events : offset <= i => at[i] = "new"
  /\ \A i \in Events : at[i] \in {"telling", "telling answer"} => channel = "line"

LEMMA OrderStep ==
  ASSUME AdaptInv, OrderInv, AdaptersStep
  PROVE  OrderInv'
<1>1. ASSUME NEW i \in Events, NEW pc, Becomes(i, pc), UNCHANGED <<channel, offset>>,
             channel = "telegram" => at[i] # "new",
             pc \in {"telling", "telling answer"} => channel = "line"
      PROVE  OrderInv'
  BY <1>1 DEF OrderInv, Becomes
<1>2. ASSUME NEW i \in Events, TelegramPolls(i)
      PROVE  OrderInv'
  <2>1. channel = "telegram" /\ channel' = channel /\ offset = i /\ offset' = i + 1
    BY <1>2 DEF TelegramPolls
  <2>2. DOMAIN at' = Events /\ at'[i] = "polled" /\ \A j \in Events \ {i} : at'[j] = at[j]
    BY <1>2 DEF TelegramPolls, Becomes, OrderInv
  <2>3. i \in Nat /\ \A j \in Events : j \in Nat
    BY AdaptersAssumption DEF Events
  <2>4. \A j \in Events : i + 1 <= j => at'[j] = "new"
    <3>1. SUFFICES ASSUME NEW j \in Events, i + 1 <= j PROVE at'[j] = "new"
      OBVIOUS
    <3>2. j # i /\ offset <= j
      BY <2>1, <2>3, <3>1
    <3>3. QED
      BY <2>1, <2>2, <3>2 DEF OrderInv
  <2>5. offset' \in Nat
    BY <2>1, <2>3
  <2>6. channel = "telegram" => \A j \in Events : offset' <= j => at'[j] = "new"
    BY <2>1, <2>4
  <2>7. \A j \in Events : at'[j] \in {"telling", "telling answer"} => channel = "line"
    BY <2>2 DEF OrderInv
  <2>8. QED
    BY <2>1, <2>2, <2>5, <2>6, <2>7 DEF OrderInv
<1>3. ASSUME NEW i \in Events, Receives(i)
      PROVE  OrderInv'
  BY <1>1, <1>3 DEF Receives, Arrived
<1>4. ASSUME NEW i \in Events, Drops(i)
      PROVE  OrderInv'
  BY <1>1, <1>4 DEF Drops, Arrived, bridgeVars
<1>5. ASSUME NEW i \in Events, Relays(i)
      PROVE  OrderInv'
  BY <1>1, <1>5 DEF Relays, bridgeVars
<1>6. ASSUME NEW i \in Events, Delivers(i) \/ SendRaises(i)
      PROVE  OrderInv'
  BY <1>1, <1>6 DEF Delivers, SendRaises, bridgeVars
<1>7. ASSUME NEW i \in Events, LineDrops(i) \/ LineTakes(i)
      PROVE  OrderInv'
  BY <1>1, <1>7 DEF LineDrops, LineTakes, Turn
<1>8. ASSUME NEW i \in Events, LineSent(i) \/ LineAnswers(i)
      PROVE  OrderInv'
  <2>1. at[i] \in {"telling", "telling answer", "acking", "asking"}
    BY <1>8 DEF LineSent, LineAnswers
  <2>2. channel = "line"
    BY <2>1 DEF AdaptInv, EventOK, OrderInv
  <2>3. QED
    BY <1>1, <1>8, <2>2 DEF LineSent, LineAnswers, bridgeVars
<1>9. ASSUME NEW i \in Events, LineRaises(i)
      PROVE  OrderInv'
  <2>1. channel = "line"
    BY <1>9 DEF LineRaises, AdaptInv, EventOK, OrderInv
  <2>2. /\ UNCHANGED <<channel, offset>> /\ DOMAIN at' = Events
        /\ \A j \in Events : at'[j] \in {at[j], "lost"}
    BY <1>9 DEF LineRaises, bridgeVars
  <2>3. QED
    BY <2>1, <2>2 DEF OrderInv
<1>10. CASE LinkCloses
  <2>1. /\ UNCHANGED <<channel, offset>> /\ DOMAIN at' = Events
        /\ \A j \in Events : at'[j] = IF at[j] = "taken" THEN "lost" ELSE at[j]
    BY <1>10 DEF LinkCloses
  <2>2. QED
    BY <2>1 DEF OrderInv
<1>11. CASE LinkOpens
  BY <1>11 DEF LinkOpens, OrderInv
<1>12. QED
  BY <1>2, <1>3, <1>4, <1>5, <1>6, <1>7, <1>8, <1>9, <1>10, <1>11 DEF AdaptersStep

LEMMA AdaptersStepInv ==
  ASSUME AdaptInv, PairInv, PairingsStay, OrderInv, AdaptersStep
  PROVE  AdaptInv'
<1> USE DEF Unanswered
<1>1. ASSUME NEW i \in Events, TelegramPolls(i)
      PROVE  AdaptInv'
  <2>1. at[i] = "new"
    <3>1. i \in Nat
      BY AdaptersAssumption DEF Events
    <3>2. channel = "telegram" /\ offset <= i
      BY <1>1, <3>1 DEF TelegramPolls
    <3>3. QED
      BY <3>2 DEF OrderInv
  <2>2. QED
    BY <1>1, <2>1, OneGoesOn DEF TelegramPolls
<1>2. ASSUME NEW i \in Events, Receives(i)
      PROVE  AdaptInv'
  <2>1. /\ channel # "line" /\ at[i] \in {"new", "polled"} /\ UNCHANGED <<channel, told, reply_tokens>>
        /\ DOMAIN at' = Events /\ at'[i] = "taken" /\ \A j \in Events \ {i} : at'[j] = at[j]
    BY <1>2 DEF Receives, Arrived, Becomes, AdaptInv
  <2>2. IF channel = "teams" THEN conv_cache' = [conv_cache EXCEPT ![User(i)] = i]
        ELSE conv_cache' = conv_cache
    BY <1>2 DEF Receives
  <2>3. conv_cache' \in [Senders -> Events \cup {NoEvent}]
    BY <2>2 DEF AdaptInv
  <2>4. ASSUME NEW j \in Events
        PROVE  EventOK(j)'
    <3>1. EventOK(j) /\ User(j) \in Senders /\ User(i) \in Senders
      BY Senders1 DEF AdaptInv
    <3>2. at'[j] \in Unanswered => at[j] \in Unanswered
      BY <2>1
    <3>3. ASSUME channel = "teams", at'[j] \in {"taken", "answering"}
          PROVE  conv_cache'[User(j)] \in {k \in Events : User(k) = User(j)}
      <4>1. CASE User(j) = User(i)
        BY <2>2, <3>1, <3>3, <4>1 DEF AdaptInv
      <4>2. CASE User(j) # User(i)
        <5>1. j # i /\ at[j] \in {"taken", "answering"}
          BY <2>1, <3>3, <4>2
        <5>2. conv_cache'[User(j)] = conv_cache[User(j)]
          BY <2>2, <3>1, <3>3, <4>2 DEF AdaptInv
        <5>3. QED
          BY <3>1, <3>3, <5>1, <5>2 DEF EventOK
      <4>3. QED
        BY <4>1, <4>2
    <3>4. at'[j] \in {"acking", "asking"} => at[j] \in {"acking", "asking"}
      BY <2>1
    <3>5. QED
      BY <2>1, <3>1, <3>2, <3>3, <3>4, EventGoesOn
  <2>5. QED
    BY <2>1, <2>3, <2>4 DEF AdaptInv
<1>3. ASSUME NEW i \in Events, Drops(i)
      PROVE  AdaptInv'
  BY <1>3, OneGoesOn DEF Drops, Arrived, bridgeVars
<1>4. ASSUME NEW i \in Events, Relays(i)
      PROVE  AdaptInv'
  BY <1>4, OneGoesOn DEF Relays, bridgeVars
<1>5. ASSUME NEW i \in Events, Delivers(i) \/ SendRaises(i)
      PROVE  AdaptInv'
  <2>1. /\ at[i] = "answering" /\ channel # "line"
        /\ UNCHANGED <<channel, conv_cache, reply_tokens>>
    BY <1>5 DEF Delivers, SendRaises, bridgeVars
  <2>2. PICK pc \in {"done", "lost"} :
          Becomes(i, pc) /\ (Told(i, Address(i), TRUE) \/ UNCHANGED told)
    BY <1>5 DEF Delivers, SendRaises
  <2>3. CASE Told(i, Address(i), TRUE)
    BY <2>1, <2>2, <2>3, AddressIsHome, OneIsTold
  <2>4. CASE UNCHANGED told
    BY <2>1, <2>2, <2>4, OneGoesOn
  <2>5. QED
    BY <2>2, <2>3, <2>4
<1>6. ASSUME NEW i \in Events, LineDrops(i)
      PROVE  AdaptInv'
  <2>1. /\ channel = "line" /\ at[i] = "new" /\ UNCHANGED <<channel, told, conv_cache>>
        /\ DOMAIN at' = Events /\ at'[i] = "dropped" /\ \A j \in Events \ {i} : at'[j] = at[j]
    BY <1>6 DEF LineDrops, Turn, Becomes, AdaptInv
  <2>2. \/ reply_tokens' = reply_tokens
        \/ Level(i) = "none" /\ reply_tokens' = [reply_tokens EXCEPT ![User(i)] = i]
    BY <1>6 DEF LineDrops, Line
  <2>3. reply_tokens' \in [Senders -> Events \cup {NoEvent}]
    BY <2>2 DEF AdaptInv
  <2>4. ASSUME NEW j \in Events
        PROVE  EventOK(j)'
    <3>1. EventOK(j) /\ User(j) \in Senders /\ User(i) \in Senders
      BY Senders1 DEF AdaptInv
    <3>2. at'[j] \in Unanswered => at[j] \in Unanswered
      BY <2>1
    <3>3. ASSUME at'[j] \in {"acking", "asking"}
          PROVE  at[j] \in {"acking", "asking"} /\ reply_tokens'[User(j)] = reply_tokens[User(j)]
      <4>1. at[j] \in {"acking", "asking"}
        BY <2>1, <3>3
      <4>2. Level(j) # "none"
        BY <3>1, <4>1 DEF EventOK
      <4>3. CASE User(j) = User(i)
        BY <2>2, <4>1, <4>2, <4>3 DEF Level
      <4>4. CASE User(j) # User(i)
        BY <2>2, <3>1, <4>1, <4>4 DEF AdaptInv
      <4>5. QED
        BY <4>3, <4>4
    <3>4. QED
      BY <2>1, <3>1, <3>2, <3>3, EventGoesOn
  <2>5. QED
    BY <2>1, <2>3, <2>4 DEF AdaptInv
<1>7. ASSUME NEW i \in Events, LineTakes(i)
      PROVE  AdaptInv'
  <2>1. /\ channel = "line" /\ at[i] = "new" /\ UNCHANGED <<channel, conv_cache>>
        /\ reply_tokens' = [reply_tokens EXCEPT ![User(i)] = NoEvent]
        /\ IF Level(i) = "none" THEN Becomes(i, "telling") /\ Told(i, Wire[i].place, TRUE)
           ELSE Becomes(i, "acking") /\ Told(i, Wire[i].place, FALSE)
    BY <1>7 DEF LineTakes, Turn
  <2>2. Wire[i].place \in Rooms(i)
    BY <2>1 DEF Rooms, Home
  <2>3. /\ at[i] \in Unanswered /\ "telling" \notin Unanswered
        /\ "telling" \notin {"taken", "answering"} /\ "telling" \notin {"acking", "asking"}
        /\ "acking" \notin {"taken", "answering"}
    BY <2>1
  <2> HIDE DEF Unanswered
  <2>4. CASE Level(i) = "none"
    <3>1. Becomes(i, "telling") /\ Told(i, Wire[i].place, TRUE)
      BY <2>1, <2>4
    <3>2. QED
      BY <2>1, <2>2, <2>3, <3>1, OneIsTold
  <2>5. CASE Level(i) # "none"
    <3>1. Becomes(i, "acking") /\ Told(i, Wire[i].place, FALSE)
      BY <2>1, <2>5
    <3>2. QED
      BY <2>1, <2>2, <2>3, <2>5, <3>1, OneIsTold
  <2>6. QED
    BY <2>4, <2>5
<1>8. ASSUME NEW i \in Events, LineSent(i)
      PROVE  AdaptInv'
  BY <1>8, OneGoesOn DEF LineSent, bridgeVars
<1>9. ASSUME NEW i \in Events, LineRaises(i)
      PROVE  AdaptInv'
  <2>1. /\ UNCHANGED <<channel, told, conv_cache, reply_tokens>> /\ DOMAIN at' = Events
        /\ \A j \in Events : at'[j] \in {at[j], "lost"}
    BY <1>9 DEF LineRaises, bridgeVars
  <2>2. QED
    BY <2>1, SomeAreLost
<1>10. CASE LinkCloses
  <2>1. /\ UNCHANGED <<channel, told, conv_cache, reply_tokens>> /\ DOMAIN at' = Events
        /\ \A j \in Events : at'[j] \in {at[j], "lost"}
    BY <1>10 DEF LinkCloses
  <2>2. QED
    BY <2>1, SomeAreLost
<1>11. ASSUME NEW i \in Events, LineAnswers(i)
      PROVE  AdaptInv'
  <2>1. /\ at[i] = "asking" /\ Becomes(i, "telling answer") /\ UNCHANGED <<channel, conv_cache>>
        /\ reply_tokens' = [reply_tokens EXCEPT ![User(i)] = NoEvent]
    BY <1>11 DEF LineAnswers
  <2>2. channel = "line" /\ reply_tokens[User(i)] = NoEvent
    BY <2>1 DEF AdaptInv, EventOK
  <2>3. Told(i, User(i), TRUE)
    BY <1>11, <2>2 DEF LineAnswers
  <2>4. User(i) \in Rooms(i)
    BY <2>2 DEF Rooms, Home
  <2>5. /\ at[i] \in Unanswered /\ "telling answer" \notin Unanswered
        /\ "telling answer" \notin {"taken", "answering"}
        /\ "telling answer" \notin {"acking", "asking"}
    BY <2>1
  <2> HIDE DEF Unanswered
  <2>6. QED
    BY <2>1, <2>3, <2>4, <2>5, OneIsTold
<1>12. CASE LinkOpens
  <2>1. UNCHANGED <<channel, at, told, conv_cache, reply_tokens>>
    BY <1>12 DEF LinkOpens
  <2>2. DOMAIN at' = Events /\ \A j \in Events : at'[j] \in {at[j], "lost"}
    BY <2>1 DEF AdaptInv
  <2>3. QED
    BY <2>1, <2>2, SomeAreLost
<1>13. QED
  BY <1>1, <1>2, <1>3, <1>4, <1>5, <1>6, <1>7, <1>8, <1>9, <1>10, <1>11, <1>12 DEF AdaptersStep

-----------------------------------------------------------------------------
(***************************************************************************)
(* Voice.  What a stream's socket said is in three parts: what was heard,  *)
(* what is being transcribed, and what is buffered.                        *)
(***************************************************************************)
Frames == [of : Streams, n : Nat, named : BOOLEAN]

Numbers(frames) == {frames[i].n : i \in {j \in DOMAIN frames : frames[j].named}}

Ordered(frames) ==
  \A i, j \in DOMAIN frames : frames[i].named /\ frames[j].named /\ i < j => frames[i].n < frames[j].n

Before(p, q) == \A a \in Numbers(p), b \in Numbers(q) : a < b

Parts(h, p, b, spoken) ==
  /\ Ordered(h) /\ Ordered(p) /\ Ordered(b)
  /\ Before(h, p) /\ Before(h, b) /\ Before(p, b)
  /\ Numbers(h) \cup Numbers(p) \cup Numbers(b) = {n \in DOMAIN spoken : spoken[n]}

LEMMA NoNumbers == Numbers(<<>>) = {} /\ Ordered(<<>>)
BY DEF Numbers, Ordered

LEMMA AppendedFrame ==
  ASSUME NEW b \in Seq(Frames), NEW f \in Frames, Ordered(b), \A a \in Numbers(b) : a < f.n
  PROVE  /\ Append(b, f) \in Seq(Frames) /\ Ordered(Append(b, f))
         /\ Numbers(Append(b, f)) = Numbers(b) \cup (IF f.named THEN {f.n} ELSE {})
<1> DEFINE c == Append(b, f)
<1>1. Len(b) \in Nat /\ DOMAIN b = 1 .. Len(b)
  OBVIOUS
<1>2. /\ c \in Seq(Frames) /\ DOMAIN c = DOMAIN b \cup {Len(b) + 1}
      /\ c[Len(b) + 1] = f /\ \A i \in DOMAIN b : c[i] = b[i]
  BY <1>1
<1> HIDE DEF c
<1>3. Ordered(c)
  <2>1. SUFFICES ASSUME NEW i \in DOMAIN c, NEW j \in DOMAIN c, c[i].named, c[j].named, i < j
                 PROVE  c[i].n < c[j].n
    BY DEF Ordered
  <2>2. i \in DOMAIN b
    BY <1>1, <1>2, <2>1
  <2>3. CASE j \in DOMAIN b
    BY <1>2, <2>1, <2>2, <2>3 DEF Ordered
  <2>4. CASE j = Len(b) + 1
    <3>1. b[i].n \in Numbers(b)
      BY <1>2, <2>1, <2>2 DEF Numbers
    <3>2. QED
      BY <1>2, <2>2, <2>4, <3>1
  <2>5. QED
    BY <1>2, <2>3, <2>4
<1>4. Numbers(c) = Numbers(b) \cup (IF f.named THEN {f.n} ELSE {})
  <2>1. ASSUME NEW a \in Numbers(c)
        PROVE  a \in Numbers(b) \cup (IF f.named THEN {f.n} ELSE {})
    <3>1. PICK i \in DOMAIN c : c[i].named /\ a = c[i].n
      BY DEF Numbers
    <3>2. CASE i \in DOMAIN b
      BY <1>2, <3>1, <3>2 DEF Numbers
    <3>3. CASE i = Len(b) + 1
      BY <1>2, <3>1, <3>3
    <3>4. QED
      BY <1>2, <3>2, <3>3
  <2>2. ASSUME NEW a \in Numbers(b)
        PROVE  a \in Numbers(c)
    <3>1. PICK i \in DOMAIN b : b[i].named /\ a = b[i].n
      BY DEF Numbers
    <3>2. QED
      BY <1>2, <3>1 DEF Numbers
  <2>3. f.named => f.n \in Numbers(c)
    BY <1>2 DEF Numbers
  <2>4. QED
    BY <2>1, <2>2, <2>3
<1>5. QED
  BY <1>2, <1>3, <1>4 DEF c

LEMMA JoinedFrames ==
  ASSUME NEW h \in Seq(Frames), NEW p \in Seq(Frames), Ordered(h), Ordered(p), Before(h, p)
  PROVE  Ordered(h \o p) /\ Numbers(h \o p) = Numbers(h) \cup Numbers(p)
<1> DEFINE c == h \o p
<1>1. /\ Len(h) \in Nat /\ DOMAIN h = 1 .. Len(h)
      /\ Len(p) \in Nat /\ DOMAIN p = 1 .. Len(p)
  OBVIOUS
<1>2. /\ DOMAIN c = 1 .. Len(h) + Len(p)
      /\ \A i \in DOMAIN h : i \in DOMAIN c /\ c[i] = h[i]
      /\ \A i \in DOMAIN p : Len(h) + i \in DOMAIN c /\ c[Len(h) + i] = p[i]
  BY <1>1
<1>3. \A i \in DOMAIN c : i \in DOMAIN h \/ (i - Len(h) \in DOMAIN p /\ c[i] = p[i - Len(h)])
  BY <1>1
<1> HIDE DEF c
<1>4. \A i \in DOMAIN h : h[i].named => h[i].n \in Numbers(h)
  BY DEF Numbers
<1>5. \A i \in DOMAIN p : p[i].named => p[i].n \in Numbers(p)
  BY DEF Numbers
<1>6. Ordered(c)
  <2>1. SUFFICES ASSUME NEW i \in DOMAIN c, NEW j \in DOMAIN c, c[i].named, c[j].named, i < j
                 PROVE  c[i].n < c[j].n
    BY DEF Ordered
  <2>2. CASE j \in DOMAIN h
    <3>1. i \in DOMAIN h
      BY <1>1, <1>2, <2>1, <2>2
    <3>2. QED
      BY <1>2, <2>1, <2>2, <3>1 DEF Ordered
  <2>3. CASE i \in DOMAIN h /\ j - Len(h) \in DOMAIN p /\ c[j] = p[j - Len(h)]
    <3>1. c[i].n \in Numbers(h) /\ c[j].n \in Numbers(p)
      BY <1>2, <1>4, <1>5, <2>1, <2>3
    <3>2. QED
      BY <3>1 DEF Before
  <2>4. CASE /\ i - Len(h) \in DOMAIN p /\ c[i] = p[i - Len(h)]
             /\ j - Len(h) \in DOMAIN p /\ c[j] = p[j - Len(h)]
    <3>1. i - Len(h) < j - Len(h)
      BY <1>1, <1>2, <2>1
    <3>2. QED
      BY <2>1, <2>4, <3>1 DEF Ordered
  <2>5. QED
    BY <1>3, <2>2, <2>3, <2>4
<1>7. Numbers(c) = Numbers(h) \cup Numbers(p)
  <2>1. ASSUME NEW a \in Numbers(c)
        PROVE  a \in Numbers(h) \cup Numbers(p)
    <3>1. PICK i \in DOMAIN c : c[i].named /\ a = c[i].n
      BY DEF Numbers
    <3>2. CASE i \in DOMAIN h
      BY <1>2, <1>4, <3>1, <3>2
    <3>3. CASE i - Len(h) \in DOMAIN p /\ c[i] = p[i - Len(h)]
      BY <1>5, <3>1, <3>3
    <3>4. QED
      BY <1>3, <3>2, <3>3
  <2>2. ASSUME NEW a \in Numbers(h)
        PROVE  a \in Numbers(c)
    <3>1. PICK i \in DOMAIN h : h[i].named /\ a = h[i].n
      BY DEF Numbers
    <3>2. QED
      BY <1>2, <3>1 DEF Numbers
  <2>3. ASSUME NEW a \in Numbers(p)
        PROVE  a \in Numbers(c)
    <3>1. PICK i \in DOMAIN p : p[i].named /\ a = p[i].n
      BY DEF Numbers
    <3>2. QED
      BY <1>2, <3>1 DEF Numbers
  <2>4. QED
    BY <2>1, <2>2, <2>3
<1>8. QED
  BY <1>6, <1>7 DEF c

LEMMA SpokenMore ==
  ASSUME NEW spoken \in Seq(BOOLEAN), NEW x \in BOOLEAN
  PROVE  /\ Append(spoken, x) \in Seq(BOOLEAN)
         /\ {n \in DOMAIN Append(spoken, x) : Append(spoken, x)[n]} =
              {n \in DOMAIN spoken : spoken[n]} \cup (IF x THEN {Len(spoken) + 1} ELSE {})
         /\ \A n \in {m \in DOMAIN spoken : spoken[m]} : n < Len(spoken) + 1
<1>1. Len(spoken) \in Nat /\ DOMAIN spoken = 1 .. Len(spoken)
  OBVIOUS
<1> DEFINE c == Append(spoken, x)
<1>2. /\ c \in Seq(BOOLEAN) /\ DOMAIN c = DOMAIN spoken \cup {Len(spoken) + 1}
      /\ c[Len(spoken) + 1] = x /\ \A i \in DOMAIN spoken : c[i] = spoken[i]
  BY <1>1
<1>3. Len(spoken) + 1 \notin DOMAIN spoken /\ \A n \in DOMAIN spoken : n < Len(spoken) + 1
  BY <1>1
<1> HIDE DEF c
<1>4. {n \in DOMAIN c : c[n]} =
        {n \in DOMAIN spoken : spoken[n]} \cup (IF x THEN {Len(spoken) + 1} ELSE {})
  BY <1>2, <1>3
<1>5. QED
  BY <1>2, <1>3, <1>4 DEF c

(* A frame that named its stream joins the buffer.                         *)
LEMMA FrameJoins ==
  ASSUME NEW h, NEW p, NEW b \in Seq(Frames), NEW spoken \in Seq(BOOLEAN), NEW f \in Frames,
         Parts(h, p, b, spoken), f.named, f.n = Len(spoken) + 1
  PROVE  Parts(h, p, Append(b, f), Append(spoken, TRUE))
<1> DEFINE past == {n \in DOMAIN spoken : spoken[n]}
<1>1. \A n \in past : n < f.n
  BY SpokenMore
<1>2. Numbers(h) \subseteq past /\ Numbers(p) \subseteq past /\ Numbers(b) \subseteq past
  BY DEF Parts
<1>3. Ordered(Append(b, f)) /\ Numbers(Append(b, f)) = Numbers(b) \cup {f.n}
  BY <1>1, <1>2, AppendedFrame DEF Parts
<1>4. {n \in DOMAIN Append(spoken, TRUE) : Append(spoken, TRUE)[n]} = past \cup {f.n}
  BY SpokenMore
<1>5. Before(h, Append(b, f)) /\ Before(p, Append(b, f))
  BY <1>1, <1>2, <1>3 DEF Before, Parts
<1>6. QED
  BY <1>3, <1>4, <1>5 DEF Parts

(* What is buffered is taken to be transcribed.                            *)
LEMMA BufferGoes ==
  ASSUME NEW h, NEW b, NEW spoken, Parts(h, <<>>, b, spoken)
  PROVE  Parts(h, b, <<>>, spoken)
BY NoNumbers DEF Parts, Before

(* A frame that did not name it is none of the stream's own.               *)
LEMMA NamelessFrame ==
  ASSUME NEW h, NEW p, NEW b, NEW spoken \in Seq(BOOLEAN), Parts(h, p, b, spoken)
  PROVE  Parts(h, p, b, Append(spoken, FALSE))
<1>1. {n \in DOMAIN Append(spoken, FALSE) : Append(spoken, FALSE)[n]} = {n \in DOMAIN spoken : spoken[n]}
  BY SpokenMore
<1>2. QED
  BY <1>1 DEF Parts

LEMMA NamelessAudio ==
  ASSUME NEW h, NEW p, NEW b, NEW spoken, Parts(h, <<>>, b, spoken), \A i \in DOMAIN p : ~p[i].named
  PROVE  Parts(h, p, b, spoken)
<1>1. Numbers(p) = {} /\ Ordered(p)
  BY DEF Numbers, Ordered
<1>2. QED
  BY <1>1, NoNumbers DEF Parts, Before

LEMMA AudioIsHeard ==
  ASSUME NEW h \in Seq(Frames), NEW p \in Seq(Frames), NEW b, NEW spoken, Parts(h, p, b, spoken)
  PROVE  Parts(h \o p, <<>>, b, spoken)
<1>1. Ordered(h \o p) /\ Numbers(h \o p) = Numbers(h) \cup Numbers(p)
  BY JoinedFrames DEF Parts
<1>2. QED
  BY <1>1, NoNumbers DEF Parts, Before

-----------------------------------------------------------------------------
Who == {Caller[s] : s \in Streams} \cup {NoOne}
Heard(s) == [i \in DOMAIN heard[s] |-> heard[s][i].frame]

(* Whom a frame that the socket of s brought is ascribed to.               *)
Ascribed(frame, who, s) ==
  IF frame.named THEN frame.of = s /\ who = Caller[s] ELSE who = NoOne

StreamOK(s) ==
  /\ said[s] \in Seq(BOOLEAN) /\ stream_buffers[s] \in Seq(Frames)
  /\ heard[s] \in Seq([frame : Frames, who : Who])
  /\ speaking[s] \in [who : Who, frames : Seq(Frames)]
  /\ Parts(Heard(s), speaking[s].frames, stream_buffers[s], said[s])
  /\ \A i \in DOMAIN heard[s] : Ascribed(heard[s][i].frame, heard[s][i].who, s)
  /\ \A i \in DOMAIN speaking[s].frames : Ascribed(speaking[s].frames[i], speaking[s].who, s)
  /\ \A i \in DOMAIN stream_buffers[s] : stream_buffers[s][i].named /\ stream_buffers[s][i].of = s
  /\ line[s] = "connected" => parameter[s] = Caller[s]
  /\ line[s] \in {"open", "transcribing", "stopping"} => stream_callers[s] = Caller[s]
  /\ line[s] \notin {"transcribing", "stopping"} => speaking[s].frames = <<>>
  /\ ~buffer_audio \/ line[s] \in {"stopping", "closed"} => stream_buffers[s] = <<>>
  /\ line[s] = "closed" => stream_callers[s] = NoOne

VoiceInv ==
  /\ DOMAIN line = Streams /\ DOMAIN parameter = Streams
  /\ DOMAIN stream_callers = Keys /\ DOMAIN stream_buffers = Keys
  /\ DOMAIN speaking = Streams /\ DOMAIN said = Streams /\ DOMAIN heard = Streams
  /\ stream_callers[Unnamed] = NoOne /\ stream_buffers[Unnamed] \in Seq(Frames)
  /\ \A i \in DOMAIN stream_buffers[Unnamed] : ~stream_buffers[Unnamed][i].named
  /\ \A s \in Streams : StreamOK(s)

LEMMA StreamRests ==
  ASSUME NEW s \in Streams, StreamOK(s), buffer_audio' = buffer_audio,
         said'[s] = said[s], heard'[s] = heard[s], speaking'[s] = speaking[s],
         stream_buffers'[s] = stream_buffers[s], line'[s] = line[s],
         parameter'[s] = parameter[s], stream_callers'[s] = stream_callers[s]
  PROVE  StreamOK(s)'
<1>1. Heard(s)' = Heard(s)
  BY DEF Heard
<1>2. QED
  BY <1>1 DEF StreamOK

(* A stream that neither speaks nor is heard moves.                        *)
LEMMA StreamQuiet ==
  ASSUME VoiceInv, NEW s \in Streams, NEW pc, line' = [line EXCEPT ![s] = pc],
         line[s] \notin {"transcribing", "stopping"}, pc \notin {"transcribing", "stopping"},
         UNCHANGED <<buffer_audio, speaking, said, heard>>,
         DOMAIN stream_buffers' = Keys, \A k \in Keys : stream_buffers'[k] = stream_buffers[k],
         DOMAIN parameter' = Streams, DOMAIN stream_callers' = Keys,
         \A t \in Streams \ {s} : parameter'[t] = parameter[t] /\ stream_callers'[t] = stream_callers[t],
         stream_callers'[Unnamed] = stream_callers[Unnamed],
         pc = "connected" => parameter'[s] = Caller[s],
         pc = "open" => stream_callers'[s] = Caller[s],
         pc = "closed" => stream_callers'[s] = NoOne /\ stream_buffers[s] = <<>>
  PROVE  VoiceInv'
<1>1. DOMAIN line' = Streams /\ line'[s] = pc /\ \A t \in Streams \ {s} : line'[t] = line[t]
  BY DEF VoiceInv
<1>2. \A t \in Streams : /\ StreamOK(t) /\ Heard(t)' = Heard(t)
                        /\ stream_buffers'[t] = stream_buffers[t]
  BY DEF VoiceInv, Heard, Keys
<1>3. \A t \in Streams \ {s} : StreamOK(t)'
  BY <1>1, <1>2, StreamRests
<1>4. StreamOK(s)'
  <2>1. Parts(Heard(s), speaking[s].frames, stream_buffers[s], said[s])'
    BY <1>2 DEF StreamOK
  <2>2. speaking'[s].frames = <<>>
    BY <1>2 DEF StreamOK
  <2>3. ~buffer_audio' \/ pc \in {"stopping", "closed"} => stream_buffers'[s] = <<>>
    BY <1>2 DEF StreamOK
  <2>4. pc \in {"open", "transcribing", "stopping"} => stream_callers'[s] = Caller[s]
    OBVIOUS
  <2>5. /\ said'[s] = said[s] /\ heard'[s] = heard[s] /\ speaking'[s] = speaking[s]
        /\ stream_buffers'[s] = stream_buffers[s] /\ line'[s] = pc
    BY <1>1, <1>2
  <2>6. StreamOK(s)
    BY <1>2
  <2>7. (pc = "connected" => parameter'[s] = Caller[s]) /\ (pc = "closed" => stream_callers'[s] = NoOne)
    OBVIOUS
  <2>8. QED
    BY <2>1, <2>2, <2>3, <2>4, <2>5, <2>6, <2>7 DEF StreamOK
<1>5. Unnamed \in Keys
  BY DEF Keys
<1>6. QED
  BY <1>1, <1>3, <1>4, <1>5 DEF VoiceInv

(* One that speaks or is heard.                                            *)
LEMMA StreamSpeaks ==
  ASSUME VoiceInv, NEW s \in Streams, StreamOK(s)', buffer_audio' = buffer_audio,
         DOMAIN line' = Streams, DOMAIN speaking' = Streams, DOMAIN said' = Streams,
         DOMAIN heard' = Streams, parameter' = parameter,
         DOMAIN stream_callers' = Keys, DOMAIN stream_buffers' = Keys,
         stream_callers'[Unnamed] = NoOne, stream_buffers'[Unnamed] \in Seq(Frames),
         \A i \in DOMAIN stream_buffers'[Unnamed] : ~stream_buffers'[Unnamed][i].named,
         \A t \in Streams \ {s} :
           /\ line'[t] = line[t] /\ speaking'[t] = speaking[t] /\ said'[t] = said[t]
           /\ heard'[t] = heard[t] /\ stream_callers'[t] = stream_callers[t]
           /\ stream_buffers'[t] = stream_buffers[t]
  PROVE  VoiceInv'
<1>1. \A t \in Streams : StreamOK(t)
  BY DEF VoiceInv
<1>2. \A t \in Streams \ {s} : StreamOK(t)'
  BY <1>1, StreamRests
<1>3. QED
  BY <1>2 DEF VoiceInv

LEMMA MediaStep ==
  ASSUME VoiceInv, NEW s \in Streams, Media(s)
  PROVE  VoiceInv'
<1>1. PICK named \in BOOLEAN :
        LET k == IF named THEN s ELSE Unnamed
            frame == [of |-> s, n |-> Len(said[s]) + 1, named |-> named]
        IN /\ said' = [said EXCEPT ![s] = Append(@, named)]
           /\ MediaFrame(s, k, frame) \/ BufferedFrame(s, k, frame)
  BY DEF Media
<1> DEFINE k == IF named THEN s ELSE Unnamed
           f == [of |-> s, n |-> Len(said[s]) + 1, named |-> named]
<1>2. /\ line[s] = "open" /\ StreamOK(s) /\ UNCHANGED <<buffer_audio, parameter, stream_callers, heard>>
  BY DEF Media, VoiceInv
<1>3. f \in Frames /\ f.of = s /\ f.named = named /\ f.n = Len(said[s]) + 1
  <2>1. said[s] \in Seq(BOOLEAN)
    BY <1>2 DEF StreamOK
  <2>2. Len(said[s]) + 1 \in Nat
    BY <2>1
  <2>3. QED
    BY <2>2 DEF Frames
<1>4. MediaFrame(s, k, f) \/ BufferedFrame(s, k, f)
  BY <1>1
<1> HIDE DEF f
<1>5. k \in Keys /\ Unnamed \in Keys /\ Unnamed \notin Streams /\ s \in Keys
  BY VoiceAssumption DEF Keys, Unnamed
<1>6. /\ DOMAIN said' = Streams /\ said'[s] = Append(said[s], named)
      /\ \A t \in Streams \ {s} : said'[t] = said[t]
  BY <1>1 DEF VoiceInv
<1>7. stream_buffers[k] \in Seq(Frames)
  BY <1>2 DEF VoiceInv, StreamOK
(* What is transcribed, if anything, and what is left in the buffers.      *)
<1>8. PICK taken \in BOOLEAN, audio \in Seq(Frames), left \in Seq(Frames) :
        /\ IF taken
           THEN /\ audio = Append(stream_buffers[k], f) \/ (~buffer_audio /\ audio = <<f>>)
                /\ left = <<>> \/ (~buffer_audio /\ left = stream_buffers[k])
                /\ speaking' = [speaking EXCEPT ![s] = [who |-> stream_callers[k], frames |-> audio]]
                /\ line' = [line EXCEPT ![s] = "transcribing"]
           ELSE /\ buffer_audio /\ left = Append(stream_buffers[k], f)
                /\ UNCHANGED <<speaking, line>>
        /\ DOMAIN stream_buffers' = Keys /\ stream_buffers'[k] = left
        /\ \A j \in Keys \ {k} : stream_buffers'[j] = stream_buffers[j]
  <2>1. Append(stream_buffers[k], f) \in Seq(Frames) /\ <<f>> \in Seq(Frames) /\ <<>> \in Seq(Frames)
    BY <1>3, <1>7
  <2>2. CASE MediaFrame(s, k, f)
    <3>1. /\ ~buffer_audio /\ line' = [line EXCEPT ![s] = "transcribing"]
          /\ speaking' = [speaking EXCEPT ![s] = [who |-> stream_callers[k], frames |-> <<f>>]]
          /\ stream_buffers' = stream_buffers
      BY <2>2 DEF MediaFrame, Transcribes, CallerOf
    <3>2. DOMAIN stream_buffers' = Keys
      BY <3>1 DEF VoiceInv
    <3>3. QED
      BY <1>7, <2>1, <3>1, <3>2
  <2>3. CASE BufferedFrame(s, k, f)
    <3>1. DOMAIN stream_buffers = Keys
      BY DEF VoiceInv
    <3>2. QED
      BY <1>5, <2>1, <2>3, <3>1 DEF BufferedFrame, Transcribes, CallerOf
  <2>4. QED
    BY <1>4, <2>2, <2>3
<1>9. /\ DOMAIN stream_buffers' = Keys /\ stream_buffers'[k] = left
      /\ \A j \in Keys \ {k} : stream_buffers'[j] = stream_buffers[j]
  BY <1>8
<1>10. DOMAIN speaking' = Streams /\ \A t \in Streams \ {s} : speaking'[t] = speaking[t]
  BY <1>8 DEF VoiceInv
<1>11. DOMAIN line' = Streams /\ \A t \in Streams \ {s} : line'[t] = line[t]
  BY <1>8 DEF VoiceInv
<1>12. /\ Parts(Heard(s), <<>>, stream_buffers[s], said[s]) /\ Heard(s)' = Heard(s)
       /\ said[s] \in Seq(BOOLEAN) /\ stream_buffers[s] \in Seq(Frames)
       /\ stream_callers[s] = Caller[s] /\ stream_callers[Unnamed] = NoOne
       /\ ~buffer_audio => stream_buffers[s] = <<>>
  BY <1>2 DEF StreamOK, Heard, VoiceInv
<1>13. said'[s] \in Seq(BOOLEAN) /\ stream_buffers'[s] \in Seq(Frames)
  BY <1>5, <1>6, <1>9, <1>12, SpokenMore
<1>14. /\ heard'[s] \in Seq([frame : Frames, who : Who])
       /\ \A i \in DOMAIN heard'[s] : Ascribed(heard'[s][i].frame, heard'[s][i].who, s)
  BY <1>2 DEF StreamOK
<1>15. line'[s] = IF taken THEN "transcribing" ELSE "open"
  BY <1>2, <1>8 DEF VoiceInv
<1>16. speaking'[s] = IF taken THEN [who |-> stream_callers[k], frames |-> audio] ELSE speaking[s]
  BY <1>8 DEF VoiceInv
<1>17. stream_callers[k] \in Who /\ speaking[s] \in [who : Who, frames : Seq(Frames)]
       /\ speaking[s].frames = <<>>
  BY <1>2, <1>12 DEF Who, StreamOK
<1>18. speaking'[s] \in [who : Who, frames : Seq(Frames)]
  BY <1>16, <1>17
<1>19. \A i \in DOMAIN Append(stream_buffers[k], f) :
         \/ i \in DOMAIN stream_buffers[k] /\ Append(stream_buffers[k], f)[i] = stream_buffers[k][i]
         \/ Append(stream_buffers[k], f)[i] = f
  BY <1>7
<1>20. CASE named
  <2>1. k = s
    BY <1>20
  <2>2. Parts(Heard(s), <<>>, Append(stream_buffers[s], f), Append(said[s], TRUE))
    BY <1>3, <1>12, <1>20, FrameJoins
  <2>3. said'[s] = Append(said[s], TRUE)
    BY <1>6, <1>20
  <2>4. \A i \in DOMAIN Append(stream_buffers[s], f) :
          /\ Append(stream_buffers[s], f)[i].named /\ Append(stream_buffers[s], f)[i].of = s
    BY <1>2, <1>3, <1>19, <1>20, <2>1 DEF StreamOK
  <2>5. CASE taken
    <3>1. audio = Append(stream_buffers[s], f)
      <4>1. CASE audio = <<f>> /\ ~buffer_audio
        <5>1. Append(<<>>, f) = <<f>>
          OBVIOUS
        <5>2. QED
          BY <1>12, <4>1, <5>1
      <4>2. QED
        BY <1>8, <2>1, <2>5, <4>1
    <3>2. left = <<>>
      BY <1>8, <1>12, <2>1, <2>5
    <3>3. Parts(Heard(s), audio, <<>>, said'[s])
      BY <2>2, <2>3, <3>1, BufferGoes
    <3>4. \A i \in DOMAIN audio : Ascribed(audio[i], stream_callers[k], s)
      BY <1>12, <2>1, <2>4, <3>1 DEF Ascribed
    <3>5. speaking'[s].frames = audio /\ speaking'[s].who = stream_callers[k]
      BY <1>16, <2>5
    <3>6. stream_buffers'[s] = <<>>
      BY <1>9, <2>1, <3>2
    <3>7. Parts(Heard(s)', speaking'[s].frames, stream_buffers'[s], said'[s])
      BY <1>12, <3>3, <3>5, <3>6
    <3>8. StreamOK(s)'
      BY <1>2, <1>12, <1>13, <1>14, <1>15, <1>18, <2>5, <3>4, <3>5, <3>6, <3>7 DEF StreamOK
    <3>9. \A j \in Keys \ {s} : stream_buffers'[j] = stream_buffers[j]
      BY <1>9, <2>1
    <3>10. QED
      BY <1>2, <1>5, <1>6, <1>9, <1>10, <1>11, <3>8, <3>9, StreamSpeaks DEF VoiceInv, Keys
  <2>6. CASE ~taken
    <3>1. buffer_audio /\ left = Append(stream_buffers[s], f)
      BY <1>8, <2>1, <2>6
    <3>2. stream_buffers'[s] = Append(stream_buffers[s], f) /\ speaking'[s] = speaking[s]
      BY <1>9, <1>16, <2>1, <2>6, <3>1
    <3>3. Parts(Heard(s)', speaking'[s].frames, stream_buffers'[s], said'[s])
      BY <1>12, <1>17, <2>2, <2>3, <3>2
    <3>4. speaking'[s].frames = <<>> /\ line'[s] = "open"
      BY <1>15, <1>17, <2>6, <3>2
    <3>5. StreamOK(s)'
      BY <1>2, <1>12, <1>13, <1>14, <1>18, <2>4, <3>1, <3>2, <3>3, <3>4 DEF StreamOK
    <3>6. \A j \in Keys \ {s} : stream_buffers'[j] = stream_buffers[j]
      BY <1>9, <2>1
    <3>7. QED
      BY <1>2, <1>5, <1>6, <1>9, <1>10, <1>11, <3>5, <3>6, StreamSpeaks DEF VoiceInv, Keys
  <2>7. QED
    BY <2>5, <2>6
<1>21. CASE ~named
  <2>1. k = Unnamed /\ stream_buffers'[s] = stream_buffers[s] /\ stream_buffers'[Unnamed] = left
    BY <1>5, <1>9, <1>21
  <2>2. said'[s] = Append(said[s], FALSE)
    BY <1>6, <1>21
  <2>3. Parts(Heard(s), <<>>, stream_buffers[s], said'[s])
    BY <1>12, <2>2, NamelessFrame
  <2>4. \A i \in DOMAIN Append(stream_buffers[Unnamed], f) : ~Append(stream_buffers[Unnamed], f)[i].named
    BY <1>3, <1>19, <1>21, <2>1 DEF VoiceInv
  <2>5. \A i \in DOMAIN left : ~left[i].named
    <3>1. left \in {<<>>, stream_buffers[Unnamed], Append(stream_buffers[Unnamed], f)}
      BY <1>8, <2>1
    <3>2. DOMAIN <<>> = {} /\ \A i \in DOMAIN stream_buffers[Unnamed] : ~stream_buffers[Unnamed][i].named
      BY DEF VoiceInv
    <3>3. QED
      BY <2>4, <3>1, <3>2
  <2>6. CASE taken
    <3>1. \A i \in DOMAIN audio : ~audio[i].named
      <4>1. DOMAIN <<f>> = {1} /\ <<f>>[1] = f
        OBVIOUS
      <4>2. QED
        BY <1>3, <1>8, <1>21, <2>1, <2>4, <2>6, <4>1
    <3>2. Parts(Heard(s), audio, stream_buffers[s], said'[s])
      BY <2>3, <3>1, NamelessAudio
    <3>3. speaking'[s].frames = audio /\ speaking'[s].who = NoOne
      BY <1>12, <1>16, <2>1, <2>6
    <3>4. \A i \in DOMAIN audio : Ascribed(audio[i], NoOne, s)
      BY <3>1 DEF Ascribed
    <3>5. Parts(Heard(s)', speaking'[s].frames, stream_buffers'[s], said'[s])
      BY <1>12, <2>1, <3>2, <3>3
    <3>6. line'[s] = "transcribing"
      BY <1>15, <2>6
    <3>7. \A i \in DOMAIN stream_buffers'[s] : stream_buffers'[s][i].named /\ stream_buffers'[s][i].of = s
      BY <1>2, <2>1 DEF StreamOK
    <3>8. StreamOK(s)'
      BY <1>2, <1>12, <1>13, <1>14, <1>18, <2>1, <3>3, <3>4, <3>5, <3>6, <3>7 DEF StreamOK
    <3>9. \A j \in Keys \ {Unnamed} : stream_buffers'[j] = stream_buffers[j]
      BY <1>9, <2>1
    <3>10. QED
      BY <1>2, <1>5, <1>6, <1>9, <1>10, <1>11, <2>1, <2>5, <3>8, <3>9, StreamSpeaks DEF VoiceInv, Keys
  <2>7. CASE ~taken
    <3>1. speaking'[s] = speaking[s] /\ line'[s] = "open"
      BY <1>15, <1>16, <2>7
    <3>2. Parts(Heard(s)', speaking'[s].frames, stream_buffers'[s], said'[s])
      BY <1>12, <1>17, <2>1, <2>3, <3>1
    <3>3. StreamOK(s)'
      BY <1>2, <1>12, <1>13, <1>14, <1>17, <1>18, <2>1, <3>1, <3>2 DEF StreamOK
    <3>4. \A j \in Keys \ {Unnamed} : stream_buffers'[j] = stream_buffers[j]
      BY <1>9, <2>1
    <3>5. QED
      BY <1>2, <1>5, <1>6, <1>9, <1>10, <1>11, <2>1, <2>5, <3>3, <3>4, StreamSpeaks DEF VoiceInv, Keys
  <2>8. QED
    BY <2>6, <2>7
<1>22. QED
  BY <1>20, <1>21

LEMMA TranscribedStep ==
  ASSUME VoiceInv, NEW s \in Streams, Transcribed(s)
  PROVE  VoiceInv'
<1> DEFINE audio == speaking[s]
           told1 == [i \in DOMAIN audio.frames |-> [frame |-> audio.frames[i], who |-> audio.who]]
<1>1. /\ line[s] \in {"transcribing", "stopping"} /\ StreamOK(s)
      /\ heard' = [heard EXCEPT ![s] = heard[s] \o told1]
      /\ speaking' = [speaking EXCEPT ![s] = Silence]
      /\ UNCHANGED <<buffer_audio, parameter, stream_buffers, said>>
  BY DEF Transcribed, VoiceInv
<1>2. IF line[s] = "stopping"
      THEN /\ stream_callers' = [stream_callers EXCEPT ![s] = NoOne]
           /\ line' = [line EXCEPT ![s] = "closed"]
      ELSE line' = [line EXCEPT ![s] = "open"] /\ UNCHANGED stream_callers
  BY DEF Transcribed
<1>3. s \in Keys /\ Unnamed \in Keys /\ Unnamed \notin Streams /\ Streams \subseteq Keys
  BY VoiceAssumption DEF Keys, Unnamed
<1>4. /\ audio.frames \in Seq(Frames) /\ audio.who \in Who
      /\ heard[s] \in Seq([frame : Frames, who : Who])
  BY <1>1 DEF StreamOK
<1>5. /\ told1 \in Seq([frame : Frames, who : Who]) /\ Len(told1) = Len(audio.frames)
      /\ DOMAIN told1 = DOMAIN audio.frames
      /\ \A i \in DOMAIN audio.frames : told1[i].frame = audio.frames[i] /\ told1[i].who = audio.who
  <2>1. Len(audio.frames) \in Nat /\ DOMAIN audio.frames = 1 .. Len(audio.frames)
    BY <1>4
  <2>2. told1 \in [1 .. Len(audio.frames) -> [frame : Frames, who : Who]]
    BY <1>4, <2>1
  <2>3. QED
    BY <2>1, <2>2
<1> HIDE DEF audio, told1
<1>6. /\ heard'[s] = heard[s] \o told1 /\ DOMAIN heard' = Streams
      /\ \A t \in Streams \ {s} : heard'[t] = heard[t]
  BY <1>1 DEF VoiceInv
<1>7. heard'[s] \in Seq([frame : Frames, who : Who])
  BY <1>4, <1>5, <1>6
<1>8. /\ DOMAIN heard[s] = 1 .. Len(heard[s]) /\ Len(heard[s]) \in Nat
      /\ DOMAIN told1 = 1 .. Len(told1) /\ Len(told1) \in Nat
      /\ DOMAIN heard'[s] = 1 .. Len(heard[s]) + Len(told1)
      /\ \A i \in DOMAIN heard'[s] :
           heard'[s][i] = IF i <= Len(heard[s]) THEN heard[s][i] ELSE told1[i - Len(heard[s])]
  <2>1. /\ DOMAIN heard[s] = 1 .. Len(heard[s]) /\ Len(heard[s]) \in Nat
        /\ DOMAIN told1 = 1 .. Len(told1) /\ Len(told1) \in Nat
    BY <1>4, <1>5, Entries
  <2>2. /\ DOMAIN (heard[s] \o told1) = 1 .. Len(heard[s]) + Len(told1)
        /\ \A i \in 1 .. Len(heard[s]) + Len(told1) :
             (heard[s] \o told1)[i] = IF i <= Len(heard[s]) THEN heard[s][i] ELSE told1[i - Len(heard[s])]
    <3> DEFINE R == [frame : Frames, who : Who]
    <3>1. heard[s] \in Seq(R) /\ told1 \in Seq(R)
      BY <1>4, <1>5
    <3> HIDE DEF R
    <3>2. QED
      BY <3>1, Joined
  <2>3. QED
    BY <1>6, <2>1, <2>2
<1>9. Heard(s) \in Seq(Frames) /\ Len(Heard(s)) = Len(heard[s])
  <2>1. \A i \in DOMAIN heard[s] : heard[s][i].frame \in Frames
    <3>1. \A i \in DOMAIN heard[s] : heard[s][i] \in [frame : Frames, who : Who]
      BY <1>4, Entry
    <3>2. QED
      BY <3>1
  <2>2. Heard(s) \in [1 .. Len(heard[s]) -> Frames]
    BY <1>8, <2>1 DEF Heard
  <2>3. QED
    BY <1>8, <2>2 DEF Heard
<1>10. Heard(s)' = Heard(s) \o audio.frames
  <2> DEFINE h == Heard(s) \o audio.frames
  <2>1. /\ h \in Seq(Frames) /\ Len(audio.frames) = Len(told1)
        /\ DOMAIN h = 1 .. Len(heard[s]) + Len(told1)
        /\ \A i \in DOMAIN h :
             h[i] = IF i <= Len(heard[s]) THEN Heard(s)[i] ELSE audio.frames[i - Len(heard[s])]
    <3>1. Len(audio.frames) = Len(told1) /\ Len(Heard(s)) = Len(heard[s])
      BY <1>5, <1>9
    <3>2. /\ h \in Seq(Frames) /\ DOMAIN h = 1 .. Len(Heard(s)) + Len(audio.frames)
          /\ \A i \in 1 .. Len(Heard(s)) + Len(audio.frames) :
               h[i] = IF i <= Len(Heard(s)) THEN Heard(s)[i] ELSE audio.frames[i - Len(Heard(s))]
      BY ZenonT(40), <1>4, <1>9, Joined
    <3> HIDE DEF h
    <3>3. QED
      BY <3>1, <3>2
  <2> HIDE DEF h
  <2>2. \A i \in DOMAIN heard'[s] : heard'[s][i].frame = h[i]
    <3>1. SUFFICES ASSUME NEW i \in DOMAIN heard'[s] PROVE heard'[s][i].frame = h[i]
      OBVIOUS
    <3>2. i \in 1 .. Len(heard[s]) + Len(told1)
      BY <1>8
    <3>3. CASE i <= Len(heard[s])
      <4>1. i \in DOMAIN heard[s]
        BY <1>8, <3>2, <3>3
      <4>2. Heard(s)[i] = heard[s][i].frame
        BY <4>1 DEF Heard
      <4>3. QED
        BY <1>8, <2>1, <3>2, <3>3, <4>2
    <3>4. CASE ~ (i <= Len(heard[s]))
      <4>1. i - Len(heard[s]) \in 1 .. Len(told1)
        BY <1>8, <3>2, <3>4
      <4>2. QED
        BY <1>5, <1>8, <2>1, <3>2, <3>4, <4>1
    <3>5. QED
      BY <3>3, <3>4
  <2>3. Heard(s)' = [i \in DOMAIN h |-> h[i]]
    BY <1>8, <2>1, <2>2 DEF Heard
  <2>4. h = [i \in DOMAIN h |-> h[i]]
    BY <2>1
  <2>5. QED
    BY <2>3, <2>4 DEF h
<1>11. speaking'[s] = Silence /\ DOMAIN speaking' = Streams
       /\ \A t \in Streams \ {s} : speaking'[t] = speaking[t]
  BY <1>1 DEF VoiceInv
<1>12. Silence \in [who : Who, frames : Seq(Frames)] /\ Silence.frames = <<>>
  BY DEF Silence, Who
<1>13. Parts(Heard(s)', speaking'[s].frames, stream_buffers'[s], said'[s])
  <2>1. Parts(Heard(s), audio.frames, stream_buffers[s], said[s])
    BY <1>1 DEF StreamOK, audio
  <2>2. QED
    BY <1>1, <1>4, <1>9, <1>10, <1>11, <1>12, <2>1, AudioIsHeard
<1>14. \A i \in DOMAIN heard'[s] : Ascribed(heard'[s][i].frame, heard'[s][i].who, s)
  <2>1. SUFFICES ASSUME NEW i \in DOMAIN heard'[s]
                 PROVE  Ascribed(heard'[s][i].frame, heard'[s][i].who, s)
    OBVIOUS
  <2>2. i \in 1 .. Len(heard[s]) + Len(told1)
    BY <1>8
  <2>3. CASE i <= Len(heard[s])
    BY <1>1, <1>8, <2>2, <2>3 DEF StreamOK
  <2>4. CASE ~ (i <= Len(heard[s]))
    <3>1. i - Len(heard[s]) \in DOMAIN audio.frames
      <4>1. i - Len(heard[s]) \in 1 .. Len(told1)
        BY <1>8, <2>2, <2>4
      <4>2. QED
        BY <1>5, <1>8, <4>1
    <3>2. Ascribed(audio.frames[i - Len(heard[s])], audio.who, s)
      BY <1>1, <3>1 DEF StreamOK, audio
    <3>3. QED
      BY <1>5, <1>8, <2>4, <3>1, <3>2
  <2>5. QED
    BY <2>3, <2>4
<1>15. /\ DOMAIN line' = Streams /\ line'[s] = IF line[s] = "stopping" THEN "closed" ELSE "open"
       /\ \A t \in Streams \ {s} : line'[t] = line[t]
  BY <1>2 DEF VoiceInv
<1>16. /\ DOMAIN stream_callers' = Keys
       /\ stream_callers'[s] = IF line[s] = "stopping" THEN NoOne ELSE stream_callers[s]
       /\ \A t \in Keys \ {s} : stream_callers'[t] = stream_callers[t]
  BY <1>2, <1>3 DEF VoiceInv
<1>17. line'[s] = "closed" => stream_buffers[s] = <<>>
  BY <1>1, <1>15 DEF StreamOK
<1>18. StreamOK(s)'
  BY <1>1, <1>7, <1>11, <1>12, <1>13, <1>14, <1>15, <1>16, <1>17 DEF StreamOK
<1>19. QED
  BY <1>1, <1>3, <1>6, <1>11, <1>15, <1>16, <1>18, StreamSpeaks DEF VoiceInv

LEMMA VoiceStepInv == VoiceInv /\ [VoiceNext]_voiceVars => VoiceInv'
<1> SUFFICES ASSUME VoiceInv, [VoiceNext]_voiceVars PROVE VoiceInv'
  OBVIOUS
<1>1. Unnamed \in Keys /\ Unnamed \notin Streams /\ Streams \subseteq Keys
  BY VoiceAssumption DEF Keys, Unnamed
<1>2. ASSUME NEW s \in Streams, Rings(s)
      PROVE  VoiceInv'
  <2>1. /\ DOMAIN parameter' = Streams /\ DOMAIN stream_callers' = Keys /\ DOMAIN stream_buffers' = Keys
        /\ UNCHANGED <<buffer_audio, parameter, stream_callers, stream_buffers, speaking, said, heard>>
    BY <1>2 DEF Rings, VoiceInv
  <2>2. QED
    BY ZenonT(40), <1>1, <1>2, <2>1, StreamQuiet DEF Rings
<1>3. ASSUME NEW s \in Streams, CallAnswered(s)
      PROVE  VoiceInv'
  BY <1>1, <1>3, StreamQuiet DEF CallAnswered, TwimlCaller, VoiceInv
<1>4. ASSUME NEW s \in Streams, StreamStart(s)
      PROVE  VoiceInv'
  <2>1. parameter[s] = Caller[s]
    BY <1>4 DEF StreamStart, VoiceInv, StreamOK
  <2>2. QED
    BY <1>1, <1>4, <2>1, StreamQuiet DEF StreamStart, VoiceInv
<1>5. ASSUME NEW s \in Streams, HangsUp(s)
      PROVE  VoiceInv'
  <2>1. /\ DOMAIN parameter' = Streams /\ DOMAIN stream_callers' = Keys /\ DOMAIN stream_buffers' = Keys
        /\ UNCHANGED <<buffer_audio, parameter, stream_callers, stream_buffers, speaking, said, heard>>
    BY <1>5 DEF HangsUp, VoiceInv
  <2>2. line[s] = "open" /\ line' = [line EXCEPT ![s] = "lost"]
    BY <1>5 DEF HangsUp
  <2>3. /\ line[s] \notin {"transcribing", "stopping"} /\ "lost" \notin {"transcribing", "stopping"}
        /\ "lost" # "connected" /\ "lost" # "open" /\ "lost" # "closed"
    BY <2>2
  <2>4. QED
    BY <1>1, <2>1, <2>2, <2>3, StreamQuiet
<1>6. ASSUME NEW s \in Streams, StopForgets(s)
      PROVE  VoiceInv'
  <2>1. stream_buffers[s] = <<>>
    BY <1>6 DEF StopForgets, VoiceInv, StreamOK
  <2>2. QED
    BY <1>1, <1>6, <2>1, StreamQuiet DEF StopForgets, VoiceInv
<1>7. ASSUME NEW s \in Streams, StopFlushes(s)
      PROVE  VoiceInv'
  <2> DEFINE audio == stream_buffers[s]
  <2>1. /\ line[s] = "open" /\ StreamOK(s) /\ s \in Keys
        /\ UNCHANGED <<buffer_audio, parameter, stream_callers, said, heard>>
        /\ speaking' = [speaking EXCEPT ![s] = [who |-> stream_callers[s], frames |-> audio]]
        /\ stream_buffers' = [stream_buffers EXCEPT ![s] = <<>>]
        /\ line' = [line EXCEPT ![s] = "stopping"]
    BY <1>1, <1>7 DEF StopFlushes, Transcribes, CallerOf, VoiceInv
  <2>2. /\ Parts(Heard(s), <<>>, audio, said[s]) /\ Heard(s)' = Heard(s)
        /\ stream_callers[s] = Caller[s] /\ stream_callers[s] \in Who /\ audio \in Seq(Frames)
    BY <2>1 DEF StreamOK, Heard, Who
  <2>3. /\ speaking'[s] \in [who : Who, frames : Seq(Frames)]
        /\ speaking'[s].frames = audio /\ speaking'[s].who = Caller[s]
        /\ DOMAIN speaking' = Streams /\ \A t \in Streams \ {s} : speaking'[t] = speaking[t]
    BY <2>1, <2>2 DEF VoiceInv
  <2>4. /\ DOMAIN stream_buffers' = Keys /\ stream_buffers'[s] = <<>>
        /\ \A k \in Keys \ {s} : stream_buffers'[k] = stream_buffers[k]
    BY <2>1 DEF VoiceInv
  <2>5. /\ DOMAIN line' = Streams /\ line'[s] = "stopping"
        /\ \A t \in Streams \ {s} : line'[t] = line[t]
    BY <2>1 DEF VoiceInv
  <2>6. Parts(Heard(s)', speaking'[s].frames, stream_buffers'[s], said'[s])
    BY <2>1, <2>2, <2>3, <2>4, BufferGoes
  <2>7. \A i \in DOMAIN audio : Ascribed(audio[i], Caller[s], s)
    BY <2>1 DEF StreamOK, Ascribed
  <2>8. /\ said'[s] \in Seq(BOOLEAN) /\ heard'[s] \in Seq([frame : Frames, who : Who])
        /\ \A i \in DOMAIN heard'[s] : Ascribed(heard'[s][i].frame, heard'[s][i].who, s)
    BY <2>1 DEF StreamOK
  <2>9. stream_buffers'[s] \in Seq(Frames)
    BY <2>4
  <2>10. StreamOK(s)'
    BY <2>1, <2>2, <2>3, <2>4, <2>5, <2>6, <2>7, <2>8, <2>9 DEF StreamOK
  <2>11. QED
    BY <1>1, <2>1, <2>3, <2>4, <2>5, <2>10, StreamSpeaks DEF VoiceInv
<1>8. CASE UNCHANGED voiceVars
  <2>1. UNCHANGED <<buffer_audio, line, parameter, stream_callers, stream_buffers, speaking, said, heard>>
    BY <1>8 DEF voiceVars
  <2>2. \A s \in Streams : StreamOK(s)'
    BY <2>1, StreamRests DEF VoiceInv
  <2>3. QED
    BY <2>1, <2>2 DEF VoiceInv
<1>9. QED
  BY <1>2, <1>3, <1>4, <1>5, <1>6, <1>7, <1>8, MediaStep, TranscribedStep DEF VoiceNext

LEMMA VoiceInitInv == VoiceInit => VoiceInv
<1> SUFFICES ASSUME VoiceInit PROVE VoiceInv
  OBVIOUS
<1>1. Unnamed \in Keys
  BY DEF Keys
<1>2. ASSUME NEW s \in Streams
      PROVE  StreamOK(s)
  <2>1. /\ line[s] = "new" /\ stream_buffers[s] = <<>> /\ speaking[s] = Silence
        /\ said[s] = <<>> /\ heard[s] = <<>>
    BY DEF VoiceInit, Keys
  <2>2. Silence \in [who : Who, frames : Seq(Frames)] /\ Silence.frames = <<>>
    BY DEF Silence, Who
  <2>3. Heard(s) = <<>>
    BY <2>1 DEF Heard
  <2>4. {n \in DOMAIN <<>> : <<>>[n]} = {}
    OBVIOUS
  <2>5. Parts(<<>>, <<>>, <<>>, <<>>)
    BY <2>4, NoNumbers DEF Parts, Before
  <2>6. QED
    BY <2>1, <2>2, <2>3, <2>5 DEF StreamOK
<1>3. stream_buffers[Unnamed] = <<>> /\ stream_callers[Unnamed] = NoOne
  BY <1>1 DEF VoiceInit
<1>4. QED
  <2>1. DOMAIN <<>> = {} /\ <<>> \in Seq(Frames)
    OBVIOUS
  <2>2. QED
    BY <1>2, <1>3, <2>1 DEF VoiceInit, VoiceInv

LEMMA VoiceInvIsEnough == VoiceInv => SpeechIsItsCallers
<1> SUFFICES ASSUME VoiceInv PROVE SpeechIsItsCallers
  OBVIOUS
<1>1. \A s \in Streams : StreamOK(s)
  BY DEF VoiceInv
<1>2. NoMixedVoices
  <2>1. SUFFICES ASSUME NEW s \in Streams, NEW i \in DOMAIN heard[s]
                 PROVE  heard[s][i].who \in {NoOne, Caller[heard[s][i].frame.of]}
    BY DEF NoMixedVoices
  <2>2. Ascribed(heard[s][i].frame, heard[s][i].who, s)
    BY <1>1 DEF StreamOK
  <2>3. QED
    BY <2>2 DEF Ascribed
<1>3. StoppedIsHeard
  <2>1. SUFFICES ASSUME NEW s \in Streams, line[s] = "closed"
                 PROVE  /\ stream_callers[s] = NoOne /\ stream_buffers[s] = <<>>
                        /\ \A i \in NamedFrames(s, s) : heard[s][i].who = Caller[s]
                        /\ \A i, j \in NamedFrames(s, s) :
                             i < j => heard[s][i].frame.n < heard[s][j].frame.n
                        /\ {heard[s][i].frame.n : i \in NamedFrames(s, s)} = {n \in DOMAIN said[s] : said[s][n]}
                        /\ \A t \in Streams \ {s} : NamedFrames(s, t) = {}
    BY DEF StoppedIsHeard
  <2>2. /\ stream_callers[s] = NoOne /\ stream_buffers[s] = <<>> /\ speaking[s].frames = <<>>
        /\ Parts(Heard(s), speaking[s].frames, stream_buffers[s], said[s])
    BY <1>1, <2>1 DEF StreamOK
  <2>3. Ordered(Heard(s)) /\ Numbers(Heard(s)) = {n \in DOMAIN said[s] : said[s][n]}
    BY <2>2, NoNumbers DEF Parts
  <2>4. \A t \in Streams : \A i \in DOMAIN heard[t] :
          heard[t][i].frame.named => heard[t][i].frame.of = t /\ heard[t][i].who = Caller[t]
    BY <1>1 DEF StreamOK, Ascribed
  <2>5. DOMAIN Heard(s) = DOMAIN heard[s] /\ \A i \in DOMAIN heard[s] : Heard(s)[i] = heard[s][i].frame
    BY DEF Heard
  <2>6. \A i : i \in NamedFrames(s, s) <=> i \in DOMAIN Heard(s) /\ Heard(s)[i].named
    BY <2>4, <2>5 DEF NamedFrames
  <2>7. {heard[s][i].frame.n : i \in NamedFrames(s, s)} = Numbers(Heard(s))
    BY <2>5, <2>6 DEF Numbers
  <2>8. \A i, j \in NamedFrames(s, s) : i < j => heard[s][i].frame.n < heard[s][j].frame.n
    BY <2>3, <2>5, <2>6 DEF Ordered
  <2>9. \A t \in Streams \ {s} : NamedFrames(s, t) = {}
    BY <2>4 DEF NamedFrames
  <2>10. \A i \in NamedFrames(s, s) : heard[s][i].who = Caller[s]
    BY <2>4 DEF NamedFrames
  <2>11. QED
    BY <2>2, <2>3, <2>7, <2>8, <2>9, <2>10
<1>4. QED
  BY <1>2, <1>3 DEF SpeechIsItsCallers
-----------------------------------------------------------------------------
(***************************************************************************)
(* The conversations of the chat route, for every number of turns, of      *)
(* calls in a reply, and of tools.                                         *)
(***************************************************************************)
CallIds == {<<"call", t, n>> : t \in Nat, n \in Nat} \cup {<<"own", n>> : n \in Nat}
ToolCalls == [id : CallIds, name : Tools, signed : BOOLEAN]
Spoken == [role : {"assistant"}, calls : Seq(ToolCalls)] \cup [role : {"tool"}, id : CallIds, name : Tools]

DialectsTypeOK ==
  /\ request \in [system : SUBSET {"marked", "plain"}, cache_system : BOOLEAN,
                  image : {"none", "data", "image_url", "source"}]
  /\ messages \in Seq(Spoken)
  /\ provider \in Dialects \cup {"none"}

IsCalls(k) == messages[k].role = "assistant"
IsResult(k) == messages[k].role = "tool"

(* The k-th message is the result of a call of the j-th, and between the   *)
(* two are results alone.                                                  *)
ResultOf(k, j) ==
  /\ j \in DOMAIN messages /\ j < k /\ IsCalls(j) /\ k - j \in DOMAIN messages[j].calls
  /\ messages[k].id = messages[j].calls[k - j].id
  /\ messages[k].name = messages[j].calls[k - j].name
  /\ \A i \in DOMAIN messages : j < i /\ i <= k => IsResult(i)

TellApart(calls) == \A m, n \in DOMAIN calls : calls[m].id = calls[n].id => m = n

TurnsInv ==
  /\ \A j \in DOMAIN messages : IsCalls(j) => TellApart(messages[j].calls)
  /\ \A k \in DOMAIN messages : IsResult(k) => \E j \in DOMAIN messages : ResultOf(k, j)
  /\ phase = "tools" => messages # <<>> /\ IsCalls(Len(messages))

(* What was posted is of the conversation as it is.                        *)
Translated ==
  /\ provider = "openai" => body.items = [k \in DOMAIN messages |-> OpenAIItem(messages[k])]
  /\ provider = "gemini" => body.items = [k \in DOMAIN messages |-> GeminiItem(messages[k])]
  /\ provider \in {"ollama", "prompted"} =>
       \E prompted \in BOOLEAN : body.items = [k \in DOMAIN messages |-> OllamaItem(messages[k], prompted)]

Prompted ==
  /\ body.cached \subseteq request.system
  /\ provider = "openai" => body.cached = {} /\ body.system \in {request.system, request.system \cup {"hint"}}
  /\ provider # "openai" => body.system = request.system \ body.cached
  /\ picture = "data" => body.images = {"data"}

IsBody == body = [system |-> body.system, cached |-> body.cached, images |-> body.images, items |-> body.items]

BodyInv ==
  phase \in {"posted", "fixing", "streamed"} => provider \in Dialects /\ IsBody /\ Translated /\ Prompted

DialectsInv == DialectsTypeOK /\ TurnsInv /\ BodyInv

-----------------------------------------------------------------------------
(* What a reader of the body makes of a result.                            *)

LEMMA LargestIs ==
  ASSUME NEW S \in SUBSET Int, NEW j \in S, \A i \in S : i <= j
  PROVE  Max(S) = j
<1>1. \E m \in S : \A i \in S : m >= i
  OBVIOUS
<1>2. Max(S) \in S /\ \A i \in S : Max(S) >= i
  BY <1>1 DEF Max
<1>3. /\ Max(S) \in Int /\ j \in Int
      /\ Max(S) >= j /\ Max(S) <= j
  BY <1>2
<1>4. QED
  BY <1>3

LEMMA OneTurn ==
  ASSUME DialectsTypeOK, NEW k, NEW j, NEW i, ResultOf(k, j), k \in DOMAIN messages,
         i \in DOMAIN messages, j < i, i <= k, NEW h, ResultOf(i, h)
  PROVE  h = j
<1>1. Len(messages) \in Nat /\ DOMAIN messages = 1 .. Len(messages)
  BY DEF DialectsTypeOK
<1>2. \A n \in DOMAIN messages : ~(IsCalls(n) /\ IsResult(n))
  BY DEF IsCalls, IsResult
<1>3. ~(h < j)
  BY <1>1, <1>2 DEF ResultOf
<1>4. ~(j < h)
  BY <1>1, <1>2 DEF ResultOf
<1>5. QED
  BY <1>1, <1>3, <1>4 DEF ResultOf

LEMMA TurnIsLast ==
  ASSUME DialectsTypeOK, NEW k \in DOMAIN messages, NEW j, ResultOf(k, j)
  PROVE  Max({i \in 1 .. k - 1 : IsCalls(i)}) = j
<1>1. Len(messages) \in Nat /\ DOMAIN messages = 1 .. Len(messages)
  BY DEF DialectsTypeOK
<1> DEFINE S == {i \in 1 .. k - 1 : IsCalls(i)}
<1>2. j \in S /\ S \in SUBSET Int
  BY <1>1 DEF ResultOf
<1>3. \A i \in S : i <= j
  BY <1>1 DEF ResultOf, IsResult, IsCalls
<1> HIDE DEF S
<1>4. Max(S) = j
  BY <1>2, <1>3, LargestIs
<1>5. QED
  BY <1>4 DEF S

(* Whoever can tell calls from results finds the turn.                     *)
LEMMA TurnIsFound ==
  ASSUME DialectsTypeOK, NEW k \in DOMAIN messages, NEW j, ResultOf(k, j),
         NEW items, \A i \in DOMAIN messages : "calls" \in DOMAIN items[i] <=> IsCalls(i)
  PROVE  TurnOf(items, k) = j
<1>1. 1 .. k - 1 \subseteq DOMAIN messages
  BY DEF DialectsTypeOK
<1>2. {i \in 1 .. k - 1 : "calls" \in DOMAIN items[i]} = {i \in 1 .. k - 1 : IsCalls(i)}
  BY <1>1
<1>3. QED
  BY <1>2, TurnIsLast DEF TurnOf

LEMMA TheCallIsAnswered ==
  ASSUME DialectsTypeOK, TurnsInv, NEW k \in DOMAIN messages, NEW j, ResultOf(k, j)
  PROVE  Answered(k) = {k - j}
<1> DEFINE calls == messages[j].calls
<1>1. Max({i \in 1 .. k - 1 : messages[i].role = "assistant"}) = j
  BY TurnIsLast DEF IsCalls
<1>2. Answered(k) = {n \in DOMAIN calls : calls[n].id = messages[k].id}
  BY <1>1 DEF Answered
<1>3. TellApart(calls) /\ k - j \in DOMAIN calls /\ messages[k].id = calls[k - j].id
  BY DEF TurnsInv, ResultOf
<1>4. QED
  BY <1>2, <1>3 DEF TellApart

LEMMA ItIsAResult ==
  ASSUME DialectsTypeOK, NEW k \in DOMAIN messages, NEW j, ResultOf(k, j)
  PROVE  IsResult(k)
<1>1. j < k /\ k <= k
  BY DEF DialectsTypeOK, ResultOf
<1>2. QED
  BY <1>1 DEF ResultOf

(* By id.                                                                  *)
LEMMA OpenAIAnswers ==
  ASSUME DialectsTypeOK, TurnsInv, NEW k \in DOMAIN messages, NEW j, ResultOf(k, j),
         provider = "openai", body.items = [i \in DOMAIN messages |-> OpenAIItem(messages[i])]
  PROVE  AnsweredIn(k) = {k - j}
<1> DEFINE calls == messages[j].calls
<1>1. \A i \in DOMAIN messages : "calls" \in DOMAIN body.items[i] <=> IsCalls(i)
  BY DEF OpenAIItem, IsCalls, DialectsTypeOK, Spoken
<1>2. TurnOf(body.items, k) = j
  BY <1>1, TurnIsFound
<1>3. body.items[k].result = messages[k].id
  BY ItIsAResult DEF OpenAIItem, IsResult
<1>4. body.items[j].calls = [n \in DOMAIN calls |-> [id |-> calls[n].id, name |-> calls[n].name]]
  BY DEF OpenAIItem, ResultOf, IsCalls
<1>5. AnsweredIn(k) = {n \in DOMAIN calls : calls[n].id = messages[k].id}
  BY <1>2, <1>3, <1>4 DEF AnsweredIn
<1>6. TellApart(calls) /\ k - j \in DOMAIN calls /\ messages[k].id = calls[k - j].id
  BY DEF TurnsInv, ResultOf
<1>7. QED
  BY <1>5, <1>6 DEF TellApart

(* By order.                                                               *)
LEMMA OllamaAnswers ==
  ASSUME DialectsTypeOK, NEW k \in DOMAIN messages, NEW j, ResultOf(k, j), NEW prompted \in BOOLEAN,
         provider \in {"ollama", "prompted"},
         body.items = [i \in DOMAIN messages |-> OllamaItem(messages[i], prompted)]
  PROVE  AnsweredIn(k) = {k - j}
<1>1. \A i \in DOMAIN messages : "calls" \in DOMAIN body.items[i] <=> IsCalls(i)
  BY DEF OllamaItem, IsCalls, DialectsTypeOK, Spoken
<1>2. TurnOf(body.items, k) = j
  BY <1>1, TurnIsFound
<1>3. QED
  BY <1>2 DEF AnsweredIn

(* By name, in the order of those with one name.  Among the calls up to    *)
(* the n-th, Alike are the ones with the name of the k-th message.         *)
Alike(calls, name, n) == {m \in DOMAIN calls : m <= n /\ calls[m].name = name}

LEMMA AlikeFinite ==
  ASSUME NEW calls \in Seq(ToolCalls), NEW name, NEW l
  PROVE  IsFiniteSet(Alike(calls, name, l))
<1>1. Len(calls) \in Nat /\ DOMAIN calls = 1 .. Len(calls)
  OBVIOUS
<1>2. IsFiniteSet(DOMAIN calls)
  BY <1>1, FS_Interval
<1>3. Alike(calls, name, l) \in SUBSET DOMAIN calls
  BY DEF Alike
<1>4. QED
  BY <1>2, <1>3, FS_Subset

LEMMA AlikeGrow ==
  ASSUME NEW calls \in Seq(ToolCalls), NEW name, NEW m \in DOMAIN calls, NEW n \in DOMAIN calls,
         calls[m].name = name, calls[n].name = name,
         Cardinality(Alike(calls, name, m)) = Cardinality(Alike(calls, name, n))
  PROVE  m = n
<1>1. Len(calls) \in Nat /\ DOMAIN calls = 1 .. Len(calls)
  OBVIOUS
<1>2. ASSUME NEW l \in DOMAIN calls PROVE IsFiniteSet(Alike(calls, name, l))
  BY AlikeFinite
<1>3. ASSUME NEW a \in DOMAIN calls, NEW b \in DOMAIN calls, a < b, calls[b].name = name,
             Cardinality(Alike(calls, name, a)) = Cardinality(Alike(calls, name, b))
      PROVE  FALSE
  <2>1. Alike(calls, name, a) \in SUBSET Alike(calls, name, b)
    BY <1>1, <1>3 DEF Alike
  <2>2. Alike(calls, name, a) = Alike(calls, name, b)
    BY <1>2, <1>3, <2>1, FS_Subset
  <2>3. b \in Alike(calls, name, b) /\ b \notin Alike(calls, name, a)
    BY <1>1, <1>3 DEF Alike
  <2>4. QED
    BY <2>2, <2>3
<1>4. ~(m < n) /\ ~(n < m)
  BY <1>3
<1>5. QED
  BY <1>1, <1>4

LEMMA ResultsBefore ==
  ASSUME DialectsTypeOK, TurnsInv, NEW k \in DOMAIN messages, NEW j, ResultOf(k, j),
         NEW i \in DOMAIN messages, j < i, i <= k
  PROVE  ResultOf(i, j)
<1>1. IsResult(i)
  BY DEF ResultOf
<1>2. PICK h \in DOMAIN messages : ResultOf(i, h)
  BY <1>1 DEF TurnsInv
<1>3. QED
  BY <1>2, OneTurn

LEMMA GeminiAnswers ==
  ASSUME DialectsTypeOK, TurnsInv, NEW k \in DOMAIN messages, NEW j, ResultOf(k, j),
         provider = "gemini", body.items = [i \in DOMAIN messages |-> GeminiItem(messages[i])]
  PROVE  AnsweredIn(k) = {k - j}
<1> DEFINE calls == messages[j].calls
           name == messages[k].name
           earlier == {i \in j + 1 .. k : body.items[i].result = name}
<1>1. \A i \in DOMAIN messages : "calls" \in DOMAIN body.items[i] <=> IsCalls(i)
  BY DEF GeminiItem, IsCalls, DialectsTypeOK, Spoken
<1>2. TurnOf(body.items, k) = j
  BY <1>1, TurnIsFound
<1>3. \A i \in DOMAIN messages : IsResult(i) => body.items[i].result = messages[i].name
  BY DEF GeminiItem, IsResult
<1>4. body.items[j].calls = [n \in DOMAIN calls |-> [name |-> calls[n].name, signed |-> calls[n].signed]]
  BY DEF GeminiItem, ResultOf, IsCalls
<1>5. /\ Len(messages) \in Nat /\ DOMAIN messages = 1 .. Len(messages)
      /\ j \in Nat /\ k \in Nat /\ j < k /\ k - j \in DOMAIN calls
      /\ calls \in Seq(ToolCalls) /\ Len(calls) \in Nat /\ DOMAIN calls = 1 .. Len(calls)
  <2>1. messages[j] \in Spoken /\ IsCalls(j)
    BY DEF ResultOf, DialectsTypeOK
  <2>2. calls \in Seq(ToolCalls)
    BY <2>1 DEF Spoken, IsCalls
  <2>3. Len(messages) \in Nat /\ DOMAIN messages = 1 .. Len(messages)
    BY DEF DialectsTypeOK
  <2>4. QED
    BY <2>2, <2>3 DEF ResultOf
<1>6. \A i \in j + 1 .. k : /\ i \in DOMAIN messages /\ i - j \in DOMAIN calls
                            /\ body.items[i].result = calls[i - j].name
  <2>1. SUFFICES ASSUME NEW i \in j + 1 .. k
                 PROVE  /\ i \in DOMAIN messages /\ i - j \in DOMAIN calls
                        /\ body.items[i].result = calls[i - j].name
    OBVIOUS
  <2>2. i \in DOMAIN messages /\ j < i /\ i <= k
    BY <1>5
  <2>3. ResultOf(i, j)
    BY <2>2, ResultsBefore
  <2>4. IsResult(i)
    BY <2>2 DEF ResultOf
  <2>5. QED
    BY <1>3, <2>2, <2>3, <2>4 DEF ResultOf
<1>7. body.items[k].result = name /\ calls[k - j].name = name
  BY <1>3, ItIsAResult DEF ResultOf
<1>8. AnsweredIn(k) = {n \in DOMAIN calls : /\ n \in Alike(calls, name, n)
                                            /\ Cardinality(Alike(calls, name, n)) = Cardinality(earlier)}
  <2> DEFINE theirs == body.items[j].calls
             alike(n) == {m \in DOMAIN theirs : m <= n /\ theirs[m].name = body.items[k].result}
  <2>1. AnsweredIn(k) = {n \in DOMAIN theirs :
          /\ n \in alike(n)
          /\ Cardinality(alike(n)) = Cardinality({i \in j + 1 .. k : body.items[i].result = body.items[k].result})}
    BY <1>2 DEF AnsweredIn
  <2>2. DOMAIN theirs = DOMAIN calls /\ \A n \in DOMAIN calls : theirs[n].name = calls[n].name
    BY <1>4
  <2>3. ASSUME NEW n PROVE alike(n) = Alike(calls, name, n)
    BY <1>7, <2>2 DEF Alike
  <2>4. {i \in j + 1 .. k : body.items[i].result = body.items[k].result} = earlier
    BY <1>7
  <2> HIDE DEF theirs, alike, earlier, calls, name
  <2>5. QED
    BY <2>1, <2>2, <2>3, <2>4
<1>9. Cardinality(earlier) = Cardinality(Alike(calls, name, k - j))
  <2> DEFINE S == Alike(calls, name, k - j)
             f == [n \in S |-> n + j]
  <2>1. IsFiniteSet(S)
    BY <1>5, AlikeFinite
  <2>2. \A n \in S : n + j \in earlier
    <3>1. SUFFICES ASSUME NEW n \in S PROVE n + j \in earlier
      OBVIOUS
    <3>2. n \in DOMAIN calls /\ n <= k - j /\ calls[n].name = name
      BY DEF Alike
    <3>3. n + j \in j + 1 .. k /\ (n + j) - j = n
      BY <1>5, <3>2
    <3>4. QED
      BY <1>6, <3>2, <3>3
  <2>3. \A i \in earlier : i - j \in S /\ (i - j) + j = i
    <3>1. SUFFICES ASSUME NEW i \in earlier PROVE i - j \in S /\ (i - j) + j = i
      OBVIOUS
    <3>2. i \in j + 1 .. k /\ i - j \in DOMAIN calls /\ calls[i - j].name = name
      BY <1>6
    <3>3. i - j <= k - j /\ (i - j) + j = i
      BY <1>5, <3>2
    <3>4. QED
      BY <3>2, <3>3 DEF Alike
  <2>4. S \subseteq Nat
    BY <1>5 DEF Alike
  <2> HIDE DEF S, earlier
  <2>5. f \in Bijection(S, earlier)
    <3>1. f \in [S -> earlier]
      BY <2>2
    <3>2. \A a, b \in S : f[a] = f[b] => a = b
      BY <1>5, <2>4
    <3>3. \A i \in earlier : \E n \in S : f[n] = i
      BY <2>3
    <3>4. QED
      BY <3>1, <3>2, <3>3 DEF Bijection, Injection, Surjection, IsInjective
  <2>6. Cardinality(earlier) = Cardinality(S)
    BY <2>1, <2>5, FS_Bijection DEF ExistsBijection
  <2>7. QED
    BY <2>6 DEF S
<1>10. k - j \in Alike(calls, name, k - j)
  BY <1>5, <1>7 DEF Alike
<1>11. \A n \in DOMAIN calls : n \in Alike(calls, name, n) => calls[n].name = name
  BY DEF Alike
<1> HIDE DEF earlier, calls, name
<1>12. QED
  BY <1>5, <1>7, <1>8, <1>9, <1>10, <1>11, AlikeGrow

LEMMA DialectsInvIsEnough == DialectsInv => ConversationIsWhole
<1> SUFFICES ASSUME DialectsInv, phase \in {"posted", "fixing", "streamed"} PROVE ConversationIsWhole
  BY DEF ConversationIsWhole
<1>1. DialectsTypeOK /\ TurnsInv /\ provider \in Dialects /\ Translated /\ Prompted
  BY DEF DialectsInv, BodyInv
<1>2. /\ body.system \cup body.cached \in {request.system, request.system \cup {"hint"}}
      /\ body.system \cap body.cached = {}
      /\ picture = "data" => body.images = {"data"}
  BY <1>1 DEF Prompted
<1>3. ASSUME NEW k \in DOMAIN messages, messages[k].role = "tool"
      PROVE  AnsweredIn(k) = Answered(k)
  <2>1. PICK j \in DOMAIN messages : ResultOf(k, j)
    BY <1>1, <1>3 DEF TurnsInv, IsResult
  <2>2. Answered(k) = {k - j}
    BY <1>1, <2>1, TheCallIsAnswered
  <2>3. CASE provider = "openai"
    BY <1>1, <2>1, <2>2, <2>3, OpenAIAnswers DEF Translated
  <2>4. CASE provider = "gemini"
    BY <1>1, <2>1, <2>2, <2>4, GeminiAnswers DEF Translated
  <2>5. CASE provider \in {"ollama", "prompted"}
    <3>1. PICK prompted \in BOOLEAN : body.items = [i \in DOMAIN messages |-> OllamaItem(messages[i], prompted)]
      BY <1>1, <2>5 DEF Translated
    <3>2. QED
      BY <1>1, <2>1, <2>2, <2>5, <3>1, OllamaAnswers
  <2>6. QED
    BY <1>1, <2>3, <2>4, <2>5 DEF Dialects
<1>4. ASSUME NEW k \in DOMAIN messages, messages[k].role # "tool", provider = "gemini",
             NEW n \in DOMAIN messages[k].calls
      PROVE  body.items[k].calls[n].signed = messages[k].calls[n].signed
  BY <1>1, <1>4 DEF Translated, GeminiItem
<1>5. QED
  BY <1>2, <1>3, <1>4 DEF ConversationIsWhole

-----------------------------------------------------------------------------
(* The turns of a conversation.                                            *)

LEMMA TurnsAreCounted == ASSUME DialectsTypeOK PROVE Turns \in Nat
<1>1. Len(messages) \in Nat /\ DOMAIN messages = 1 .. Len(messages)
  BY DEF DialectsTypeOK
<1>2. IsFiniteSet(DOMAIN messages)
  BY <1>1, FS_Interval
<1> DEFINE S == {k \in DOMAIN messages : messages[k].role = "assistant"}
<1>3. S \in SUBSET DOMAIN messages
  OBVIOUS
<1> HIDE DEF S
<1>4. Cardinality(S) \in Nat
  BY <1>2, <1>3, FS_Subset, FS_CardinalityType
<1>5. QED
  BY <1>4 DEF S, Turns

LEMMA CallsTellApart ==
  ASSUME DialectsTypeOK, NEW l \in Nat, NEW names \in [1 .. l -> Tools],
         NEW d \in Dialects, NEW calls \in CallsOf(d, names), calls # <<>>
  PROVE  calls \in Seq(ToolCalls) /\ TellApart(calls)
<1>1. PICK own \in BOOLEAN, signed \in BOOLEAN : calls = Named(names, own, signed)
  <2>1. \A x \in CallsOf(d, names) : x # <<>> =>
          \E own \in BOOLEAN, signed \in BOOLEAN : x = Named(names, own, signed)
    <3>1. CASE d = "openai"
      BY <3>1 DEF CallsOf, OpenAICalls
    <3>2. CASE d = "gemini"
      BY <3>2 DEF CallsOf, GeminiCalls
    <3>3. CASE d = "ollama"
      BY <3>3 DEF CallsOf, OllamaCalls
    <3>4. CASE d = "prompted"
      BY <3>4 DEF CallsOf, PromptedCalls
    <3>5. QED
      BY <3>1, <3>2, <3>3, <3>4 DEF Dialects
  <2>2. QED
    BY <2>1
<1> DEFINE id(n) == IF own THEN Own(n) ELSE Fresh(n)
<1>2. calls = [n \in 1 .. l |-> [id |-> id(n), name |-> names[n], signed |-> signed]]
  BY <1>1 DEF Named, Call
<1>3. \A n \in 1 .. l : id(n) \in CallIds
  BY TurnsAreCounted DEF Own, Fresh, CallIds
<1>4. \A m, n \in 1 .. l : id(m) = id(n) => m = n
  BY DEF Own, Fresh
<1> HIDE DEF id
<1>5. \A n \in 1 .. l : calls[n] \in ToolCalls
  BY <1>2, <1>3 DEF ToolCalls
<1>6. calls \in Seq(ToolCalls)
  BY <1>2, <1>5
<1>7. TellApart(calls)
  BY <1>2, <1>4 DEF TellApart
<1>8. QED
  BY <1>6, <1>7

LEMMA TurnIsTaken ==
  ASSUME DialectsTypeOK, TurnsInv, NEW calls \in Seq(ToolCalls), TellApart(calls),
         messages' = Append(messages, [role |-> "assistant", calls |-> calls])
  PROVE  messages' \in Seq(Spoken) /\ TurnsInv'
<1> DEFINE turn == [role |-> "assistant", calls |-> calls]
<1>1. turn \in Spoken /\ turn.role = "assistant" /\ turn.calls = calls
  BY DEF Spoken
<1> HIDE DEF turn
<1>2. messages' = Append(messages, turn) /\ messages \in Seq(Spoken)
  BY DEF turn, DialectsTypeOK
<1>3. /\ messages' \in Seq(Spoken) /\ Len(messages) \in Nat /\ Len(messages') = Len(messages) + 1
      /\ DOMAIN messages = 1 .. Len(messages) /\ DOMAIN messages' = 1 .. Len(messages) + 1
      /\ \A i \in DOMAIN messages : messages'[i] = messages[i]
      /\ messages'[Len(messages) + 1] = turn
  BY <1>1, <1>2
<1>4. ASSUME NEW i \in DOMAIN messages' PROVE i \in DOMAIN messages \/ i = Len(messages) + 1
  BY <1>3
<1>5. \A i \in DOMAIN messages : (IsCalls(i)' <=> IsCalls(i)) /\ (IsResult(i)' <=> IsResult(i))
  BY <1>3 DEF IsCalls, IsResult
<1>6. ASSUME NEW j \in DOMAIN messages', IsCalls(j)' PROVE TellApart(messages[j].calls)'
  <2>1. CASE j \in DOMAIN messages
    BY <1>3, <1>5, <1>6, <2>1 DEF TurnsInv, TellApart
  <2>2. CASE j = Len(messages) + 1
    BY <1>1, <1>3, <2>2 DEF TellApart
  <2>3. QED
    BY <1>4, <2>1, <2>2
<1>7. ASSUME NEW k \in DOMAIN messages', IsResult(k)'
      PROVE  \E j \in DOMAIN messages' : ResultOf(k, j)'
  <2>1. k \in DOMAIN messages
    BY <1>1, <1>3, <1>4, <1>7 DEF IsResult
  <2>2. PICK j \in DOMAIN messages : ResultOf(k, j)
    BY <1>5, <1>7, <2>1 DEF TurnsInv
  <2>3. \A i \in DOMAIN messages' : i <= k => i \in DOMAIN messages
    BY <1>3, <2>1
  <2>4. ResultOf(k, j)'
    BY <1>3, <1>5, <2>1, <2>2, <2>3 DEF ResultOf
  <2>5. QED
    BY <1>3, <2>2, <2>4
<1>8. messages' # <<>> /\ IsCalls(Len(messages))'
  BY <1>1, <1>3 DEF IsCalls
<1>9. QED
  BY <1>3, <1>6, <1>7, <1>8 DEF TurnsInv

LEMMA ResultsAreGiven ==
  ASSUME DialectsTypeOK, TurnsInv, RunsTools
  PROVE  messages' \in Seq(Spoken) /\ TurnsInv'
<1>0. PICK L, calls : L \in Nat /\ L = Len(messages) /\ calls = messages[L].calls
  BY DEF DialectsTypeOK
<1> DEFINE given == [n \in DOMAIN calls |-> [role |-> "tool", id |-> calls[n].id, name |-> calls[n].name]]
<1>1. /\ messages \in Seq(Spoken) /\ L \in Nat /\ DOMAIN messages = 1 .. L
      /\ L \in DOMAIN messages /\ IsCalls(L)
  <2>1. messages # <<>> /\ IsCalls(L) /\ messages \in Seq(Spoken)
    BY <1>0 DEF RunsTools, TurnsInv, DialectsTypeOK
  <2>2. QED
    BY <1>0, <2>1
<1>2. calls \in Seq(ToolCalls) /\ Len(calls) \in Nat /\ DOMAIN calls = 1 .. Len(calls)
  <2>1. messages[L] \in Spoken
    BY <1>1
  <2>2. calls \in Seq(ToolCalls)
    BY <1>0, <1>1, <2>1 DEF Spoken, IsCalls
  <2>3. QED
    BY <2>2
<1>3. \A n \in DOMAIN calls : calls[n] \in ToolCalls
  BY <1>2
<1>4. given \in Seq(Spoken) /\ Len(given) = Len(calls) /\ DOMAIN given = DOMAIN calls
  <2>1. \A n \in DOMAIN calls : given[n] \in Spoken
    BY <1>3 DEF Spoken, ToolCalls
  <2>2. given \in [1 .. Len(calls) -> Spoken]
    BY <1>2, <2>1
  <2> HIDE DEF given
  <2>3. QED
    BY <1>2, <2>2
<1>5. \A n \in DOMAIN calls : /\ given[n].role = "tool" /\ given[n].id = calls[n].id
                              /\ given[n].name = calls[n].name
  OBVIOUS
<1>6. messages' = messages \o given
  BY <1>0 DEF RunsTools
<1> HIDE DEF given
<1>7. /\ messages' \in Seq(Spoken) /\ Len(messages') = L + Len(calls)
      /\ DOMAIN messages' = 1 .. L + Len(calls)
      /\ \A i \in DOMAIN messages : messages'[i] = messages[i]
      /\ \A i \in DOMAIN messages' : i \notin DOMAIN messages =>
           i - L \in DOMAIN calls /\ messages'[i] = given[i - L] /\ L < i
  BY <1>0, <1>1, <1>2, <1>4, <1>6
<1>8. \A i \in DOMAIN messages : (IsCalls(i)' <=> IsCalls(i)) /\ (IsResult(i)' <=> IsResult(i))
  BY <1>7 DEF IsCalls, IsResult
<1>9. \A i \in DOMAIN messages' : i \notin DOMAIN messages => IsResult(i)' /\ ~IsCalls(i)'
  BY <1>5, <1>7 DEF IsCalls, IsResult
<1>10. ASSUME NEW j \in DOMAIN messages', IsCalls(j)' PROVE TellApart(messages[j].calls)'
  BY <1>7, <1>8, <1>9, <1>10 DEF TurnsInv, TellApart
<1>11. DOMAIN messages \subseteq DOMAIN messages'
  BY <1>1, <1>2, <1>7
<1>12. ASSUME NEW k \in DOMAIN messages', IsResult(k)'
       PROVE  \E j \in DOMAIN messages' : ResultOf(k, j)'
  <2>1. CASE k \in DOMAIN messages
    <3>1. PICK j \in DOMAIN messages : ResultOf(k, j)
      BY <1>8, <1>12, <2>1 DEF TurnsInv
    <3>2. \A i \in DOMAIN messages' : i <= k => i \in DOMAIN messages
      BY <1>1, <1>7, <2>1
    <3>3. ResultOf(k, j)'
      BY <1>7, <1>8, <1>11, <2>1, <3>1, <3>2 DEF ResultOf
    <3>4. QED
      BY <1>11, <3>3
  <2>2. CASE k \notin DOMAIN messages
    <3>1. \A i \in DOMAIN messages' : L < i => i \notin DOMAIN messages
      BY <1>1
    <3>2. L < k /\ k - L \in DOMAIN calls /\ messages'[k] = given[k - L]
      BY <1>7, <2>2
    <3>3. messages'[L] = messages[L] /\ IsCalls(L)' /\ L \in DOMAIN messages'
      BY <1>1, <1>7, <1>8, <1>11
    <3>4. ResultOf(k, L)'
      BY <1>0, <1>5, <1>9, <3>1, <3>2, <3>3 DEF ResultOf
    <3>5. QED
      BY <3>3, <3>4
  <2>3. QED
    BY <2>1, <2>2
<1>13. phase' # "tools"
  BY DEF RunsTools
<1>14. QED
  BY <1>7, <1>10, <1>12, <1>13 DEF TurnsInv

-----------------------------------------------------------------------------
(* What is posted.                                                         *)

LEMMA BodyIsMade ==
  ASSUME DialectsTypeOK, NEW d \in Dialects, NEW tools \in BOOLEAN, body' \in BodiesFor(d, tools),
         provider' = d, UNCHANGED <<request, messages, picture>>
  PROVE  BodyInv'
<1>1. CASE d = "openai"
  <2>1. body' = OpenAIBody
    BY <1>1 DEF BodiesFor
  <2>2. Translated' /\ Prompted' /\ IsBody'
    BY <1>1, <2>1 DEF OpenAIBody, Translated, Prompted, IsBody
  <2>3. QED
    BY <2>2 DEF BodyInv
<1>2. CASE d = "gemini"
  <2>1. PICK cached \in {{}, Cacheable} : body' = GeminiBody(cached)
    BY <1>2 DEF BodiesFor
  <2>2. cached \subseteq request.system
    BY DEF Cacheable
  <2>3. Translated' /\ Prompted' /\ IsBody'
    BY <1>2, <2>1, <2>2 DEF GeminiBody, ImageBlocks, Translated, Prompted, IsBody
  <2>4. QED
    BY <1>2, <2>3 DEF BodyInv
<1>3. CASE d \in {"ollama", "prompted"}
  <2>1. PICK prompted \in BOOLEAN : body' = OllamaBody(prompted)
    BY <1>3 DEF BodiesFor
  <2>2. Translated' /\ Prompted' /\ IsBody'
    BY <1>3, <2>1 DEF OllamaBody, ImageBlocks, Translated, Prompted, IsBody
  <2>3. QED
    BY <2>2 DEF BodyInv
<1>4. QED
  BY <1>1, <1>2, <1>3 DEF Dialects

LEMMA DialectsInitInv == DialectsInit => DialectsInv
BY DEF DialectsInit, DialectsInv, DialectsTypeOK, TurnsInv, BodyInv

LEMMA TurnsRest ==
  ASSUME TurnsInv, UNCHANGED messages, phase' = "tools" => phase = "tools"
  PROVE  TurnsInv'
BY DEF TurnsInv, TellApart, ResultOf, IsCalls, IsResult

LEMMA DialectsStep == DialectsInv /\ [DialectsNext]_dialectVars => DialectsInv'
<1> SUFFICES ASSUME DialectsInv, [DialectsNext]_dialectVars PROVE DialectsInv'
  OBVIOUS
<1>1. DialectsTypeOK /\ TurnsInv /\ BodyInv
  BY DEF DialectsInv
<1>2. ASSUME UNCHANGED messages, phase' = "tools" => phase = "tools", request' = request,
             provider' \in Dialects \cup {"none"}, BodyInv'
      PROVE  DialectsInv'
  BY <1>1, <1>2, TurnsRest DEF DialectsInv, DialectsTypeOK
<1>3. CASE UNCHANGED dialectVars
  <2>1. BodyInv'
    BY <1>1, <1>3 DEF dialectVars, BodyInv, Translated, Prompted, IsBody
  <2>2. QED
    BY <1>1, <1>2, <1>3, <2>1 DEF dialectVars, DialectsTypeOK
<1>4. CASE Resolves \/ FailsOver \/ Fixed
  <2>1. BodyInv'
    BY <1>4 DEF Resolves, FailsOver, Fixed, BodyInv
  <2>2. QED
    BY <1>1, <1>2, <1>4, <2>1 DEF Resolves, FailsOver, Fixed, Forgets, DialectsTypeOK
<1>5. ASSUME NEW d \in Dialects, Posts(d) \/ StreamsText(d) PROVE DialectsInv'
  <2>1. BodyInv'
    BY <1>1, <1>5, BodyIsMade DEF Posts, StreamsText
  <2>2. QED
    BY <1>2, <1>5, <2>1 DEF Posts, StreamsText
<1>6. CASE AsksForJson
  <2>1. provider \in Dialects /\ provider' = provider
    BY <1>1, <1>6 DEF AsksForJson, BodyInv
  <2>2. BodyInv'
    BY <1>1, <1>6, <2>1, BodyIsMade DEF AsksForJson
  <2>3. QED
    BY <1>2, <1>6, <2>1, <2>2 DEF AsksForJson
<1>7. CASE HintsJson
  <2>1. /\ provider = "openai" /\ provider \in Dialects /\ IsBody /\ Translated /\ Prompted
        /\ body' = [body EXCEPT !.system = @ \cup {"hint"}]
        /\ UNCHANGED <<request, messages, picture, provider, phase>>
    BY <1>1, <1>7 DEF HintsJson, BodyInv
  <2>2. body' = [system |-> body.system \cup {"hint"}, cached |-> body.cached, images |-> body.images,
                 items |-> body.items]
    BY <2>1 DEF IsBody
  <2>3. IsBody' /\ Translated' /\ Prompted'
    BY <2>1, <2>2 DEF IsBody, Translated, Prompted
  <2>4. QED
    BY <1>2, <2>1, <2>3 DEF BodyInv
<1>8. CASE Uncaches
  <2>1. /\ provider = "gemini" /\ provider \in Dialects /\ IsBody /\ Translated /\ Prompted
        /\ body' = [body EXCEPT !.cached = {}, !.system = request.system]
        /\ UNCHANGED <<request, messages, picture, provider, phase>>
    BY <1>1, <1>8 DEF Uncaches, BodyInv
  <2>2. body' = [system |-> request.system, cached |-> {}, images |-> body.images, items |-> body.items]
    BY <2>1 DEF IsBody
  <2>3. IsBody' /\ Translated' /\ Prompted'
    BY <2>1, <2>2 DEF IsBody, Translated, Prompted
  <2>4. QED
    BY <1>2, <2>1, <2>3 DEF BodyInv
<1>9. CASE RunsTools
  <2>1. messages' \in Seq(Spoken) /\ TurnsInv'
    BY <1>1, <1>9, ResultsAreGiven
  <2>2. BodyInv' /\ request' = request /\ provider' = provider
    BY <1>9 DEF RunsTools, BodyInv
  <2>3. QED
    BY <1>1, <2>1, <2>2 DEF DialectsInv, DialectsTypeOK
<1>10. ASSUME NEW l \in 0 .. MaxParallel, NEW names \in [1 .. l -> Tools], Replies(names)
       PROVE  DialectsInv'
  <2>1. provider \in Dialects /\ provider' = "none" /\ request' = request /\ phase' \in {"over", "tools"}
    BY <1>1, <1>10 DEF Replies, Forgets, BodyInv
  <2>2. BodyInv'
    BY <2>1 DEF BodyInv
  <2>3. CASE phase' = "over"
    <3>1. UNCHANGED messages
      BY <1>10, <2>3 DEF Replies
    <3>2. QED
      BY <1>2, <2>1, <2>2, <2>3, <3>1
  <2>4. CASE phase' = "tools"
    <3>1. PICK calls \in CallsOf(provider, names) :
            calls # <<>> /\ messages' = Append(messages, [role |-> "assistant", calls |-> calls])
      BY <1>10, <2>4 DEF Replies
    <3>2. calls \in Seq(ToolCalls) /\ TellApart(calls)
      BY <1>1, <1>10, <2>1, <3>1, CallsTellApart
    <3>3. messages' \in Seq(Spoken) /\ TurnsInv'
      BY <1>1, <3>1, <3>2, TurnIsTaken
    <3>4. QED
      BY <1>1, <2>1, <2>2, <3>3 DEF DialectsInv, DialectsTypeOK
  <2>5. QED
    BY <2>1, <2>3, <2>4
<1>11. QED
  BY <1>3, <1>4, <1>5, <1>6, <1>7, <1>8, <1>9, <1>10 DEF DialectsNext

-----------------------------------------------------------------------------
(***************************************************************************)
(* The processes beside each other.                                        *)
(***************************************************************************)
ChannelInv == AdmitInv /\ PairInv /\ AdaptInv /\ OrderInv /\ MailInv /\ VoiceInv /\ DialectsInv

LEMMA GatewayInit ==
  ASSUME Init
  PROVE  AdmitInv /\ PairInv
<1>1. /\ \A s \in Senders : recent[s] = <<>>
      /\ \A p \in Processes, s \in Senders : inbound[p][s] = <<>>
  BY DEF Init
<1>2. /\ recent \in [Senders -> Seq(Nat)]
      /\ inbound \in [Processes -> [Senders -> Seq(0 .. Window)]]
  BY DEF Init
<1>0. UsedInv /\ Running \in Processes
  <2>1. UsedInv
    BY GatewayAssumption DEF Init, UsedInv
  <2>2. QED
    BY <2>1, RunningIsOne
<1>3. Len(<<>>) = 0 /\ DOMAIN <<>> = {} /\ 0 <= Cap
  BY GatewayAssumption
<1>4. AdmitInv
  BY <1>0, <1>1, <1>2, <1>3 DEF AdmitInv, Falling, Covers
<1>5. PairInv
  BY DEF Init, PairInv, Asked, Levels
<1>6. QED
  BY <1>4, <1>5

LEMMA AdaptersInitInv ==
  ASSUME AdaptersInit
  PROVE  AdaptInv /\ OrderInv
<1>1. /\ channel \in Names /\ DOMAIN at = Events /\ DOMAIN told = Events
      /\ conv_cache \in [Senders -> Events \cup {NoEvent}]
      /\ reply_tokens \in [Senders -> Events \cup {NoEvent}]
  BY DEF AdaptersInit
<1>2. \A i \in Events : at[i] = "new" /\ told[i] = <<>>
  BY DEF AdaptersInit
<1>3. DOMAIN <<>> = {}
  OBVIOUS
<1>4. ASSUME NEW i \in Events PROVE EventOK(i)
  <2>1. <<>> \in Seq([to : Rooms(i), final : BOOLEAN])
    OBVIOUS
  <2>2. told[i] = <<>> /\ at[i] = "new"
    BY <1>2
  <2>3. "new" \notin {"taken", "answering"} /\ "new" \notin {"acking", "asking"}
    OBVIOUS
  <2>4. told[i] \in Seq([to : Rooms(i), final : BOOLEAN])
    BY <2>1, <2>2
  <2>5. QED
    BY <1>3, <2>2, <2>3, <2>4 DEF EventOK
<1>5. offset \in Nat
  BY DEF AdaptersInit
<1>6. QED
  BY <1>1, <1>2, <1>4, <1>5 DEF AdaptInv, OrderInv

LEMMA ChannelsInitInv == ChannelsInit => ChannelInv
BY GatewayInit, AdaptersInitInv, MailInitInv, VoiceInitInv, DialectsInitInv DEF ChannelsInit, ChannelInv

LEMMA ChannelsStepInv == ChannelInv /\ [ChannelsNext]_channelVars => ChannelInv'
<1> SUFFICES ASSUME ChannelInv, [ChannelsNext]_channelVars PROVE ChannelInv'
  OBVIOUS
<1> USE DEF ChannelInv
<1>1. /\ [MailNext]_mailVars /\ [VoiceNext]_voiceVars /\ [DialectsNext]_dialectVars
      /\ [Next]_vars \/ (AdaptersNext /\ UNCHANGED <<mailVars, voiceVars>>)
      /\ UNCHANGED adapterVars \/ AdaptersNext
  BY DEF ChannelsNext, channelVars, GatewayStep, PollerStep, AdapterStep, VoiceStep, ChatStep
<1>2. MailInv' /\ VoiceInv' /\ DialectsInv'
  BY <1>1, MailStep, VoiceStepInv, DialectsStep
<1>3. PairInv' /\ PairingsStay
  BY <1>1, PairStep
<1>4. AdmitInv'
  <2>1. CASE [Next]_vars
    BY <2>1, AdmitStep
  <2>2. CASE AdaptersNext
    <3>1. UNCHANGED <<recent, inbound>> /\ (UNCHANGED used \/ IssueCode)
      BY <2>2 DEF AdaptersNext, IssueCode, ConfirmCode
    <3>2. UsedInv' /\ Running' = Running
      <4>1. CASE UNCHANGED used
        BY <4>1 DEF AdmitInv, UsedInv, Running
      <4>2. CASE IssueCode
        <5>1. Uses("issues", MaxIssues)
          BY <4>2 DEF IssueCode
        <5>2. QED
          BY <5>1, UsesStep DEF AdmitInv
      <4>3. QED
        BY <3>1, <4>1, <4>2
    <3>3. QED
      BY <3>1, <3>2, AdmitRests
  <2>3. QED
    BY <1>1, <2>1, <2>2
<1>5. AdaptInv' /\ OrderInv'
  <2>1. CASE UNCHANGED adapterVars
    BY <1>3, <2>1, AdaptersRest DEF OrderInv, adapterVars
  <2>2. CASE AdaptersStep
    BY <1>3, <2>2, AdaptersStepInv, OrderStep
  <2>3. QED
    BY <1>1, <2>1, <2>2 DEF AdaptersNext
<1>6. QED
  BY <1>2, <1>3, <1>4, <1>5

(* What holds of each of the processes, one is beside any of the others.   *)
THEOREM ChannelsInvariant == ChannelsSpec => []ChannelInv
<1>1. ChannelsInit => ChannelInv
  BY ChannelsInitInv
<1>2. ChannelInv /\ [ChannelsNext]_channelVars => ChannelInv'
  BY ChannelsStepInv
<1>3. QED
  BY <1>1, <1>2, PTL DEF ChannelsSpec

(* Sockets and webhooks share one window (rate_limits.py, channels.py): of *)
(* the rows in the audit that one process wrote for a sender, no more than *)
(* Cap are in a closed interval of Window seconds.  A restart forgets the  *)
(* window and keeps the rows, so the bound is one for each process.        *)
THEOREM ChannelsAdmissionBounded == ChannelsSpec => []AdmissionBounded
<1>1. ChannelInv => AdmissionBounded
  BY DEF ChannelInv, AdmitInv, AdmissionBounded
<1>2. QED
  BY <1>1, ChannelsInvariant, PTL

(* However handlers overlap in an adapter's caches, an event is answered   *)
(* once, and its sender or his conversation is told (adapter.py's of the   *)
(* channels' catalogue).                                                   *)
THEOREM ChannelsAnsweredAtHome == ChannelsSpec => []AnsweredAtHome
<1>1. ChannelInv => AnsweredAtHome
  <2>1. SUFFICES ASSUME ChannelInv, channel # "slack", NEW i \in Events
                 PROVE  /\ \A m, n \in DOMAIN told[i] : told[i][m].final /\ told[i][n].final => m = n
                        /\ \A n \in DOMAIN told[i] : told[i][n].to \in Home(i) \cup {Unaddressed}
    BY DEF AnsweredAtHome
  <2>2. EventOK(i)
    BY <2>1 DEF ChannelInv, AdaptInv
  <2> DEFINE R == Home(i) \cup {Unaddressed}
  <2>3. Rooms(i) = R
    BY <2>1 DEF Rooms
  <2>4. told[i] \in Seq([to : R, final : BOOLEAN])
    BY <2>2, <2>3 DEF EventOK
  <2> HIDE DEF R
  <2>5. \A n \in DOMAIN told[i] : told[i][n].to \in R
    <3> DEFINE T == [to : R, final : BOOLEAN]
    <3>1. told[i] \in Seq(T)
      BY <2>4
    <3> HIDE DEF T
    <3>2. \A n \in DOMAIN told[i] : told[i][n] \in T
      BY <3>1, Entry
    <3>3. QED
      BY <3>2 DEF T
  <2>6. \A m, n \in DOMAIN told[i] : told[i][m].final /\ told[i][n].final => m = n
    BY <2>2 DEF EventOK
  <2>7. QED
    BY <2>5, <2>6 DEF R
<1>2. QED
  BY <1>1, ChannelsInvariant, PTL

(* The Gmail poller's answers, beside the other processes (server.py).     *)
THEOREM ChannelsMailAnsweredOnce == ChannelsSpec => []MailAnsweredOnce
<1>1. ChannelInv => MailAnsweredOnce
  BY MailInvIsEnough DEF ChannelInv
<1>2. QED
  BY <1>1, ChannelsInvariant, PTL

(* No caller is heard in another one's envelopes, and a stream that was    *)
(* stopped has been heard to its end (twilio_voice/adapter.py).            *)
THEOREM ChannelsSpeechIsItsCallers == ChannelsSpec => []SpeechIsItsCallers
<1>1. ChannelInv => SpeechIsItsCallers
  BY VoiceInvIsEnough DEF ChannelInv
<1>2. QED
  BY <1>1, ChannelsInvariant, PTL

(* Whichever providers serve the turns of a conversation and whatever is   *)
(* retried (glc/providers.py, POST /v1/chat): who is posted to has all of  *)
(* the prompt, takes every result for its call's, and Gemini gets back the *)
(* signatures of its own calls.                                            *)
THEOREM ChannelsConversationIsWhole == ChannelsSpec => []ConversationIsWhole
<1>1. ChannelInv => ConversationIsWhole
  BY DialectsInvIsEnough DEF ChannelInv
<1>2. QED
  BY <1>1, ChannelsInvariant, PTL
=============================================================================
