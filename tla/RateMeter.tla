----------------------------- MODULE RateMeter -----------------------------
(***************************************************************************)
(* The rate state of one provider (glc/routing.py, RateState): a sliding   *)
(* window of calls and of tokens, counters of the day, the cooldown after  *)
(* a call and the backoff after a failure.  A meter is a record; every     *)
(* operator takes the time it is asked at.                                 *)
(***************************************************************************)
EXTENDS Integers, Sequences, FiniteSets, Folds

CONSTANTS Window,  \* 60 seconds, in units of the model's clock
          Day      \* 86400 seconds

ASSUME RateAssumption == Window \in Nat /\ Day \in Nat \ {0}

DayStart(now) == now - (now % Day)

(* last_call is 0.0, the epoch, until the first call: long ago.            *)
Never == 0 - Day

(* Mutant: the first day begins when the process does.                     *)
NewMeterFromBoot(now) ==
  [calls_minute |-> <<>>, tokens_minute |-> <<>>, calls_today |-> 0, tokens_today |-> 0,
   day_start |-> now, last_call |-> Never, unavailable_until |-> 0]

NewMeter(now) ==
  [calls_minute |-> <<>>, tokens_minute |-> <<>>, calls_today |-> 0, tokens_today |-> 0,
   day_start |-> DayStart(now), last_call |-> Never, unavailable_until |-> 0]

(* While the first is before since, popleft.                               *)
PopBefore(queue, times, since) ==
  LET old == {i \in DOMAIN times : \A j \in 1 .. i : times[j] < since}
  IN SubSeq(queue, Cardinality(old) + 1, Len(queue))

(* Mutant: a call a whole minute old has left the window.                  *)
CleanedEarly(m, now) ==
  LET newDay == now - m.day_start >= Day
  IN [m EXCEPT !.calls_today   = IF newDay THEN 0 ELSE @,
               !.tokens_today  = IF newDay THEN 0 ELSE @,
               !.day_start     = IF newDay THEN DayStart(now) ELSE @,
               !.calls_minute  = PopBefore(@, @, now - Window + 1),
               !.tokens_minute = PopBefore(@, [i \in DOMAIN @ |-> @[i].at], now - Window + 1)]

(* gc.                                                                     *)
Cleaned(m, now) ==
  LET newDay == now - m.day_start >= Day
  IN [m EXCEPT !.calls_today   = IF newDay THEN 0 ELSE @,
               !.tokens_today  = IF newDay THEN 0 ELSE @,
               !.day_start     = IF newDay THEN DayStart(now) ELSE @,
               !.calls_minute  = PopBefore(@, @, now - Window),
               !.tokens_minute = PopBefore(@, [i \in DOMAIN @ |-> @[i].at], now - Window)]

TokensOf(entries) ==
  MapThenFoldSet(LAMBDA x, y : x + y, 0, LAMBDA i : entries[i].tokens,
                 LAMBDA S : CHOOSE i \in S : TRUE, DOMAIN entries)

CooldownLeft(m, limits, now) == limits.cooldown - (now - m.last_call)

(* can_use without its first test of the cooldown, and can_use.            *)
WithinLimits(m, limits, est, now) ==
  LET g == Cleaned(m, now)
  IN /\ now >= g.unavailable_until
     /\ Len(g.calls_minute) < limits.rpm
     /\ g.calls_today < limits.rpd
     /\ TokensOf(g.tokens_minute) + est <= limits.tpm
     /\ g.tokens_today + est <= limits.tokens_per_day

CanUse(m, limits, est, now) ==
  WithinLimits(m, limits, est, now) /\ CooldownLeft(m, limits, now) <= 0

(* What a finished call adds, and record(0), whose zero tokens are left    *)
(* out of the queue of tokens: they are in no sum.                         *)
WithTokens(m, n, now) ==
  [m EXCEPT !.tokens_minute = Append(@, [at |-> now, tokens |-> n]), !.tokens_today = @ + n]

Recorded(m, now) ==
  [m EXCEPT !.calls_minute = Append(@, now), !.calls_today = @ + 1, !.last_call = now]

MarkedUnavailable(m, seconds, now) == [m EXCEPT !.unavailable_until = now + seconds]
=============================================================================
