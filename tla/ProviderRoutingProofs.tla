------------------------ MODULE ProviderRoutingProofs ------------------------
(***************************************************************************)
(* Theorems of ProviderRouting for every clock, environment, order of      *)
(* providers, limit, request and number of concurrent requests.            *)
(***************************************************************************)
EXTENDS ProviderRouting, FiniteSetTheorems, WellFoundedInduction, TLAPS

LEMMA DayStartFacts ==
  ASSUME NEW t \in Nat
  PROVE  DayStart(t) \in Nat /\ DayStart(t) <= t /\ t < DayStart(t) + Day
BY RateAssumption DEF DayStart

LEMMA DayStartIsWhole ==
  ASSUME NEW t \in Nat
  PROVE  \E i \in Int : DayStart(t) = Day * i
<1>1. t \div Day \in Int /\ DayStart(t) = Day * (t \div Day)
  BY RateAssumption DEF DayStart
<1>2. QED
  BY <1>1

LEMMA DayStartRises ==
  ASSUME NEW i \in Int, NEW t \in Nat, Day * i <= t
  PROVE  Day * i <= DayStart(t)
<1>1. PICK j \in Int : DayStart(t) = Day * j
  BY DayStartIsWhole
<1>2. Day * i < Day * j + Day
  BY <1>1, DayStartFacts, RateAssumption
<1>3. i <= j
  <2>1. SUFFICES ASSUME j + 1 <= i PROVE FALSE
    OBVIOUS
  <2>2. Day * (j + 1) <= Day * i
    BY <2>1, RateAssumption
  <2>3. QED
    BY <1>2, <2>2, RateAssumption
<1>4. QED
  BY <1>1, <1>3, RateAssumption

LEMMA NextDay ==
  ASSUME NEW s \in Nat, NEW t \in Nat, DayStart(s) + Day <= t
  PROVE  DayStart(s) + Day <= DayStart(t)
<1>1. PICK i \in Int : DayStart(s) = Day * i
  BY DayStartIsWhole
<1>2. i + 1 \in Int /\ Day * (i + 1) = DayStart(s) + Day
  BY <1>1, RateAssumption
<1>3. QED
  BY <1>2, DayStartRises

LEMMA SameDay ==
  ASSUME NEW s \in Nat, NEW t \in Nat, DayStart(s) <= t
  PROVE  DayStart(s) <= DayStart(t)
BY DayStartIsWhole, DayStartRises

-----------------------------------------------------------------------------
(* The queue of calls.  What popleft leaves is the end of the queue, and   *)
(* what it takes is too old.                                               *)
LEMMA Interval ==
  ASSUME NEW n \in Nat
  PROVE  IsFiniteSet(1 .. n) /\ Cardinality(1 .. n) = n
<1>1. IsFiniteSet(1 .. n) /\ Cardinality(1 .. n) = IF 1 > n THEN 0 ELSE n - 1 + 1
  BY FS_Interval
<1>2. QED
  BY <1>1

LEMMA Suffix ==
  ASSUME NEW S, NEW q \in Seq(S), NEW m \in 0 .. Len(q)
  PROVE  LET rest == SubSeq(q, m + 1, Len(q)) IN
         /\ rest \in Seq(S) /\ Len(rest) = Len(q) - m /\ DOMAIN rest = 1 .. Len(q) - m
         /\ \A k \in 1 .. Len(q) - m : rest[k] = q[m + k]
<1>1. Len(q) \in Nat /\ m \in Nat /\ m <= Len(q)
  OBVIOUS
<1>2. QED
  BY <1>1

(* The times of a queue's elements.                                        *)
TimesOf(q, time) == [i \in DOMAIN q |-> time[q[i]]]

LEMMA PoppedUpTo ==
  ASSUME NEW S, NEW q \in Seq(S), NEW time \in [S -> Int], NEW since \in Int
  PROVE  \E m \in 0 .. Len(q) :
           /\ PopBefore(q, TimesOf(q, time), since) = SubSeq(q, m + 1, Len(q))
           /\ \A i \in 1 .. m : time[q[i]] < since
           /\ m < Len(q) => time[q[m + 1]] >= since
<1> DEFINE at == TimesOf(q, time)
           old == {i \in DOMAIN at : \A j \in 1 .. i : at[j] < since}
           m == Cardinality(old)
<1>1. /\ Len(q) \in Nat /\ DOMAIN at = 1 .. Len(q)
      /\ \A i \in 1 .. Len(q) : at[i] \in Int /\ at[i] = time[q[i]]
  BY DEF TimesOf
<1>2. PopBefore(q, at, since) = SubSeq(q, m + 1, Len(q))
  BY DEF PopBefore
<1> HIDE DEF at
<1>3. old \subseteq 1 .. Len(q)
  BY <1>1
<1>4. m \in 0 .. Len(q) /\ IsFiniteSet(old)
  <2>1. IsFiniteSet(old) /\ m <= Cardinality(1 .. Len(q))
    BY <1>1, <1>3, Interval, FS_Subset
  <2>2. m \in Nat
    BY <2>1, FS_CardinalityType
  <2>3. QED
    BY <1>1, <2>1, <2>2, Interval
<1>5. ASSUME NEW i \in 1 .. m
      PROVE  at[i] < since
  <2>1. i \in Nat /\ i \in 1 .. Len(q) /\ i <= m /\ m \in Nat
    BY <1>1, <1>4
  <2>2. SUFFICES ASSUME ~ (at[i] < since) PROVE FALSE
    OBVIOUS
  <2>3. old \subseteq 1 .. i - 1
    <3>1. SUFFICES ASSUME NEW k \in old PROVE k < i
      BY SMTT(30), <1>1, <2>1
    <3>2. k \in Nat /\ (i <= k => at[i] < since)
      BY <1>1, <2>1
    <3>3. QED
      BY <2>1, <2>2, <3>2
  <2>4. i - 1 \in Nat
    BY <2>1
  <2>5. m <= i - 1
    BY <2>3, <2>4, Interval, FS_Subset
  <2>6. QED
    BY <2>1, <2>5
<1>6. ASSUME m < Len(q)
      PROVE  at[m + 1] >= since
  <2>0. m \in Nat /\ m + 1 \in 1 .. Len(q) /\ at[m + 1] \in Int
    BY <1>1, <1>4, <1>6
  <2>1. SUFFICES ASSUME at[m + 1] < since PROVE FALSE
    BY <2>0
  <2> HIDE DEF m
  <2>2. \A j \in 1 .. m + 1 : at[j] < since
    <3>1. SUFFICES ASSUME NEW j \in 1 .. m + 1 PROVE at[j] < since
      OBVIOUS
    <3>2. j \in 1 .. m \/ j = m + 1
      BY <2>0
    <3>3. QED
      BY <1>5, <2>1, <3>2
  <2>3. 1 .. m + 1 \subseteq old
    <3>1. SUFFICES ASSUME NEW k \in 1 .. m + 1 PROVE k \in old
      OBVIOUS
    <3>2. k \in DOMAIN at /\ \A j \in 1 .. k : j \in 1 .. m + 1
      BY <1>1, <1>4, <2>0
    <3>3. QED
      BY <2>2, <3>2
  <2>4. Cardinality(1 .. m + 1) = m + 1 /\ Cardinality(1 .. m + 1) <= Cardinality(old)
    <3>1. m + 1 \in Nat
      BY <2>0
    <3> HIDE DEF old
    <3>2. QED
      BY <1>4, <2>3, <3>1, Interval, FS_Subset
  <2>5. QED
    BY <2>0, <2>4 DEF m
<1> HIDE DEF m, old
<1>7. QED
  <2>1. \A i \in 1 .. m : time[q[i]] < since
    BY <1>1, <1>4, <1>5
  <2>2. m < Len(q) => time[q[m + 1]] >= since
    BY <1>1, <1>4, <1>6
  <2>3. QED
    BY <1>2, <1>4, <2>1, <2>2 DEF at

LEMMA OwnTimes ==
  ASSUME NEW q \in Seq(Nat)
  PROVE  q = TimesOf(q, [x \in Nat |-> x]) /\ [x \in Nat |-> x] \in [Nat -> Int]
BY DEF TimesOf

LEMMA Popped ==
  ASSUME NEW q \in Seq(Nat), NEW since \in Int
  PROVE  \E m \in 0 .. Len(q) :
           /\ PopBefore(q, q, since) = SubSeq(q, m + 1, Len(q))
           /\ \A i \in 1 .. m : q[i] < since
<1> DEFINE time == [x \in Nat |-> x]
<1>1. q = TimesOf(q, time) /\ time \in [Nat -> Int] /\ \A x \in Nat : time[x] = x
  BY OwnTimes
<1> HIDE DEF time
<1>2. PICK m \in 0 .. Len(q) :
        /\ PopBefore(q, TimesOf(q, time), since) = SubSeq(q, m + 1, Len(q))
        /\ \A i \in 1 .. m : time[q[i]] < since
  BY <1>1, PoppedUpTo
<1>3. \A i \in 1 .. m : q[i] \in Nat
  OBVIOUS
<1>4. QED
  BY <1>1, <1>2, <1>3

(* What is left begins with an element that stays: nothing more is popped. *)
LEMMA PoppedAgain ==
  ASSUME NEW S, NEW q \in Seq(S), NEW time \in [S -> Int], NEW since \in Int
  PROVE  LET rest == PopBefore(q, TimesOf(q, time), since) IN
         rest \in Seq(S) /\ PopBefore(rest, TimesOf(rest, time), since) = rest
<1> DEFINE rest == PopBefore(q, TimesOf(q, time), since)
<1>1. PICK m \in 0 .. Len(q) :
        /\ rest = SubSeq(q, m + 1, Len(q))
        /\ m < Len(q) => time[q[m + 1]] >= since
  BY PoppedUpTo
<1> HIDE DEF rest
<1>2. /\ rest \in Seq(S) /\ Len(rest) = Len(q) - m /\ Len(rest) \in Nat
      /\ \A k \in 1 .. Len(q) - m : rest[k] = q[m + k]
      /\ Len(q) \in Nat /\ m \in Nat
  BY <1>1, Suffix
<1>3. PICK n \in 0 .. Len(rest) :
        /\ PopBefore(rest, TimesOf(rest, time), since) = SubSeq(rest, n + 1, Len(rest))
        /\ \A i \in 1 .. n : time[rest[i]] < since
  BY <1>2, PoppedUpTo
<1>4. n = 0
  <2>1. SUFFICES ASSUME n # 0 PROVE FALSE
    OBVIOUS
  <2>2. n \in Nat /\ 1 <= n /\ n <= Len(q) - m
    BY <1>2, <1>3, <2>1
  <2>3. 1 \in 1 .. n /\ 1 \in 1 .. Len(q) - m /\ m < Len(q)
    BY <1>2, <2>2
  <2>4. rest[1] = q[m + 1] /\ time[rest[1]] < since /\ time[q[m + 1]] >= since
    BY <1>1, <1>2, <1>3, <2>3
  <2>5. time[q[m + 1]] \in Int
    <3>1. m + 1 \in 1 .. Len(q)
      BY <1>2, <2>3
    <3>2. q[m + 1] \in S
      BY <3>1
    <3>3. QED
      BY <3>2
  <2>6. QED
    BY <2>4, <2>5
<1>5. SubSeq(rest, 1, Len(rest)) = rest
  BY <1>2
<1>6. QED
  BY <1>2, <1>3, <1>4, <1>5 DEF rest

-----------------------------------------------------------------------------
(* A meter beside the history of its provider.  Its queue is the end of    *)
(* the history, and what is missing from it is over a minute old.          *)
WindowOK(m, b, p, t) ==
  /\ m.calls_minute \in Seq(Nat) /\ b \in Seq(Nat)
  /\ Len(m.calls_minute) <= Len(b) /\ Len(m.calls_minute) <= Limits[p].rpm
  /\ \A k \in DOMAIN m.calls_minute : m.calls_minute[k] = b[Len(b) - Len(m.calls_minute) + k]
  /\ \A i \in 1 .. Len(b) - Len(m.calls_minute) : b[i] < t - Window
  /\ \A i \in DOMAIN b : b[i] <= t

TimesFrom(b, since) == {i \in DOMAIN b : b[i] >= since}

(* Its day began at midnight, and no call was counted after its end.       *)
DayOK(m, b, p, t) ==
  /\ m.day_start \in Nat /\ m.day_start <= t
  /\ \E s \in Nat : m.day_start = DayStart(s)
  /\ m.calls_today \in Nat /\ m.calls_today <= Limits[p].rpd
  /\ \A i \in DOMAIN b : b[i] < m.day_start + Day
  /\ Cardinality(TimesFrom(b, m.day_start)) <= m.calls_today

(* Its entries have a time, and its last call is not ahead of the clock.   *)
Entries == [at : Nat, tokens : TokenCounts]

StampsOK(m, t) ==
  /\ m.tokens_minute \in Seq(Entries)
  /\ m.last_call \in Int /\ m.last_call <= t

MeterOK(m, b, p, t) ==
  /\ {"calls_minute", "tokens_minute", "calls_today", "day_start", "last_call"} \subseteq DOMAIN m
  /\ WindowOK(m, b, p, t) /\ DayOK(m, b, p, t) /\ StampsOK(m, t)

Metered == Workers \cup Routers

MetersOK(meters, hist, t) ==
  /\ DOMAIN meters = Metered /\ DOMAIN hist = Metered
  /\ \A p \in Metered : MeterOK(meters[p], hist[p], p, t)

QuotaInv == now \in Nat /\ MetersOK(meter, begun, now)

LEMMA Amounts ==
  ASSUME NEW b \in Seq(Nat), NEW since \in Int
  PROVE  /\ Len(b) \in Nat /\ DOMAIN b = 1 .. Len(b) /\ \A i \in DOMAIN b : b[i] \in Nat
         /\ IsFiniteSet(TimesFrom(b, since)) /\ Cardinality(TimesFrom(b, since)) \in Nat
<1>1. Len(b) \in Nat /\ DOMAIN b = 1 .. Len(b) /\ \A i \in DOMAIN b : b[i] \in Nat
  OBVIOUS
<1>2. TimesFrom(b, since) \subseteq 1 .. Len(b)
  BY <1>1 DEF TimesFrom
<1>3. QED
  BY <1>1, <1>2, Interval, FS_Subset, FS_CardinalityType

LEMMA NewMeterOK ==
  ASSUME NEW p \in Metered, NEW t \in Nat
  PROVE  MeterOK(NewMeter(t), <<>>, p, t)
<1>1. Limits[p].rpm \in Nat /\ Limits[p].rpd \in Nat
  BY LimitsAssumption DEF Metered
<1>2. WindowOK(NewMeter(t), <<>>, p, t)
  BY <1>1 DEF WindowOK, NewMeter
<1>3. TimesFrom(<<>>, DayStart(t)) = {} /\ Cardinality({}) = 0
  BY FS_EmptySet DEF TimesFrom
<1>4. DayOK(NewMeter(t), <<>>, p, t)
  <2>1. NewMeter(t).day_start = DayStart(t) /\ NewMeter(t).calls_today = 0
    BY DEF NewMeter
  <2>2. /\ NewMeter(t).day_start \in Nat /\ NewMeter(t).day_start <= t
        /\ \E s \in Nat : NewMeter(t).day_start = DayStart(s)
    BY <2>1, DayStartFacts
  <2>3. /\ Cardinality(TimesFrom(<<>>, NewMeter(t).day_start)) = 0
        /\ \A i \in DOMAIN <<>> : FALSE
    <3>1. NewMeter(t).day_start = DayStart(t)
      BY <2>1
    <3>2. Cardinality(TimesFrom(<<>>, NewMeter(t).day_start)) = 0
      BY <1>3, <3>1
    <3>3. \A i \in DOMAIN <<>> : FALSE
      OBVIOUS
    <3>4. QED
      BY <3>2, <3>3
  <2>4. QED
    BY <1>1, <2>1, <2>2, <2>3 DEF DayOK
<1>5. StampsOK(NewMeter(t), t)
  BY RateAssumption DEF StampsOK, NewMeter, Never
<1>6. QED
  BY <1>2, <1>4, <1>5 DEF MeterOK, NewMeter

LEMMA LaterOK ==
  ASSUME NEW m, NEW b, NEW p, NEW t \in Nat, MeterOK(m, b, p, t)
  PROVE  MeterOK(m, b, p, t + 1)
<1>1. \A x \in Int : (x < t - Window => x < (t + 1) - Window) /\ (x <= t => x <= t + 1)
  BY RateAssumption
<1>2. b \in Seq(Nat)
  BY DEF MeterOK, WindowOK
<1>3. /\ DOMAIN b = 1 .. Len(b) /\ \A i \in DOMAIN b : b[i] \in Int
      /\ Len(b) \in Nat
  BY <1>2, Amounts
<1>4. Len(m.calls_minute) \in Nat
  BY DEF MeterOK, WindowOK
<1>5. 1 .. Len(b) - Len(m.calls_minute) \subseteq DOMAIN b
  BY <1>3, <1>4
<1>6. WindowOK(m, b, p, t + 1)
  <2>1. WindowOK(m, b, p, t)
    BY DEF MeterOK
  <2>2. \A i \in 1 .. Len(b) - Len(m.calls_minute) : b[i] < (t + 1) - Window
    BY <1>1, <1>3, <1>5, <2>1 DEF WindowOK
  <2>3. \A i \in DOMAIN b : b[i] <= t + 1
    BY <1>1, <1>3, <2>1 DEF WindowOK
  <2>4. /\ m.calls_minute \in Seq(Nat)
        /\ Len(m.calls_minute) <= Len(b) /\ Len(m.calls_minute) <= Limits[p].rpm
        /\ \A k \in DOMAIN m.calls_minute : m.calls_minute[k] = b[Len(b) - Len(m.calls_minute) + k]
    BY <2>1 DEF WindowOK
  <2>5. QED
    BY <1>2, <2>2, <2>3, <2>4, Zenon DEF WindowOK
<1>7. DayOK(m, b, p, t + 1) /\ StampsOK(m, t + 1)
  BY <1>1 DEF MeterOK, DayOK, StampsOK
<1>8. QED
  BY <1>6, <1>7 DEF MeterOK

LEMMA SameOK ==
  ASSUME NEW m, NEW n, NEW b, NEW p, NEW t, MeterOK(m, b, p, t), DOMAIN n = DOMAIN m,
         n.calls_minute = m.calls_minute, n.calls_today = m.calls_today, n.day_start = m.day_start,
         StampsOK(n, t)
  PROVE  MeterOK(n, b, p, t)
BY DEF MeterOK, WindowOK, DayOK

(* What gc changes, at a time that is not before its day.                  *)
LEMMA CleanedFields ==
  ASSUME NEW m, NEW b, NEW p, NEW t, MeterOK(m, b, p, t)
  PROVE  LET g == Cleaned(m, t)
             newDay == t - m.day_start >= Day
         IN /\ DOMAIN g = DOMAIN m
            /\ g.calls_minute = PopBefore(m.calls_minute, m.calls_minute, t - Window)
            /\ g.calls_today = IF newDay THEN 0 ELSE m.calls_today
            /\ g.day_start = IF newDay THEN DayStart(t) ELSE m.day_start
BY DEF MeterOK, Cleaned

StampOf == [x \in Entries |-> x.at]

LEMMA StampTimes ==
  ASSUME NEW q \in Seq(Entries)
  PROVE  StampOf \in [Entries -> Int] /\ [i \in DOMAIN q |-> q[i].at] = TimesOf(q, StampOf)
<1>1. \A x \in Entries : x.at \in Int
  BY DEF Entries
<1>2. \A i \in DOMAIN q : q[i] \in Entries
  OBVIOUS
<1>3. QED
  BY <1>1, <1>2 DEF StampOf, TimesOf

LEMMA CleanedStamps ==
  ASSUME NEW m, NEW b, NEW p, NEW t \in Nat, MeterOK(m, b, p, t)
  PROVE  LET g == Cleaned(m, t)
             q == m.tokens_minute
         IN /\ StampsOK(g, t) /\ g.last_call = m.last_call
            /\ g.tokens_minute = PopBefore(q, TimesOf(q, StampOf), t - Window)
<1> DEFINE g == Cleaned(m, t)
           q == m.tokens_minute
<1>1. q \in Seq(Entries) /\ m.last_call \in Int /\ m.last_call <= t /\ t - Window \in Int
  BY RateAssumption DEF MeterOK, StampsOK
<1>2. /\ g.last_call = m.last_call
      /\ g.tokens_minute = PopBefore(q, [i \in DOMAIN q |-> q[i].at], t - Window)
  BY DEF MeterOK, Cleaned
<1> HIDE DEF g, q
<1>3. g.tokens_minute = PopBefore(q, TimesOf(q, StampOf), t - Window)
  BY <1>1, <1>2, StampTimes
<1>4. g.tokens_minute \in Seq(Entries)
  BY <1>1, <1>3, StampTimes, PoppedAgain
<1>5. QED
  BY <1>1, <1>2, <1>3, <1>4 DEF StampsOK, g, q

LEMMA CleanedOK ==
  ASSUME NEW m, NEW b, NEW p \in Metered, NEW t \in Nat, MeterOK(m, b, p, t)
  PROVE  LET g == Cleaned(m, t) IN MeterOK(g, b, p, t) /\ t < g.day_start + Day
<1> DEFINE g == Cleaned(m, t)
           newDay == t - m.day_start >= Day
<1>1. /\ DOMAIN g = DOMAIN m
      /\ g.calls_minute = PopBefore(m.calls_minute, m.calls_minute, t - Window)
      /\ g.calls_today = IF newDay THEN 0 ELSE m.calls_today
      /\ g.day_start = IF newDay THEN DayStart(t) ELSE m.day_start
  BY CleanedFields
<1>2. /\ WindowOK(m, b, p, t) /\ DayOK(m, b, p, t)
      /\ m.calls_minute \in Seq(Nat) /\ b \in Seq(Nat) /\ t - Window \in Int
      /\ Limits[p].rpm \in Nat /\ Limits[p].rpd \in Nat
      /\ m.day_start \in Nat /\ m.day_start <= t /\ Day \in Nat
  BY LimitsAssumption, RateAssumption DEF MeterOK, WindowOK, DayOK, Metered
<1> HIDE DEF g
<1>3. WindowOK(g, b, p, t)
  <2> DEFINE q == m.calls_minute
             r == g.calls_minute
  <2>0. q \in Seq(Nat) /\ r = PopBefore(q, q, t - Window)
    BY <1>1, <1>2
  <2> HIDE DEF q, r
  <2>1. PICK k \in 0 .. Len(q) :
          /\ PopBefore(q, q, t - Window) = SubSeq(q, k + 1, Len(q))
          /\ \A i \in 1 .. k : q[i] < t - Window
    BY <1>2, <2>0, Popped
  <2> DEFINE rest == SubSeq(q, k + 1, Len(q))
  <2>s. /\ rest \in Seq(Nat) /\ Len(rest) = Len(q) - k /\ DOMAIN rest = 1 .. Len(q) - k
        /\ \A i \in 1 .. Len(q) - k : rest[i] = q[k + i]
    BY <2>0, Suffix
  <2>r. r = rest
    BY <2>0, <2>1
  <2> HIDE DEF rest
  <2>2. /\ r \in Seq(Nat) /\ Len(r) = Len(q) - k /\ DOMAIN r = 1 .. Len(q) - k
        /\ \A i \in 1 .. Len(q) - k : r[i] = q[k + i]
    BY <2>s, <2>r
  <2>3. /\ DOMAIN q = 1 .. Len(q) /\ Len(q) \in Nat /\ Len(b) \in Nat /\ k \in Nat /\ k <= Len(q)
        /\ Len(q) <= Len(b) /\ Len(q) <= Limits[p].rpm
    BY <1>2, <2>1 DEF WindowOK, q
  <2>4. /\ \A i \in 1 .. Len(q) : q[i] = b[Len(b) - Len(q) + i]
        /\ \A i \in 1 .. Len(b) - Len(q) : b[i] < t - Window
        /\ \A i \in DOMAIN b : b[i] <= t
    BY <1>2, <2>3 DEF WindowOK, q
  <2>5. Len(r) <= Len(b) /\ Len(r) <= Limits[p].rpm
    BY <1>2, <2>2, <2>3
  <2>6. ASSUME NEW i \in DOMAIN r PROVE r[i] = b[Len(b) - Len(r) + i]
    <3>1. i \in Nat /\ k + i \in 1 .. Len(q) /\ r[i] = q[k + i]
      BY <2>2, <2>3
    <3>2. Len(b) - Len(q) + (k + i) = Len(b) - Len(r) + i
      BY <2>2, <2>3, <3>1
    <3>3. QED
      BY <2>4, <3>1, <3>2
  <2>7. ASSUME NEW i \in 1 .. Len(b) - Len(r) PROVE b[i] < t - Window
    <3>1. CASE i \in 1 .. Len(b) - Len(q)
      BY <2>4, <3>1
    <3>2. CASE i \notin 1 .. Len(b) - Len(q)
      <4> DEFINE j == i - (Len(b) - Len(q))
      <4>1. j \in 1 .. k /\ j \in 1 .. Len(q) /\ Len(b) - Len(q) + j = i
        BY <2>2, <2>3, <3>2
      <4> HIDE DEF j
      <4>2. q[j] < t - Window /\ q[j] = b[i]
        BY <2>1, <2>4, <4>1 DEF q
      <4>3. QED
        BY <4>2
    <3>3. QED
      BY <3>1, <3>2
  <2>8. QED
    BY <1>2, <2>2, <2>4, <2>5, <2>6, <2>7 DEF WindowOK, r
<1>4. DayOK(g, b, p, t) /\ t < g.day_start + Day
  <2>1. CASE ~ newDay
    <3>1. g.calls_today = m.calls_today /\ g.day_start = m.day_start /\ t < m.day_start + Day
      BY <1>1, <1>2, <2>1
    <3>2. QED
      BY <1>2, <3>1 DEF DayOK
  <2>2. CASE newDay
    <3>1. g.calls_today = 0 /\ g.day_start = DayStart(t)
      BY <1>1, <2>2
    <3>2. DayStart(t) \in Nat /\ DayStart(t) <= t /\ t < DayStart(t) + Day
      BY DayStartFacts
    <3>3. PICK s \in Nat : m.day_start = DayStart(s)
      BY <1>2 DEF DayOK
    <3>4. m.day_start + Day <= DayStart(t)
      <4>1. DayStart(s) + Day <= t
        BY <1>2, <2>2, <3>3
      <4>2. QED
        BY <3>3, <4>1, NextDay
    <3>5. \A i \in DOMAIN b : b[i] \in Nat /\ b[i] < m.day_start + Day
      BY <1>2, Amounts DEF DayOK
    <3>6. \A i \in DOMAIN b : b[i] < DayStart(t)
      BY <1>2, <3>2, <3>4, <3>5
    <3>7. TimesFrom(b, DayStart(t)) = {} /\ Cardinality({}) = 0
      BY <3>2, <3>5, <3>6, FS_EmptySet DEF TimesFrom
    <3>8. \A i \in DOMAIN b : b[i] < DayStart(t) + Day
      BY <1>2, <3>2, <3>5, <3>6
    <3>9. QED
      BY <1>2, <3>1, <3>2, <3>7, <3>8 DEF DayOK
  <2>3. QED
    BY <2>1, <2>2
<1>5. StampsOK(g, t)
  BY CleanedStamps DEF g
<1>6. QED
  BY <1>1, <1>3, <1>4, <1>5 DEF MeterOK, g

(* A call that the cleaned meter allows is counted.                        *)
LEMMA RecordedOK ==
  ASSUME NEW g, NEW b, NEW p \in Metered, NEW t \in Nat, MeterOK(g, b, p, t),
         t < g.day_start + Day,
         Len(g.calls_minute) < Limits[p].rpm, g.calls_today < Limits[p].rpd
  PROVE  MeterOK(Recorded(g, t), Append(b, t), p, t)
<1> DEFINE r == Recorded(g, t)
           q == g.calls_minute
           h == Append(b, t)
<1>1. /\ DOMAIN r = DOMAIN g /\ r.calls_minute = Append(q, t)
      /\ r.calls_today = g.calls_today + 1 /\ r.day_start = g.day_start
  BY DEF MeterOK, Recorded
<1>2. /\ WindowOK(g, b, p, t) /\ DayOK(g, b, p, t)
      /\ q \in Seq(Nat) /\ b \in Seq(Nat)
      /\ Limits[p].rpm \in Nat /\ Limits[p].rpd \in Nat
      /\ g.day_start \in Nat /\ g.day_start <= t /\ Day \in Nat
      /\ g.calls_today \in Nat
  BY LimitsAssumption, RateAssumption DEF MeterOK, WindowOK, DayOK, Metered
<1>3. /\ h \in Seq(Nat) /\ Len(h) = Len(b) + 1 /\ DOMAIN h = 1 .. Len(b) + 1
      /\ h[Len(b) + 1] = t /\ \A i \in 1 .. Len(b) : h[i] = b[i]
      /\ DOMAIN b = 1 .. Len(b) /\ Len(b) \in Nat /\ \A i \in DOMAIN b : b[i] \in Nat
  BY <1>2
<1>4. /\ r.calls_minute \in Seq(Nat) /\ Len(r.calls_minute) = Len(q) + 1
      /\ DOMAIN r.calls_minute = 1 .. Len(q) + 1 /\ DOMAIN q = 1 .. Len(q) /\ Len(q) \in Nat
      /\ r.calls_minute[Len(q) + 1] = t
      /\ \A i \in 1 .. Len(q) : r.calls_minute[i] = q[i]
  BY <1>1, <1>2
<1>5. /\ Len(q) <= Len(b) /\ Len(q) < Limits[p].rpm
      /\ \A k \in 1 .. Len(q) : q[k] = b[Len(b) - Len(q) + k]
      /\ \A i \in 1 .. Len(b) - Len(q) : b[i] < t - Window
      /\ \A i \in 1 .. Len(b) : b[i] <= t
  BY <1>2, <1>3, <1>4 DEF WindowOK
<1> HIDE DEF r, q, h
<1>6. WindowOK(r, h, p, t)
  <2>1. Len(r.calls_minute) <= Len(h) /\ Len(r.calls_minute) <= Limits[p].rpm
    BY <1>2, <1>3, <1>4, <1>5
  <2>2. ASSUME NEW k \in DOMAIN r.calls_minute
        PROVE  r.calls_minute[k] = h[Len(h) - Len(r.calls_minute) + k]
    <3>1. Len(h) - Len(r.calls_minute) + k = Len(b) - Len(q) + k
      BY <1>3, <1>4
    <3>2. CASE k = Len(q) + 1
      <4>1. Len(b) - Len(q) + k = Len(b) + 1
        BY <1>3, <1>4, <3>2
      <4>2. QED
        BY <1>3, <1>4, <3>1, <3>2, <4>1
    <3>3. CASE k # Len(q) + 1
      <4>1. k \in 1 .. Len(q) /\ Len(b) - Len(q) + k \in 1 .. Len(b)
        <5>1. k \in Nat /\ 1 <= k /\ k <= Len(q)
          BY <1>4, <3>3
        <5>2. QED
          BY SMTT(30), <1>3, <1>4, <1>5, <5>1
      <4>2. h[Len(b) - Len(q) + k] = b[Len(b) - Len(q) + k] /\ r.calls_minute[k] = q[k]
        BY <1>3, <1>4, <4>1
      <4>3. QED
        BY <1>5, <3>1, <4>1, <4>2
    <3>4. QED
      BY <3>2, <3>3
  <2>3. ASSUME NEW i \in 1 .. Len(h) - Len(r.calls_minute) PROVE h[i] < t - Window
    <3>1. i \in 1 .. Len(b) - Len(q) /\ i \in 1 .. Len(b)
      BY <1>3, <1>4
    <3>2. QED
      BY <1>3, <1>5, <3>1
  <2>4. ASSUME NEW i \in DOMAIN h PROVE h[i] <= t
    <3>1. CASE i = Len(b) + 1
      BY <1>3, <3>1
    <3>2. CASE i # Len(b) + 1
      <4>1. i \in 1 .. Len(b)
        BY <1>3, <3>2
      <4>2. QED
        BY <1>3, <1>5, <4>1
    <3>3. QED
      BY <3>1, <3>2
  <2>5. QED
    BY <1>3, <1>4, <2>1, <2>2, <2>3, <2>4, Zenon DEF WindowOK
<1>7. DayOK(r, h, p, t)
  <2> DEFINE since == g.day_start
  <2>0. since \in Int /\ since <= t
    BY <1>2
  <2>1. TimesFrom(h, since) = TimesFrom(b, since) \cup {Len(b) + 1}
    <3>1. DOMAIN h = DOMAIN b \cup {Len(b) + 1}
      BY <1>3
    <3>2. h[Len(b) + 1] >= since /\ \A i \in DOMAIN b : h[i] = b[i]
      BY <1>3, <2>0
    <3> HIDE DEF since
    <3>3. QED
      BY <3>1, <3>2 DEF TimesFrom
  <2>2. IsFiniteSet(TimesFrom(b, since)) /\ Cardinality(TimesFrom(b, since)) \in Nat
    BY <1>2, <2>0, Amounts
  <2>3. Len(b) + 1 \notin TimesFrom(b, since)
    BY <1>3 DEF TimesFrom
  <2>4. Cardinality(TimesFrom(h, since)) = Cardinality(TimesFrom(b, since)) + 1
    BY <2>1, <2>2, <2>3, FS_AddElement
  <2>5. Cardinality(TimesFrom(b, since)) <= g.calls_today
    BY <1>2 DEF DayOK
  <2>6. Cardinality(TimesFrom(h, since)) <= g.calls_today + 1
    BY <1>2, <2>2, <2>4, <2>5
  <2>7. ASSUME NEW i \in DOMAIN h PROVE h[i] < since + Day
    <3>1. CASE i = Len(b) + 1
      BY <1>3, <3>1
    <3>2. CASE i # Len(b) + 1
      <4>1. i \in DOMAIN b
        BY <1>3, <3>2
      <4>2. QED
        BY <1>2, <1>3, <4>1 DEF DayOK
    <3>3. QED
      BY <3>1, <3>2
  <2>8. g.calls_today + 1 \in Nat /\ g.calls_today + 1 <= Limits[p].rpd
    BY <1>2
  <2>9. \E s \in Nat : since = DayStart(s)
    BY <1>2 DEF DayOK
  <2> HIDE DEF since
  <2>10. r.day_start = since /\ since \in Nat /\ since <= t
    BY <1>1, <1>2 DEF since
  <2>11. r.calls_today = g.calls_today + 1
    BY <1>1
  <2>12. QED
    BY <2>6, <2>7, <2>8, <2>9, <2>10, <2>11 DEF DayOK
<1>8. StampsOK(r, t)
  BY DEF StampsOK, MeterOK, Recorded, r
<1>9. QED
  BY <1>1, <1>6, <1>7, <1>8 DEF MeterOK, r, h

(* What the meters count is what is asked of them: the calls of the last   *)
(* minute and of the day.                                                  *)
LEMMA MeterKeepsQuota ==
  ASSUME NEW m, NEW b, NEW p \in Metered, NEW t \in Nat, MeterOK(m, b, p, t)
  PROVE  /\ Cardinality(TimesFrom(b, t - Window)) <= Limits[p].rpm
         /\ Cardinality(TimesFrom(b, DayStart(t))) <= Limits[p].rpd
<1>1. /\ WindowOK(m, b, p, t) /\ DayOK(m, b, p, t) /\ b \in Seq(Nat)
      /\ Limits[p].rpm \in Nat /\ Limits[p].rpd \in Nat
      /\ Len(m.calls_minute) \in Nat /\ Window \in Nat
      /\ m.day_start \in Nat /\ m.day_start <= t /\ m.calls_today \in Nat
  BY LimitsAssumption, RateAssumption DEF MeterOK, WindowOK, DayOK, Metered
<1>2. /\ Len(b) \in Nat /\ DOMAIN b = 1 .. Len(b) /\ \A i \in DOMAIN b : b[i] \in Nat
  BY <1>1, Amounts
<1>3. Cardinality(TimesFrom(b, t - Window)) <= Limits[p].rpm
  <2> DEFINE n == Len(m.calls_minute)
             k == Len(b) - n
  <2>1. n <= Limits[p].rpm /\ n <= Len(b) /\ \A i \in 1 .. k : b[i] < t - Window
    BY <1>1 DEF WindowOK
  <2>2. n \in Nat /\ k \in Nat /\ k + n = Len(b)
    BY <1>1, <1>2, <2>1
  <2> HIDE DEF n, k
  <2>3. TimesFrom(b, t - Window) \subseteq k + 1 .. Len(b)
    <3>1. SUFFICES ASSUME NEW i \in 1 .. Len(b), b[i] >= t - Window PROVE k < i
      BY <1>2, <2>2 DEF TimesFrom
    <3>2. b[i] \in Nat /\ i \in Nat /\ 1 <= i /\ (i <= k => i \in 1 .. k)
      BY <1>2, <2>2
    <3>3. QED
      BY <1>1, <2>1, <2>2, <3>1, <3>2
  <2>4. /\ IsFiniteSet(k + 1 .. Len(b))
        /\ Cardinality(k + 1 .. Len(b)) = IF k + 1 > Len(b) THEN 0 ELSE Len(b) - (k + 1) + 1
    <3>1. k + 1 \in Int /\ Len(b) \in Int
      BY <1>2, <2>2
    <3>2. QED
      BY <3>1, FS_Interval
  <2>5. Cardinality(k + 1 .. Len(b)) <= n
    BY <1>2, <2>2, <2>4
  <2>6. Cardinality(TimesFrom(b, t - Window)) <= Cardinality(k + 1 .. Len(b))
    BY <2>3, <2>4, FS_Subset
  <2>7. Cardinality(TimesFrom(b, t - Window)) \in Nat /\ Cardinality(k + 1 .. Len(b)) \in Nat
    <3>1. t - Window \in Int
      BY <1>1
    <3>2. QED
      BY <1>1, <2>4, <3>1, Amounts, FS_CardinalityType
  <2>8. QED
    BY <1>1, <2>1, <2>2, <2>5, <2>6, <2>7
<1>4. Cardinality(TimesFrom(b, DayStart(t))) <= Limits[p].rpd
  <2>1. DayStart(t) \in Nat /\ m.day_start <= DayStart(t)
    BY <1>1, DayStartFacts, SameDay DEF DayOK
  <2>2. TimesFrom(b, DayStart(t)) \subseteq TimesFrom(b, m.day_start)
    BY <1>1, <1>2, <2>1 DEF TimesFrom
  <2>3. /\ IsFiniteSet(TimesFrom(b, m.day_start)) /\ Cardinality(TimesFrom(b, m.day_start)) \in Nat
        /\ Cardinality(TimesFrom(b, DayStart(t))) \in Nat
    <3>1. m.day_start \in Int /\ DayStart(t) \in Int
      BY <1>1, <2>1
    <3>2. QED
      BY <1>1, <3>1, Amounts
  <2>4. Cardinality(TimesFrom(b, DayStart(t))) <= Cardinality(TimesFrom(b, m.day_start))
    BY <2>2, <2>3, FS_Subset
  <2>5. Cardinality(TimesFrom(b, m.day_start)) <= m.calls_today /\ m.calls_today <= Limits[p].rpd
    BY <1>1 DEF DayOK
  <2>6. QED
    BY <1>1, <2>3, <2>4, <2>5
<1>5. QED
  BY <1>3, <1>4

-----------------------------------------------------------------------------
(* The routers.  The first candidate that a test accepts is accepted.      *)
LEMMA LeastNumber ==
  ASSUME NEW S, S \subseteq Nat, S # {}
  PROVE  \E x \in S : \A y \in S : x <= y
<1> DEFINE R == OpToRel(<, Nat)
<1>1. \E x \in S : \A y \in S : ~ (<<y, x>> \in R)
  BY WFMin, NatLessThanWellFounded, Zenon
<1>2. \A x, y \in Nat : y < x => <<y, x>> \in R
  BY Zenon DEF OpToRel
<1> HIDE DEF R
<1>3. PICK x \in S : \A y \in S : ~ (<<y, x>> \in R)
  BY <1>1
<1>4. ASSUME NEW y \in S
      PROVE  x <= y
  <2>1. x \in Nat /\ y \in Nat
    OBVIOUS
  <2>2. ~ (y < x)
    BY <1>2, <1>3, <2>1
  <2>3. QED
    BY <2>1, <2>2
<1>5. QED
  BY <1>4

LEMMA MinFacts ==
  ASSUME NEW S, S \subseteq Nat, S # {}
  PROVE  Min(S) \in S
BY LeastNumber DEF Min

LEMMA PickFacts ==
  ASSUME NEW r, NEW meters, Pick(r, meters) # 0
  PROVE  /\ Pick(r, meters) \in 1 .. Len(r.left)
         /\ Usable(r.left[Pick(r, meters)], r.req, meters)
<1> DEFINE I == {i \in 1 .. Len(r.left) : Usable(r.left[i], r.req, meters)}
<1>1. Pick(r, meters) = IF I # {} THEN Min(I) ELSE 0
  BY DEF Pick, SelectInSeq
<1>2. I \subseteq Nat
  OBVIOUS
<1>3. QED
  BY <1>1, <1>2, MinFacts

LEMMA AskedFacts ==
  ASSUME NEW r, NEW meters, NEW i
  PROVE  /\ DOMAIN Asked(r, meters, i) = DOMAIN meters
         /\ \A p \in DOMAIN meters : Asked(r, meters, i)[p] \in {meters[p], Cleaned(meters[p], now)}
         /\ \A p \in DOMAIN meters :
              i \in Nat \ {0} /\ p = r.left[i] /\ Fits(p, r.req)
                => Asked(r, meters, i)[p] = Cleaned(meters[p], now)
<1> DEFINE seen == {r.left[j] : j \in 1 .. (IF i = 0 THEN Len(r.left) ELSE i)}
<1>1. Asked(r, meters, i) =
        [p \in DOMAIN meters |-> IF p \in seen /\ Fits(p, r.req) THEN Cleaned(meters[p], now)
                                                                 ELSE meters[p]]
  BY DEF Asked
<1>2. i \in Nat \ {0} => r.left[i] \in seen
  OBVIOUS
<1> HIDE DEF seen
<1>3. QED
  BY <1>1, <1>2

LEMMA AskedOK ==
  ASSUME now \in Nat, NEW meters, NEW hist, MetersOK(meters, hist, now),
         NEW asked, DOMAIN asked = Metered,
         \A p \in Metered : asked[p] \in {meters[p], Cleaned(meters[p], now)}
  PROVE  MetersOK(asked, hist, now)
BY CleanedOK DEF MetersOK

(* A provider that its meter allows is called and the call recorded.       *)
LEMMA CountedOK ==
  ASSUME now \in Nat, NEW meters, NEW hist, MetersOK(meters, hist, now),
         NEW asked, MetersOK(asked, hist, now),
         NEW p, p \in Metered => asked[p] = Cleaned(meters[p], now),
         NEW est, p \in Metered => CanUse(meters[p], Limits[p], est, now)
  PROVE  MetersOK([asked EXCEPT ![p] = Recorded(@, now)], [hist EXCEPT ![p] = Append(@, now)], now)
<1> DEFINE next == [asked EXCEPT ![p] = Recorded(@, now)]
           past == [hist EXCEPT ![p] = Append(@, now)]
<1>1. DOMAIN next = Metered /\ DOMAIN past = Metered
  BY DEF MetersOK
<1>2. ASSUME NEW o \in Metered PROVE MeterOK(next[o], past[o], o, now)
  <2>1. MeterOK(meters[o], hist[o], o, now) /\ MeterOK(asked[o], hist[o], o, now)
    BY DEF MetersOK
  <2>2. CASE o # p
    BY <1>1, <2>1, <2>2 DEF MetersOK
  <2>3. CASE o = p
    <3> DEFINE g == Cleaned(meters[o], now)
    <3>1. next[o] = Recorded(g, now) /\ past[o] = Append(hist[o], now)
      BY <2>3 DEF MetersOK
    <3>2. MeterOK(g, hist[o], o, now) /\ now < g.day_start + Day
      BY <2>1, CleanedOK
    <3>3. Len(g.calls_minute) < Limits[o].rpm /\ g.calls_today < Limits[o].rpd
      BY <2>3 DEF CanUse, WithinLimits
    <3> HIDE DEF g, next, past
    <3>4. QED
      BY <3>1, <3>2, <3>3, RecordedOK
  <2>4. QED
    BY <2>2, <2>3
<1>3. QED
  BY <1>1, <1>2 DEF MetersOK

LEMMA AttemptStep ==
  ASSUME now \in Nat, now' = now, NEW c, NEW r, NEW meters, MetersOK(meters, begun, now),
         Attempt(c, r, meters)
  PROVE  MetersOK(meter, begun, now)'
<1> DEFINE i == IF r.tries = 0 THEN 0 ELSE Pick(r, meters)
           p == r.left[i]
<1>1. CASE i = 0
  <2>1. begun' = begun /\ meter' = IF r.tries = 0 THEN meters ELSE Asked(r, meters, 0)
    BY <1>1 DEF Attempt
  <2>2. MetersOK(Asked(r, meters, 0), begun, now)
    BY AskedFacts, AskedOK DEF MetersOK
  <2>3. QED
    BY <2>1, <2>2
<1>2. CASE i # 0
  <2>1. /\ meter' = [Asked(r, meters, i) EXCEPT ![p] = Recorded(@, now)]
        /\ begun' = [begun EXCEPT ![p] = Append(@, now)]
    BY <1>2 DEF Attempt
  <2>2. i \in 1 .. Len(r.left) /\ Usable(p, r.req, meters)
    BY <1>2, PickFacts
  <2> HIDE DEF i, p
  <2>3. MetersOK(Asked(r, meters, i), begun, now)
    BY AskedFacts, AskedOK DEF MetersOK
  <2>4. p \in Metered => Asked(r, meters, i)[p] = Cleaned(meters[p], now)
    <3>1. i \in Nat \ {0} /\ p = r.left[i] /\ Fits(p, r.req)
      BY <2>2 DEF p, Usable
    <3>2. QED
      BY <3>1, AskedFacts DEF MetersOK
  <2>5. CanUse(meters[p], Limits[p], EstTokens(r.req), now)
    BY <2>2 DEF Usable
  <2>6. MetersOK([Asked(r, meters, i) EXCEPT ![p] = Recorded(@, now)],
                 [begun EXCEPT ![p] = Append(@, now)], now)
    BY <2>3, <2>4, <2>5, CountedOK
  <2>7. QED
    BY <2>1, <2>6
<1>3. QED
  BY <1>1, <1>2

LEMMA PinnedStep ==
  ASSUME QuotaInv, now' = now, NEW c, NEW r, PinnedTurn(c, r)
  PROVE  QuotaInv'
<1> DEFINE p == r.left[1]
<1>1. CASE meter' = [meter EXCEPT ![p] = Cleaned(@, now)] /\ begun' = begun
  <2>1. DOMAIN meter' = Metered /\ \A o \in Metered : meter'[o] \in {meter[o], Cleaned(meter[o], now)}
    BY <1>1 DEF QuotaInv, MetersOK
  <2>2. now \in Nat /\ MetersOK(meter, begun, now)
    BY DEF QuotaInv
  <2> DEFINE next == meter'
  <2> HIDE DEF next
  <2>3. MetersOK(next, begun, now)
    BY <2>1, <2>2, AskedOK DEF next
  <2>4. QED
    BY <1>1, <2>2, <2>3 DEF QuotaInv, next
<1>2. CASE Attempt(c, r, meter)
  BY <1>2, AttemptStep DEF QuotaInv
<1>3. QED
  BY <1>1, <1>2 DEF PinnedTurn

LEMMA ClassifyStep ==
  ASSUME now \in Nat, now' = now, NEW c, NEW r, NEW rest, NEW meters, MetersOK(meters, begun, now),
         Classify(c, r, rest, meters)
  PROVE  MetersOK(meter, begun, now)'
<1> DEFINE I == {i \in 1 .. Len(rest) : CanUse(meters[rest[i]], Limits[rest[i]], RouterTokens, now)}
           i == IF I # {} THEN Min(I) ELSE 0
           p == rest[i]
<1>1. i = SelectInSeq(rest, LAMBDA q : CanUse(meters[q], Limits[q], RouterTokens, now))
  BY DEF SelectInSeq
<1>2. i # 0 => i \in I
  <2>1. I \subseteq Nat
    OBVIOUS
  <2> HIDE DEF I
  <2>2. QED
    BY <2>1, MinFacts
<1> HIDE DEF i, I
<1>3. CASE i = 0
  <2>1. Attempt(c, Tiered(r, TierFromCount(EstimateTokens(r.req))), meters)
    BY <1>1, <1>3 DEF Classify
  <2>2. QED
    BY <2>1, AttemptStep
<1>4. CASE i # 0
  <2>1. /\ meter' = [meters EXCEPT ![p] = Recorded(Cleaned(@, now), now)]
        /\ begun' = [begun EXCEPT ![p] = Append(@, now)]
    BY <1>1, <1>4 DEF Classify
  <2>2. CanUse(meters[p], Limits[p], RouterTokens, now)
    BY <1>2, <1>4 DEF I
  <2> HIDE DEF p
  <2> DEFINE asked == [meters EXCEPT ![p] = Cleaned(@, now)]
  <2>3. MetersOK(asked, begun, now)
    BY AskedOK DEF MetersOK
  <2>4. p \in Metered => asked[p] = Cleaned(meters[p], now)
    BY DEF MetersOK
  <2>5. meter' = [asked EXCEPT ![p] = Recorded(@, now)]
    BY <2>1 DEF MetersOK
  <2> HIDE DEF asked
  <2>6. MetersOK([asked EXCEPT ![p] = Recorded(@, now)], [begun EXCEPT ![p] = Append(@, now)], now)
    BY <2>2, <2>3, <2>4, CountedOK
  <2>7. QED
    BY <2>1, <2>5, <2>6
<1>5. QED
  BY <1>3, <1>4

LEMMA RoutingStep ==
  ASSUME QuotaInv, now' = now, NEW c, NEW r, EnterRouting(c, r)
  PROVE  QuotaInv'
<1>1. now \in Nat /\ MetersOK(meter, begun, now)
  BY DEF QuotaInv
<1>2. CASE UNCHANGED <<meter, begun>>
  BY <1>1, <1>2 DEF QuotaInv
<1>3. CASE Classify(c, r, Candidates, meter)
  BY <1>1, <1>3, ClassifyStep DEF QuotaInv
<1>4. CASE \E s : PinnedTurn(c, s)
  BY <1>4, PinnedStep
<1>5. CASE \E s : Attempt(c, s, meter)
  BY <1>1, <1>5, AttemptStep DEF QuotaInv
<1>6. QED
  BY <1>2, <1>3, <1>4, <1>5 DEF EnterRouting

(* What a call's end adds to its meter, but the call itself.               *)
LEMMA TokensOK ==
  ASSUME QuotaInv, NEW p, NEW n \in TokenCounts
  PROVE  MetersOK([meter EXCEPT ![p] = WithTokens(@, n, now)], begun, now)
<1>1. now \in Nat /\ MetersOK(meter, begun, now)
  BY DEF QuotaInv
<1>2. ASSUME NEW o \in Metered
      PROVE  MeterOK(WithTokens(meter[o], n, now), begun[o], o, now)
  <2> DEFINE m == meter[o]
             w == WithTokens(m, n, now)
  <2>1. MeterOK(m, begun[o], o, now)
    BY <1>1 DEF MetersOK
  <2>2. /\ DOMAIN w = DOMAIN m /\ w.calls_minute = m.calls_minute
        /\ w.calls_today = m.calls_today /\ w.day_start = m.day_start
        /\ w.last_call = m.last_call
        /\ w.tokens_minute = Append(m.tokens_minute, [at |-> now, tokens |-> n])
    BY <2>1 DEF WithTokens, MeterOK
  <2>3. [at |-> now, tokens |-> n] \in Entries /\ StampsOK(m, now)
    BY <1>1, <2>1 DEF Entries, MeterOK
  <2> HIDE DEF w
  <2>4. StampsOK(w, now)
    BY <2>2, <2>3 DEF StampsOK
  <2>5. MeterOK(w, begun[o], o, now)
    BY <2>1, <2>2, <2>4, SameOK
  <2>6. QED
    BY <2>5 DEF w
<1>3. QED
  BY <1>1, <1>2 DEF MetersOK

LEMMA BackoffOK ==
  ASSUME QuotaInv, NEW p, NEW secs
  PROVE  MetersOK([meter EXCEPT ![p] = MarkedUnavailable(@, secs, now)], begun, now)
<1>1. now \in Nat /\ MetersOK(meter, begun, now)
  BY DEF QuotaInv
<1>2. ASSUME NEW o \in Metered
      PROVE  MeterOK(MarkedUnavailable(meter[o], secs, now), begun[o], o, now)
  <2> DEFINE m == meter[o]
             u == MarkedUnavailable(m, secs, now)
  <2>1. MeterOK(m, begun[o], o, now)
    BY <1>1 DEF MetersOK
  <2>2. /\ DOMAIN u = DOMAIN m /\ u.calls_minute = m.calls_minute
        /\ u.calls_today = m.calls_today /\ u.day_start = m.day_start
        /\ u.last_call = m.last_call /\ u.tokens_minute = m.tokens_minute
    BY <2>1 DEF MarkedUnavailable, MeterOK
  <2> HIDE DEF u
  <2>3. StampsOK(u, now)
    BY <2>1, <2>2 DEF StampsOK, MeterOK
  <2>4. MeterOK(u, begun[o], o, now)
    BY <2>1, <2>2, <2>3, SameOK
  <2>5. QED
    BY <2>4 DEF u
<1>3. QED
  BY <1>1, <1>2 DEF MetersOK

LEMMA QuotaStep == QuotaInv /\ [Next]_vars => QuotaInv'
<1> SUFFICES ASSUME QuotaInv, [Next]_vars PROVE QuotaInv'
  OBVIOUS
<1>0. now \in Nat /\ MetersOK(meter, begun, now)
  BY DEF QuotaInv
<1>q. ASSUME UNCHANGED <<now, meter, begun>> PROVE QuotaInv'
  BY <1>q DEF QuotaInv
<1>a. ASSUME now' = now, NEW c, NEW r, NEW meters, MetersOK(meters, begun, now), Attempt(c, r, meters)
      PROVE  QuotaInv'
  BY <1>0, <1>a, AttemptStep DEF QuotaInv
<1>1. CASE Tick
  <2>1. now' = now + 1 /\ UNCHANGED <<meter, begun>>
    BY <1>1 DEF Tick
  <2>2. QED
    BY <1>0, <2>1, LaterOK DEF QuotaInv, MetersOK
<1>2. ASSUME NEW c \in Calls, Begin(c) PROVE QuotaInv'
  <2>1. PICK r : Enters(c, r)
    BY <1>2 DEF Begin
  <2>2. now' = now
    BY <1>2 DEF Begin
  <2>3. QED
    BY <1>q, <2>1, <2>2, RoutingStep DEF Enters, BeginChat
<1>3. ASSUME NEW c \in Calls, ImagesCome(c) PROVE QuotaInv'
  BY <1>3, RoutingStep DEF ImagesCome
<1>4. ASSUME NEW c \in Calls, RouterReplies(c) PROVE QuotaInv'
  <2> DEFINE r == call[c]
  <2>1. PICK words \in {{"TINY"}, {"HUGE", "TINY"}, {}}, n \in TokenCounts :
          LET meters == [meter EXCEPT ![r.at] = WithTokens(@, n, now)]
              reply  == ParsedTier(words)
          IN IF reply = "none" THEN Classify(c, r, r.left, meters)
                               ELSE Attempt(c, Tiered(r, reply), meters)
    BY <1>4 DEF RouterReplies
  <2> DEFINE meters == [meter EXCEPT ![r.at] = WithTokens(@, n, now)]
  <2>2. MetersOK(meters, begun, now) /\ now' = now
    BY <1>4, TokensOK DEF RouterReplies
  <2>3. Classify(c, r, r.left, meters) \/ Attempt(c, Tiered(r, ParsedTier(words)), meters)
    BY <2>1
  <2> HIDE DEF meters, r
  <2>4. QED
    BY <1>0, <1>a, <2>2, <2>3, ClassifyStep DEF QuotaInv
<1>5. ASSUME NEW c \in Calls, RouterFails(c) PROVE QuotaInv'
  BY <1>0, <1>5, ClassifyStep DEF RouterFails, QuotaInv
<1>6. ASSUME NEW c \in Calls, PinnedWakes(c) PROVE QuotaInv'
  BY <1>6, PinnedStep DEF PinnedWakes
<1>7. ASSUME NEW c \in Calls, Served(c) PROVE QuotaInv'
  <2>1. PICK n \in TokenCounts : meter' = [meter EXCEPT ![call[c].at] = WithTokens(@, n, now)]
    BY <1>7 DEF Served
  <2>2. now' = now /\ begun' = begun
    BY <1>7 DEF Served
  <2>3. QED
    BY <1>0, <2>1, <2>2, TokensOK DEF QuotaInv
<1>8. ASSUME NEW c \in Calls, ChatRaises(c) PROVE QuotaInv'
  <2>1. now' = now
    BY <1>8 DEF ChatRaises
  <2> DEFINE r == call[c]
             meters(secs) == IF secs = 0 THEN meter
                             ELSE [meter EXCEPT ![r.at] = MarkedUnavailable(@, secs, now)]
  <2>2. PICK failure \in Failures :
          \/ UNCHANGED <<meter, begun>>
          \/ LET secs == BackoffFor(r, failure)
                 s == [r EXCEPT !.failed = @ \cup {r.at}, !.left = Without(@, r.at)]
             IN \/ meter' = meters(secs) /\ begun' = begun
                \/ Attempt(c, s, meters(secs))
    BY <1>8 DEF ChatRaises
  <2> DEFINE charged == meters(BackoffFor(r, failure))
             s == [r EXCEPT !.failed = @ \cup {r.at}, !.left = Without(@, r.at)]
  <2>3. MetersOK(charged, begun, now)
    BY <1>0, BackoffOK
  <2>4. UNCHANGED <<meter, begun>> \/ (meter' = charged /\ begun' = begun) \/ Attempt(c, s, charged)
    BY <2>2
  <2> HIDE DEF charged, s
  <2>5. QED
    BY <1>0, <1>a, <1>q, <2>1, <2>3, <2>4 DEF QuotaInv
<1>9. ASSUME NEW c \in Calls,
             \/ ImageMissing(c) \/ MintEnds(c) \/ PostsAgain(c) \/ Misformed(c) \/ TriesAgain(c)
             \/ StreamRuns(c) \/ StreamEnds(c) \/ EmbedReturns(c) \/ EmbedRaises(c)
      PROVE  QuotaInv'
  BY <1>9, <1>q DEF ImageMissing, MintEnds, PostsAgain, Misformed, TriesAgain, StreamRuns, StreamEnds,
                    EmbedReturns, EmbedRaises
<1>10. CASE UNCHANGED vars
  BY <1>10, <1>q DEF vars
<1>11. QED
  BY <1>1, <1>2, <1>3, <1>4, <1>5, <1>6, <1>7, <1>8, <1>9, <1>10 DEF Next, Answer

(* Every meter knows, of the calls that were begun, all that still count.  *)
THEOREM RoutingQuotaInv == Spec => []QuotaInv
<1>1. Init => QuotaInv
  <2>1. SUFFICES ASSUME Init PROVE QuotaInv
    OBVIOUS
  <2>2. now \in Nat
    BY <2>1, RoutingAssumption DEF Init
  <2>3. QED
    BY <2>1, <2>2, NewMeterOK DEF Init, QuotaInv, MetersOK, Metered
<1>2. QED
  BY <1>1, QuotaStep, PTL DEF Spec

(* No instance is picked by its pool more often than rpm in any minute,    *)
(* nor more often than rpd in a calendar day, whichever requests want it   *)
(* and however they interleave at their awaits (Router.pick and record,    *)
(* RouterPool.pick: one step from the question to the record).  The meters *)
(* count picks: what a pick posts again or to repair a reply is not said   *)
(* to be within a limit, because the code does not count it.               *)
THEOREM RoutingPicksWithinLimits == Spec => []PicksWithinLimits
<1>1. QuotaInv => PicksWithinLimits
  <2>1. SUFFICES ASSUME QuotaInv, NEW p \in Workers \cup Routers
                 PROVE  Times(p, now - Window) <= Limits[p].rpm /\ Times(p, DayStart(now)) <= Limits[p].rpd
    BY DEF PicksWithinLimits
  <2>2. p \in Metered /\ now \in Nat /\ MeterOK(meter[p], begun[p], p, now)
    BY <2>1 DEF QuotaInv, MetersOK, Metered
  <2>3. QED
    BY <2>2, MeterKeepsQuota DEF Times, TimesFrom
<1>2. QED
  BY <1>1, RoutingQuotaInv, PTL

-----------------------------------------------------------------------------
(* The Gemini content cache.                                               *)
CallFields ==
  {"pc", "req", "plan", "left", "tries", "at", "phase", "body", "stage", "content", "since", "wake",
   "deadline", "failed", "end"}

(* Only a post names a content, one that outlives the margin.              *)
CallOK(r, t) ==
  /\ DOMAIN r = CallFields
  /\ r.pc = "minting" => r.since \in Nat /\ r.since <= t
  /\ "cached" \in r.body => r.pc = "posting" /\ r.since + Margin < r.content

(* The cache never counts on a content for longer than Gemini keeps it.    *)
CacheOK ==
  /\ DOMAIN cache = {"expires", "dropped"}
  /\ cache.expires \in Nat /\ cache.dropped \in Nat /\ cache.expires <= cache.dropped

CacheInv ==
  /\ now \in Nat /\ CacheOK
  /\ DOMAIN call = Calls /\ \A c \in Calls : CallOK(call[c], now)

(* What a step may make of the request c.                                  *)
Fresh(c) == \E s : call' = [call EXCEPT ![c] = s] /\ CallOK(s, now)

LEMMA StepKeepsCache ==
  ASSUME CacheInv, NEW c \in Calls, now' = now, CacheOK', Fresh(c)
  PROVE  CacheInv'
<1>1. PICK s : call' = [call EXCEPT ![c] = s] /\ CallOK(s, now)
  BY DEF Fresh
<1>2. DOMAIN call' = Calls /\ call'[c] = s /\ \A d \in Calls \ {c} : call'[d] = call[d]
  BY <1>1 DEF CacheInv
<1>3. QED
  BY <1>1, <1>2 DEF CacheInv

LEMMA BareBody ==
  ASSUME NEW r
  PROVE  "cached" \notin FirstBody(r)
BY DEF FirstBody, Format, Thought

LEMMA EndFresh ==
  ASSUME NEW c, NEW r, NEW how, Ends(c, r, how)
  PROVE  Fresh(c)
<1> DEFINE long == [NewCall EXCEPT !.pc = "ended", !.end = how, !.req = r.req, !.plan = r.plan,
                                   !.failed = r.failed, !.deadline = r.deadline]
           short == [NewCall EXCEPT !.pc = "ended", !.end = how]
<1>1. CallOK(long, now) /\ "cached" \notin long.body /\ CallOK(short, now) /\ "cached" \notin short.body
  BY DEF NewCall, CallOK, CallFields
<1>2. call' = [call EXCEPT ![c] = long] \/ call' = [call EXCEPT ![c] = short]
  BY DEF Ends, Goto
<1> HIDE DEF long, short
<1>3. QED
  BY <1>1, <1>2 DEF Fresh

LEMMA EnterFresh ==
  ASSUME now \in Nat, CacheOK, NEW c, NEW r, DOMAIN r = CallFields, EnterChat(c, r)
  PROVE  CacheOK' /\ Fresh(c)
<1> DEFINE post == [r EXCEPT !.pc = "posting", !.body = FirstBody(r), !.stage = 0, !.content = 0,
                         !.since = 0]
           named == [post EXCEPT !.body = @ \cup {"cached"}, !.content = cache.dropped, !.since = now]
           mint == [post EXCEPT !.pc = "minting", !.body = {}, !.since = now]
<1>1. CallOK(post, now) /\ "cached" \notin post.body
  BY BareBody DEF CallOK, CallFields
<1>2. now + Margin < cache.dropped => CallOK(named, now)
  BY DEF CallOK, CallFields
<1>3. CallOK(mint, now) /\ "cached" \notin mint.body
  BY DEF CallOK, CallFields
<1> HIDE DEF post, named, mint
<1>4. CASE call' = [call EXCEPT ![c] = post] /\ cache' = cache
  BY <1>1, <1>4 DEF Fresh, CacheOK
<1>5. CASE cache.expires > now + Margin /\ call' = [call EXCEPT ![c] = named] /\ cache' = cache
  <2>1. now + Margin < cache.dropped
    BY <1>5, RoutingAssumption DEF CacheOK
  <2>2. QED
    BY <1>2, <1>5, <2>1 DEF Fresh, CacheOK
<1>6. CASE call' = [call EXCEPT ![c] = mint] /\ cache' = [expires |-> 0, dropped |-> 0]
  <2>1. CacheOK'
    BY <1>6 DEF CacheOK
  <2>2. Fresh(c)
    BY <1>3, <1>6 DEF Fresh
  <2>3. QED
    BY <2>1, <2>2
<1>7. QED
  BY <1>4, <1>5, <1>6 DEF EnterChat, Goto, post, named, mint

LEMMA AttemptFresh ==
  ASSUME now \in Nat, CacheOK, NEW c, NEW r, NEW meters, DOMAIN r = CallFields,
         "cached" \in r.body => r.req.kind # "stream", Attempt(c, r, meters)
  PROVE  CacheOK' /\ Fresh(c)
<1> DEFINE i == IF r.tries = 0 THEN 0 ELSE Pick(r, meters)
           s == [r EXCEPT !.at = r.left[i], !.tries = @ - 1, !.phase = "first"]
           open == [s EXCEPT !.pc = "streaming"]
<1>1. CASE Ends(c, r, "unavailable") /\ cache' = cache
  BY <1>1, EndFresh DEF CacheOK
<1>2. CASE r.req.kind = "stream" /\ Goto(c, open) /\ cache' = cache
  <2>1. CallOK(open, now) /\ "cached" \notin open.body
    BY <1>2 DEF CallOK, CallFields
  <2> HIDE DEF open
  <2>2. QED
    BY <1>2, <2>1 DEF Fresh, Goto, CacheOK
<1>3. CASE EnterChat(c, s)
  <2>1. DOMAIN s = CallFields
    BY DEF CallFields
  <2> HIDE DEF s
  <2>2. QED
    BY <1>3, <2>1, EnterFresh
<1>4. QED
  BY <1>1, <1>2, <1>3 DEF Attempt

(* The way to a provider: from here on no body names a content yet.        *)
Unposted(r) == DOMAIN r = CallFields /\ "cached" \notin r.body

LEMMA OverUnposted ==
  ASSUME NEW r, Unposted(r), NEW candidates
  PROVE  Unposted(Over(r, candidates)) /\ \A t : Unposted([Over(r, candidates) EXCEPT !.deadline = t])
BY DEF Unposted, Over, CallFields

LEMMA PinnedFresh ==
  ASSUME now \in Nat, CacheOK, NEW c, NEW r, Unposted(r), PinnedTurn(c, r)
  PROVE  CacheOK' /\ Fresh(c)
<1>1. CASE Attempt(c, r, meter)
  BY <1>1, AttemptFresh DEF Unposted
<1>2. ASSUME NEW wake, Goto(c, [r EXCEPT !.pc = "waiting", !.wake = wake]), cache' = cache
      PROVE  CacheOK' /\ Fresh(c)
  <2> DEFINE s == [r EXCEPT !.pc = "waiting", !.wake = wake]
  <2>1. CallOK(s, now) /\ "cached" \notin s.body
    BY DEF CallOK, CallFields, Unposted
  <2> HIDE DEF s
  <2>2. QED
    BY <1>2, <2>1 DEF Fresh, Goto, CacheOK, s
<1>3. QED
  BY <1>1, <1>2 DEF PinnedTurn

LEMMA ClassifyFresh ==
  ASSUME now \in Nat, CacheOK, NEW c, NEW r, NEW rest, NEW meters, Unposted(r),
         Classify(c, r, rest, meters)
  PROVE  CacheOK' /\ Fresh(c)
<1>1. ASSUME NEW tier, Attempt(c, Tiered(r, tier), meters) PROVE CacheOK' /\ Fresh(c)
  <2>1. Unposted(Tiered(r, tier))
    BY OverUnposted DEF Tiered
  <2>2. QED
    BY <1>1, <2>1, AttemptFresh DEF Unposted
<1>2. ASSUME NEW at, NEW left, Goto(c, [r EXCEPT !.pc = "classifying", !.at = at, !.left = left]),
             cache' = cache
      PROVE  CacheOK' /\ Fresh(c)
  <2> DEFINE s == [r EXCEPT !.pc = "classifying", !.at = at, !.left = left]
  <2>1. CallOK(s, now) /\ "cached" \notin s.body
    BY DEF CallOK, CallFields, Unposted
  <2> HIDE DEF s
  <2>2. QED
    BY <1>2, <2>1 DEF Fresh, Goto, CacheOK, s
<1>3. QED
  BY <1>1, <1>2 DEF Classify

LEMMA RoutingFresh ==
  ASSUME now \in Nat, CacheOK, NEW c, NEW r, Unposted(r), EnterRouting(c, r)
  PROVE  CacheOK' /\ Fresh(c)
<1> DEFINE s == Over(r, Expand(IF Explicit(r.req) THEN <<Named(r.req)>> ELSE LlmOrder))
           t == [s EXCEPT !.deadline = now + PinnedWait]
<1>1. Unposted(s) /\ Unposted(t)
  BY OverUnposted
<1>2. \/ (Ends(c, r, "too_long") \/ Ends(c, r, "unknown")) /\ cache' = cache
      \/ Classify(c, r, Candidates, meter)
      \/ PinnedTurn(c, t)
      \/ Attempt(c, s, meter)
  <2>1. CASE r.req.auto /\ ~Explicit(r.req)
    BY <2>1, Zenon DEF EnterRouting
  <2>2. CASE ~ (r.req.auto /\ ~Explicit(r.req))
    <3>1. IF Explicit(r.req) /\ s.plan = <<>>
          THEN Ends(c, r, "unknown") /\ UNCHANGED <<meter, cache, begun>>
          ELSE IF Explicit(r.req) /\ Len(s.plan) = 1 THEN PinnedTurn(c, t) ELSE Attempt(c, s, meter)
      BY <2>2, Zenon DEF EnterRouting
    <3>2. QED
      BY <3>1, Zenon
  <2>3. QED
    BY <2>1, <2>2
<1> HIDE DEF s, t
<1>3. CASE (Ends(c, r, "too_long") \/ Ends(c, r, "unknown")) /\ cache' = cache
  BY <1>3, EndFresh DEF CacheOK
<1>4. CASE Classify(c, r, Candidates, meter)
  BY <1>4, ClassifyFresh
<1>5. CASE PinnedTurn(c, t)
  BY <1>1, <1>5, PinnedFresh
<1>6. CASE Attempt(c, s, meter)
  BY <1>1, <1>6, AttemptFresh DEF Unposted
<1>7. QED
  BY <1>2, <1>3, <1>4, <1>5, <1>6

LEMMA EmbedFresh ==
  ASSUME now \in Nat, CacheOK, NEW c, NEW r, NEW left, Unposted(r), EmbedFrom(c, r, left), cache' = cache
  PROVE  CacheOK' /\ Fresh(c)
<1>1. ASSUME NEW at, NEW rest, Goto(c, [r EXCEPT !.pc = "embedding", !.at = at, !.left = rest])
      PROVE  Fresh(c)
  <2> DEFINE s == [r EXCEPT !.pc = "embedding", !.at = at, !.left = rest]
  <2>1. CallOK(s, now) /\ "cached" \notin s.body
    BY DEF CallOK, CallFields, Unposted
  <2> HIDE DEF s
  <2>2. QED
    BY <1>1, <2>1 DEF Fresh, Goto, s
<1>2. ASSUME NEW how, Ends(c, r, how) PROVE Fresh(c)
  BY <1>2, EndFresh
<1>3. QED
  BY <1>1, <1>2 DEF EmbedFrom, CacheOK

LEMMA BeginFresh ==
  ASSUME CacheInv, NEW c \in Calls, Begin(c)
  PROVE  now' = now /\ CacheOK' /\ Fresh(c)
<1>1. now \in Nat /\ CacheOK /\ CallOK(call[c], now) /\ call[c].pc = "new" /\ now' = now
  BY DEF CacheInv, Begin
<1>2. PICK req \in Requests[c] : Enters(c, [call[c] EXCEPT !.req = req])
  BY DEF Begin
<1> DEFINE r == [call[c] EXCEPT !.req = req]
<1>3. Unposted(r)
  BY <1>1 DEF CallOK, CallFields, Unposted
<1> HIDE DEF r
<1>4. CASE (Ends(c, r, "too_long") \/ \E left : EmbedFrom(c, r, left)) /\ cache' = cache
  BY <1>1, <1>3, <1>4, EndFresh, EmbedFresh DEF CacheOK
<1>5. CASE Goto(c, [r EXCEPT !.pc = "fetching"]) /\ cache' = cache
  <2> DEFINE s == [r EXCEPT !.pc = "fetching"]
  <2>1. CallOK(s, now) /\ "cached" \notin s.body
    BY <1>3 DEF CallOK, CallFields, Unposted
  <2> HIDE DEF s
  <2>2. QED
    BY <1>1, <1>5, <2>1 DEF Fresh, Goto, CacheOK, s
<1>6. CASE EnterRouting(c, r)
  BY <1>1, <1>3, <1>6, RoutingFresh
<1>7. Enters(c, r)
  BY <1>2 DEF r
<1>8. QED
  BY <1>1, <1>4, <1>5, <1>6, <1>7 DEF Enters, BeginChat

(* The answer of Gemini: the content was minted after the cache looked.    *)
LEMMA MintFresh ==
  ASSUME CacheInv, NEW c \in Calls, MintEnds(c)
  PROVE  now' = now /\ CacheOK' /\ Fresh(c)
<1> DEFINE r == [call[c] EXCEPT !.pc = "posting", !.body = FirstBody(call[c])]
           bare == [r EXCEPT !.since = 0]
           named(minted) == [r EXCEPT !.body = @ \cup {"cached"}, !.content = minted + Ttl]
<1>1. /\ now \in Nat /\ CacheOK /\ CallOK(call[c], now) /\ call[c].pc = "minting" /\ now' = now
      /\ call[c].since \in Nat /\ Ttl \in Nat /\ Margin \in Nat /\ Margin < Ttl
  BY RoutingAssumption DEF CacheInv, MintEnds, CallOK
<1>2. CallOK(bare, now)
  BY <1>1, BareBody DEF CallOK, CallFields
<1>3. ASSUME NEW minted \in call[c].since .. now,
             cache' = [expires |-> StoredExpiry(call[c]), dropped |-> minted + Ttl],
             Goto(c, named(minted))
      PROVE  CacheOK' /\ Fresh(c)
  <2>1. CacheOK'
    BY <1>1, <1>3 DEF CacheOK, StoredExpiry
  <2>2. CallOK(named(minted), now)
    BY <1>1 DEF CallOK, CallFields
  <2> HIDE DEF named
  <2>3. QED
    BY <1>3, <2>1, <2>2 DEF Fresh, Goto
<1>4. CASE Goto(c, bare) /\ cache' = cache
  <2> HIDE DEF bare
  <2>1. QED
    BY <1>1, <1>2, <1>4 DEF Fresh, Goto, CacheOK
<1>5. QED
  BY <1>1, <1>3, <1>4 DEF MintEnds

LEMMA CacheStep ==
  ASSUME CacheInv, [Next]_vars
  PROVE  CacheInv'
<1>0. now \in Nat /\ CacheOK /\ \A c \in Calls : CallOK(call[c], now)
  BY DEF CacheInv
<1>u. \A c \in Calls : call[c].pc # "posting" => Unposted(call[c])
  BY <1>0 DEF CallOK, Unposted
<1>c. cache' = cache => CacheOK'
  BY <1>0 DEF CacheOK
<1>1. CASE Tick
  <2>1. now' = now + 1 /\ UNCHANGED <<cache, call>>
    BY <1>1 DEF Tick
  <2>2. \A c \in Calls : CallOK(call[c], now + 1)
    BY <1>0 DEF CallOK
  <2>3. QED
    BY <1>0, <1>c, <2>1, <2>2 DEF CacheInv
<1>2. ASSUME NEW c \in Calls, Begin(c) PROVE CacheInv'
  BY <1>2, BeginFresh, StepKeepsCache
<1>3. ASSUME NEW c \in Calls, ImagesCome(c) PROVE CacheInv'
  <2>1. Unposted(call[c]) /\ EnterRouting(c, call[c]) /\ now' = now
    BY <1>3, <1>u DEF ImagesCome
  <2>2. QED
    BY <1>0, <2>1, RoutingFresh, StepKeepsCache
<1>4. ASSUME NEW c \in Calls,
             ImageMissing(c) \/ Served(c) \/ StreamEnds(c) \/ EmbedReturns(c)
      PROVE  CacheInv'
  <2>1. now' = now /\ cache' = cache /\ \E how : Ends(c, call[c], how)
    BY <1>4 DEF ImageMissing, Served, StreamEnds, EmbedReturns
  <2>2. Fresh(c)
    BY <2>1, EndFresh
  <2>3. QED
    BY <1>c, <2>1, <2>2, StepKeepsCache
<1>5. ASSUME NEW c \in Calls, RouterReplies(c) \/ RouterFails(c) PROVE CacheInv'
  <2>1. Unposted(call[c]) /\ now' = now
    BY <1>5, <1>u DEF RouterReplies, RouterFails
  <2>2. \/ \E rest, meters : Classify(c, call[c], rest, meters)
        \/ \E tier, meters : Attempt(c, Tiered(call[c], tier), meters)
    BY <1>5 DEF RouterReplies, RouterFails
  <2>3. \A tier : Unposted(Tiered(call[c], tier))
    BY <2>1, OverUnposted DEF Tiered
  <2>4. CacheOK' /\ Fresh(c)
    <3>1. CASE \E rest, meters : Classify(c, call[c], rest, meters)
      BY <1>0, <2>1, <3>1, ClassifyFresh
    <3>2. CASE \E tier, meters : Attempt(c, Tiered(call[c], tier), meters)
      BY <1>0, <2>3, <3>2, AttemptFresh DEF Unposted
    <3>3. QED
      BY <2>2, <3>1, <3>2
  <2>5. QED
    BY <2>1, <2>4, StepKeepsCache
<1>6. ASSUME NEW c \in Calls, PinnedWakes(c) PROVE CacheInv'
  <2>1. Unposted(call[c]) /\ PinnedTurn(c, call[c]) /\ now' = now
    BY <1>6, <1>u DEF PinnedWakes
  <2>2. QED
    BY <1>0, <2>1, PinnedFresh, StepKeepsCache
<1>7. ASSUME NEW c \in Calls, MintEnds(c) PROVE CacheInv'
  BY <1>7, MintFresh, StepKeepsCache
<1>8. ASSUME NEW c \in Calls, PostsAgain(c) PROVE CacheInv'
  <2>0. PICK failure \in Failures : \E remedy \in Remedies(call[c], failure) :
          Goto(c, [call[c] EXCEPT !.body = remedy[1], !.stage = remedy[2]])
    BY <1>8 DEF PostsAgain
  <2>r. PICK remedy \in Remedies(call[c], failure) :
          Goto(c, [call[c] EXCEPT !.body = remedy[1], !.stage = remedy[2]])
    BY <2>0
  <2> DEFINE body == remedy[1]
             stage == remedy[2]
  <2>1. Goto(c, [call[c] EXCEPT !.body = body, !.stage = stage])
    BY <2>r
  <2>b. "cached" \in body => "cached" \in call[c].body
    <3>1. CASE remedy \in GeminiRemedies(call[c], failure)
      BY <3>1 DEF GeminiRemedies
    <3>2. CASE remedy \in OpenAIRemedies(call[c], failure)
      BY <3>2 DEF OpenAIRemedies
    <3>3. QED
      BY <2>r, <3>1, <3>2 DEF Remedies
  <2> HIDE DEF body, stage
  <2> DEFINE s == [call[c] EXCEPT !.body = body, !.stage = stage]
  <2>2. call[c].pc = "posting" /\ now' = now /\ cache' = cache /\ CallOK(call[c], now)
    BY <1>0, <1>8 DEF PostsAgain
  <2>3. CallOK(s, now)
    BY <2>2, <2>b DEF CallOK, CallFields
  <2> HIDE DEF s
  <2>4. Fresh(c)
    BY <2>1, <2>3 DEF Fresh, Goto, s
  <2>5. QED
    BY <1>c, <2>2, <2>4, StepKeepsCache
<1>9. ASSUME NEW c \in Calls, Misformed(c) \/ TriesAgain(c) \/ StreamRuns(c) PROVE CacheInv'
  <2>1. CallOK(call[c], now) /\ now' = now
    BY <1>0, <1>9 DEF Misformed, TriesAgain, StreamRuns
  <2>2. \/ Ends(c, call[c], "invalid") /\ cache' = cache
        \/ \E phase : EnterChat(c, [call[c] EXCEPT !.phase = phase])
        \/ EnterChat(c, call[c])
    BY <1>9 DEF Misformed, TriesAgain, StreamRuns
  <2>3. CASE Ends(c, call[c], "invalid") /\ cache' = cache
    BY <1>c, <2>1, <2>3, EndFresh, StepKeepsCache
  <2>4. CASE \E phase : EnterChat(c, [call[c] EXCEPT !.phase = phase])
    <3>1. PICK phase : EnterChat(c, [call[c] EXCEPT !.phase = phase])
      BY <2>4
    <3> DEFINE s == [call[c] EXCEPT !.phase = phase]
    <3>2. DOMAIN s = CallFields
      BY <2>1 DEF CallOK, CallFields
    <3> HIDE DEF s
    <3>3. CacheOK' /\ Fresh(c)
      BY <1>0, <3>1, <3>2, EnterFresh DEF s
    <3>4. QED
      BY <2>1, <3>3, StepKeepsCache
  <2>5. CASE EnterChat(c, call[c])
    <3>1. DOMAIN call[c] = CallFields
      BY <2>1 DEF CallOK
    <3>2. CacheOK' /\ Fresh(c)
      BY <1>0, <2>5, <3>1, EnterFresh
    <3>3. QED
      BY <2>1, <3>2, StepKeepsCache
  <2>6. QED
    BY <2>2, <2>3, <2>4, <2>5
<1>10. ASSUME NEW c \in Calls, ChatRaises(c) PROVE CacheInv'
  <2> DEFINE paused == [call[c] EXCEPT !.pc = "pausing", !.body = {}, !.stage = 0]
             s == [call[c] EXCEPT !.failed = @ \cup {call[c].at}, !.left = Without(@, call[c].at)]
  <2>1. CallOK(call[c], now) /\ call[c].pc = "posting" /\ call[c].req.kind # "stream" /\ now' = now
    BY <1>0, <1>10 DEF ChatRaises
  <2>2. \/ Goto(c, paused) /\ cache' = cache
        \/ Ends(c, s, "failed") /\ cache' = cache
        \/ \E meters : Attempt(c, s, meters)
    BY <1>10 DEF ChatRaises
  <2>3. CallOK(paused, now) /\ "cached" \notin paused.body
    BY <2>1 DEF CallOK, CallFields
  <2>4. DOMAIN s = CallFields /\ s.req.kind # "stream"
    BY <2>1 DEF CallOK, CallFields
  <2> HIDE DEF paused, s
  <2>5. CASE Goto(c, paused) /\ cache' = cache
    <3>1. Fresh(c)
      BY <2>3, <2>5 DEF Fresh, Goto
    <3>2. QED
      BY <1>c, <2>1, <2>5, <3>1, StepKeepsCache
  <2>6. CASE Ends(c, s, "failed") /\ cache' = cache
    BY <1>c, <2>1, <2>6, EndFresh, StepKeepsCache
  <2>7. CASE \E meters : Attempt(c, s, meters)
    BY <1>0, <2>1, <2>4, <2>7, AttemptFresh, StepKeepsCache
  <2>8. QED
    BY <2>2, <2>5, <2>6, <2>7
<1>11. ASSUME NEW c \in Calls, EmbedRaises(c) PROVE CacheInv'
  <2>1. Unposted(call[c]) /\ now' = now /\ cache' = cache
    BY <1>11, <1>u DEF EmbedRaises
  <2>2. Ends(c, call[c], "failed") \/ EmbedFrom(c, call[c], call[c].left)
    BY <1>11 DEF EmbedRaises
  <2>3. Fresh(c)
    BY <1>0, <2>1, <2>2, EndFresh, EmbedFresh
  <2>4. QED
    BY <1>c, <2>1, <2>3, StepKeepsCache
<1>12. CASE UNCHANGED vars
  BY <1>0, <1>12 DEF vars, CacheInv, CacheOK
<1>13. QED
  BY <1>1, <1>2, <1>3, <1>4, <1>5, <1>6, <1>7, <1>8, <1>9, <1>10, <1>11, <1>12 DEF Next, Answer

LEMMA CacheInvariant == Spec => []CacheInv
<1>1. Init => CacheInv
  <2>1. SUFFICES ASSUME Init PROVE CacheInv
    OBVIOUS
  <2>2. now \in Nat /\ CacheOK
    BY <2>1, RoutingAssumption DEF Init, CacheOK
  <2>3. CallOK(NewCall, now)
    BY DEF CallOK, NewCall, CallFields
  <2>4. DOMAIN call = Calls /\ \A c \in Calls : call[c] = NewCall
    BY <2>1 DEF Init
  <2>5. QED
    BY <2>2, <2>3, <2>4 DEF CacheInv
<1>2. QED
  BY <1>1, CacheStep, PTL DEF Spec

(* Every post that names a cached content, the repeated ones, those of     *)
(* streams and the one that follows a mint included, names one that Gemini *)
(* holds for more than the margin after the request looked for it,         *)
(* whatever the lifetimes, the margin and the time that mints take: the    *)
(* cache counts from before it asked, so that it forgets a content before  *)
(* Gemini drops it (GeminiCache.get_or_create).                            *)
THEOREM RoutingCachedNameAlive == Spec => []CachedNameAlive
<1>1. CacheInv => CachedNameAlive
  BY DEF CacheInv, CallOK, CachedNameAlive
<1>2. QED
  BY <1>1, CacheInvariant, PTL
-----------------------------------------------------------------------------
(* The refusal.  Cleaning a clean meter changes nothing, so that a refused *)
(* provider may be asked again with the same answer.                       *)
LEMMA CleanedTwice ==
  ASSUME NEW m, NEW b, NEW p \in Metered, NEW t \in Nat, MeterOK(m, b, p, t)
  PROVE  Cleaned(Cleaned(m, t), t) = Cleaned(m, t)
<1> DEFINE g == Cleaned(m, t)
           since == t - Window
<1>0. /\ m.calls_minute \in Seq(Nat) /\ m.tokens_minute \in Seq(Entries) /\ since \in Int
      /\ {"calls_minute", "tokens_minute", "calls_today", "day_start"} \subseteq DOMAIN m
  BY RateAssumption DEF MeterOK, WindowOK, StampsOK
<1>1. MeterOK(g, b, p, t) /\ t < g.day_start + Day
  BY CleanedOK
<1>2. PopBefore(g.calls_minute, g.calls_minute, since) = g.calls_minute
  <2> DEFINE q == m.calls_minute
             time == [x \in Nat |-> x]
  <2>1. q \in Seq(Nat) /\ g.calls_minute = PopBefore(q, q, since)
    BY <1>0, CleanedFields
  <2> HIDE DEF g, q
  <2>2. q = TimesOf(q, time) /\ time \in [Nat -> Int]
    BY <2>1, OwnTimes
  <2> HIDE DEF time, since
  <2> DEFINE rest == PopBefore(q, TimesOf(q, time), since)
  <2>3. rest \in Seq(Nat) /\ PopBefore(rest, TimesOf(rest, time), since) = rest
    BY <1>0, <2>1, <2>2, PoppedAgain
  <2>r. g.calls_minute = rest
    BY <2>1, <2>2
  <2> HIDE DEF rest
  <2>4. rest = TimesOf(rest, time)
    BY <2>3, OwnTimes DEF time
  <2>5. QED
    BY <2>3, <2>4, <2>r
<1>3. LET q == g.tokens_minute IN PopBefore(q, [i \in DOMAIN q |-> q[i].at], since) = q
  <2> DEFINE q == m.tokens_minute
             r == g.tokens_minute
  <2>1. q \in Seq(Entries) /\ r = PopBefore(q, TimesOf(q, StampOf), since)
    BY <1>0, CleanedStamps
  <2> HIDE DEF g, q, r
  <2>2. StampOf \in [Entries -> Int]
    BY <2>1, StampTimes
  <2>3. r \in Seq(Entries) /\ PopBefore(r, TimesOf(r, StampOf), since) = r
    <3> HIDE DEF since
    <3>1. QED
      BY <1>0, <2>1, <2>2, PoppedAgain
  <2>4. [i \in DOMAIN r |-> r[i].at] = TimesOf(r, StampOf)
    BY <2>3, StampTimes
  <2>5. QED
    BY <2>3, <2>4 DEF r
<1>4. ~ (t - g.day_start >= Day)
  BY <1>1, RateAssumption DEF MeterOK, DayOK
<1>5. /\ g = [x \in DOMAIN g |-> g[x]]
      /\ {"calls_minute", "tokens_minute", "calls_today", "day_start"} \subseteq DOMAIN g
  BY <1>0 DEF Cleaned
<1> HIDE DEF g, since
<1>6. Cleaned(g, t) = [g EXCEPT !.calls_today = @, !.tokens_today = @, !.day_start = @,
                                !.calls_minute = @, !.tokens_minute = @]
  BY <1>2, <1>3, <1>4 DEF Cleaned, since
<1>7. QED
  BY <1>5, <1>6 DEF g

LEMMA WithinCleaned ==
  ASSUME NEW m, NEW b, NEW p \in Metered, NEW t \in Nat, MeterOK(m, b, p, t), NEW limits, NEW est
  PROVE  /\ WithinLimits(Cleaned(m, t), limits, est, t) <=> WithinLimits(m, limits, est, t)
         /\ CooldownLeft(Cleaned(m, t), limits, t) = CooldownLeft(m, limits, t)
<1>1. WithinLimits(Cleaned(m, t), limits, est, t) <=> WithinLimits(m, limits, est, t)
  BY CleanedTwice DEF WithinLimits
<1>2. Cleaned(m, t).last_call = m.last_call
  BY CleanedStamps
<1>3. QED
  BY <1>1, <1>2 DEF CooldownLeft

-----------------------------------------------------------------------------
(* Lists of providers: what the recursive functions that build them are.   *)
LEMMA Induction ==
  ASSUME NEW S, 0 \in S, \A k \in Nat : k \in S => k + 1 \in S
  PROVE  Nat \subseteq S
<1> DEFINE T == Nat \ S
<1> SUFFICES ASSUME T # {} PROVE FALSE
  OBVIOUS
<1>1. T \subseteq Nat
  OBVIOUS
<1> HIDE DEF T
<1>2. PICK k \in T : \A j \in T : k <= j
  BY <1>1, LeastNumber
<1>3. k \in Nat /\ k \notin S
  BY <1>2 DEF T
<1>4. k # 0 /\ k - 1 \in Nat /\ (k - 1) + 1 = k /\ ~ (k <= k - 1)
  BY <1>3
<1>5. k - 1 \in S
  BY <1>2, <1>4 DEF T
<1>6. QED
  BY <1>3, <1>4, <1>5

IsKept(f, seq, S, n) ==
  f = [k \in 0 .. n |->
         IF k = 0 THEN <<>> ELSE IF seq[k] \in S THEN Append(f[k - 1], seq[k]) ELSE f[k - 1]]

LEMMA KeptExists ==
  ASSUME NEW seq, NEW S, Len(seq) \in Nat
  PROVE  \E f : IsKept(f, seq, S, Len(seq)) /\ Among(seq, S) = f[Len(seq)]
<1> DEFINE N == {n \in Nat : \E f : IsKept(f, seq, S, n)}
<1>1. 0 \in N
  <2>1. IsKept([k \in 0 .. 0 |-> <<>>], seq, S, 0)
    BY DEF IsKept
  <2>2. QED
    BY <2>1
<1>2. ASSUME NEW n \in N PROVE n + 1 \in N
  <2>1. PICK f : IsKept(f, seq, S, n)
    OBVIOUS
  <2> DEFINE g == [k \in 0 .. n + 1 |-> IF k = 0 THEN <<>>
                                  ELSE IF seq[k] \in S THEN Append(f[k - 1], seq[k]) ELSE f[k - 1]]
  <2>2. \A k \in 0 .. n : g[k] = f[k]
    <3>1. \A k \in 0 .. n :
            f[k] = IF k = 0 THEN <<>> ELSE IF seq[k] \in S THEN Append(f[k - 1], seq[k]) ELSE f[k - 1]
      BY <2>1, Zenon DEF IsKept
    <3>2. \A k \in 0 .. n : k \in 0 .. n + 1
      OBVIOUS
    <3>3. QED
      BY <3>1, <3>2
  <2>3. \A k \in 0 .. n + 1 : k # 0 => g[k - 1] = f[k - 1]
    <3>1. \A k \in 0 .. n + 1 : k # 0 => k - 1 \in 0 .. n
      OBVIOUS
    <3> HIDE DEF g
    <3>2. QED
      BY <2>2, <3>1
  <2>4. IsKept(g, seq, S, n + 1)
    BY <2>3 DEF IsKept
  <2> HIDE DEF g
  <2>5. QED
    BY <2>4
<1>3. Len(seq) \in N
  BY <1>1, <1>2, Induction
<1> DEFINE f == CHOOSE f : IsKept(f, seq, S, Len(seq))
<1>4. IsKept(f, seq, S, Len(seq))
  BY <1>3
<1>5. Among(seq, S) = f[Len(seq)]
  BY Zenon DEF Among, IsKept
<1>6. QED
  BY <1>4, <1>5

(* Those kept are the members of both; where one is dropped, it is shorter.*)
LEMMA AmongFacts ==
  ASSUME NEW A, NEW seq \in Seq(A), NEW S
  PROVE  /\ Among(seq, S) \in Seq(A \cap S)
         /\ \A i \in DOMAIN seq : seq[i] \in S => seq[i] \in ToSet(Among(seq, S))
         /\ Len(Among(seq, S)) <= Len(seq)
         /\ (\E i \in DOMAIN seq : seq[i] \notin S) => Len(Among(seq, S)) < Len(seq)
<1>0. Len(seq) \in Nat /\ DOMAIN seq = 1 .. Len(seq) /\ \A i \in DOMAIN seq : seq[i] \in A
  OBVIOUS
<1>1. PICK f : IsKept(f, seq, S, Len(seq)) /\ Among(seq, S) = f[Len(seq)]
  BY <1>0, KeptExists
<1> DEFINE Good(k) ==
             /\ f[k] \in Seq(A \cap S) /\ Len(f[k]) <= k
             /\ \A i \in 1 .. k : seq[i] \in S => seq[i] \in ToSet(f[k])
             /\ (\E i \in 1 .. k : seq[i] \notin S) => Len(f[k]) < k
           N == {k \in Nat : k <= Len(seq) => Good(k)}
<1>2. /\ f[0] = <<>>
      /\ \A k \in 1 .. Len(seq) :
           f[k] = IF seq[k] \in S THEN Append(f[k - 1], seq[k]) ELSE f[k - 1]
  <2>1. \A k \in 0 .. Len(seq) :
          f[k] = IF k = 0 THEN <<>> ELSE IF seq[k] \in S THEN Append(f[k - 1], seq[k]) ELSE f[k - 1]
    BY <1>1 DEF IsKept
  <2>2. QED
    BY <1>0, <2>1
<1>3. 0 \in N
  <2>1. f[0] \in Seq(A \cap S) /\ Len(f[0]) = 0 /\ 1 .. 0 = {}
    BY <1>2
  <2>2. QED
    BY <2>1
<1>4. ASSUME NEW k \in Nat, k \in N PROVE k + 1 \in N
  <2>1. SUFFICES ASSUME k + 1 <= Len(seq) PROVE Good(k + 1)
    OBVIOUS
  <2>2. Good(k) /\ k + 1 \in 1 .. Len(seq) /\ (k + 1) - 1 = k
    BY <1>0, <1>4, <2>1
  <2>3. f[k + 1] = IF seq[k + 1] \in S THEN Append(f[k], seq[k + 1]) ELSE f[k]
    BY <1>2, <2>2
  <2>4. /\ f[k] \in Seq(A \cap S) /\ Len(f[k]) <= k /\ Len(f[k]) \in Nat
        /\ \A i \in 1 .. k : seq[i] \in S => seq[i] \in ToSet(f[k])
        /\ (\E i \in 1 .. k : seq[i] \notin S) => Len(f[k]) < k
    BY <2>2
  <2>5. \A i \in 1 .. k + 1 : i \in 1 .. k \/ i = k + 1
    OBVIOUS
  <2>6. CASE seq[k + 1] \notin S
    <3>1. f[k + 1] = f[k] /\ Len(f[k]) < k + 1
      BY <2>3, <2>4, <2>6
    <3>2. QED
      BY <2>4, <2>5, <2>6, <3>1
  <2>7. CASE seq[k + 1] \in S
    <3> DEFINE x == seq[k + 1]
               s == f[k]
               t == Append(s, x)
    <3>0. s \in Seq(A \cap S) /\ x \in A \cap S
      BY <1>0, <2>2, <2>4, <2>7
    <3> HIDE DEF s, x
    <3>1. /\ t \in Seq(A \cap S) /\ Len(t) = Len(s) + 1
          /\ t[Len(s) + 1] = x /\ \A j \in 1 .. Len(s) : t[j] = s[j]
          /\ DOMAIN t = 1 .. Len(s) + 1 /\ DOMAIN s = 1 .. Len(s)
      BY <3>0
    <3> HIDE DEF t
    <3>2. x \in ToSet(t) /\ ToSet(s) \subseteq ToSet(t)
      <4>1. Len(s) \in Nat /\ Len(s) + 1 \in DOMAIN t /\ \A j \in DOMAIN s : j \in DOMAIN t
        BY <3>0, <3>1
      <4>2. QED
        BY <3>1, <4>1 DEF ToSet
    <3> USE DEF s, x
    <3>3. \A i \in 1 .. k + 1 : seq[i] \in S => seq[i] \in ToSet(t)
      BY <2>4, <2>5, <3>2
    <3>4. Len(t) <= k + 1
      BY <2>4, <3>1
    <3>5. (\E i \in 1 .. k + 1 : seq[i] \notin S) => Len(t) < k + 1
      BY <2>4, <2>5, <2>7, <3>1
    <3>6. f[k + 1] = t
      BY <2>3, <2>7 DEF t
    <3>7. QED
      BY <3>1, <3>3, <3>4, <3>5, <3>6
  <2>8. QED
    BY <2>6, <2>7
<1> HIDE DEF Good
<1>5. Len(seq) \in N
  <2> HIDE DEF N
  <2>1. QED
    BY <1>0, <1>3, <1>4, Induction
<1>6. Good(Len(seq))
  BY <1>0, <1>5
<1>7. QED
  BY <1>0, <1>1, <1>6 DEF Good

LEMMA WithoutFacts ==
  ASSUME NEW left \in Seq(Workers), NEW p \in ToSet(left)
  PROVE  /\ Without(left, p) \in Seq(Workers) /\ Len(Without(left, p)) < Len(left)
         /\ ToSet(left) \subseteq ToSet(Without(left, p)) \cup {p}
<1> DEFINE S == ToSet(left) \ {p}
           w == Among(left, S)
<1>1. \A i \in DOMAIN left : left[i] \in ToSet(left) /\ (left[i] # p => left[i] \in S)
  BY DEF ToSet
<1>2. \E i \in DOMAIN left : left[i] \notin S
  BY DEF ToSet
<1> HIDE DEF S
<1>3. /\ w \in Seq(Workers \cap S) /\ Len(w) < Len(left)
      /\ \A i \in DOMAIN left : left[i] \in S => left[i] \in ToSet(w)
  BY <1>2, AmongFacts
<1>4. Seq(Workers \cap S) \subseteq Seq(Workers)
  OBVIOUS
<1>5. ToSet(left) \subseteq ToSet(w) \cup {p}
  BY <1>1, <1>3 DEF ToSet
<1>6. QED
  BY <1>3, <1>4, <1>5 DEF Without, S

LEMMA TieredType ==
  ASSUME NEW tier \in {"TINY", "LARGE"}
  PROVE  TierWorkers[tier] \in Seq(Workers)
<1>1. TierToOrder[tier] \in Seq(STRING) /\ tier \in DOMAIN TierToOrder
  BY OrdersAssumption
<1>2. Among(TierToOrder[tier], Workers) \in Seq(STRING \cap Workers)
  BY <1>1, AmongFacts
<1>3. Seq(STRING \cap Workers) \subseteq Seq(Workers)
  OBVIOUS
<1>4. QED
  BY <1>1, <1>2, <1>3 DEF TierWorkers

(* expand returns workers.                                                 *)
LEMMA InstancesType ==
  ASSUME NEW name
  PROVE  InstancesOf(name) \in Seq(Workers)
<1>1. GeminiPool \in Seq(Workers)
  <2> DEFINE keys == Cardinality(GeminiKeys \cap Environment)
             size == IF keys = 0 /\ "GEMINI_API_KEY" \in Environment THEN 1 ELSE keys
  <2>1. keys \in Nat /\ keys <= Cardinality(GeminiKeys) /\ Cardinality(GeminiKeys) \in Nat
    BY OrdersAssumption, FS_Subset, FS_CardinalityType
  <2>2. size \in Nat /\ size <= Len(GeminiNames) /\ Len(GeminiNames) \in Nat
    BY <2>1, OrdersAssumption
  <2>3. GeminiPool = SubSeq(GeminiNames, 1, size)
    BY DEF GeminiPool
  <2> HIDE DEF size
  <2>4. GeminiPool \in Seq(STRING)
    BY <2>2, <2>3, OrdersAssumption
  <2>5. \A i \in DOMAIN GeminiPool : GeminiPool[i] \in Workers
    BY DEF Workers, ToSet
  <2> DEFINE pool == GeminiPool
  <2> HIDE DEF pool
  <2>6. pool \in Seq(STRING) /\ \A i \in DOMAIN pool : pool[i] \in Workers
    BY <2>4, <2>5 DEF pool
  <2>7. pool \in Seq(Workers)
    BY <2>6
  <2>8. QED
    BY <2>7 DEF pool
<1>2. QED
  BY <1>1 DEF InstancesOf

IsExpanded(f, names, n) ==
  f = [k \in 0 .. n |->
         IF k = 0 THEN <<>>
         ELSE f[k - 1] \o Among(InstancesOf(names[k]), Workers \ ToSet(f[k - 1]))]

LEMMA ExpandExists ==
  ASSUME NEW names, Len(names) \in Nat
  PROVE  \E f : IsExpanded(f, names, Len(names)) /\ Expand(names) = f[Len(names)]
<1> DEFINE N == {n \in Nat : \E f : IsExpanded(f, names, n)}
<1>1. 0 \in N
  <2>1. IsExpanded([k \in 0 .. 0 |-> <<>>], names, 0)
    BY DEF IsExpanded
  <2>2. QED
    BY <2>1
<1>2. ASSUME NEW n \in N PROVE n + 1 \in N
  <2>1. PICK f : IsExpanded(f, names, n)
    OBVIOUS
  <2> DEFINE g == [k \in 0 .. n + 1 |->
                     IF k = 0 THEN <<>>
                     ELSE f[k - 1] \o Among(InstancesOf(names[k]), Workers \ ToSet(f[k - 1]))]
  <2>2. \A k \in 0 .. n : g[k] = f[k]
    <3>1. \A k \in 0 .. n :
            f[k] = IF k = 0 THEN <<>>
                   ELSE f[k - 1] \o Among(InstancesOf(names[k]), Workers \ ToSet(f[k - 1]))
      BY <2>1, Zenon DEF IsExpanded
    <3>2. \A k \in 0 .. n : k \in 0 .. n + 1
      OBVIOUS
    <3>3. QED
      BY <3>1, <3>2
  <2>3. \A k \in 0 .. n + 1 : k # 0 => g[k - 1] = f[k - 1]
    <3>1. \A k \in 0 .. n + 1 : k # 0 => k - 1 \in 0 .. n
      OBVIOUS
    <3> HIDE DEF g
    <3>2. QED
      BY <2>2, <3>1
  <2>4. IsExpanded(g, names, n + 1)
    BY <2>3 DEF IsExpanded
  <2> HIDE DEF g
  <2>5. QED
    BY <2>4
<1>3. Len(names) \in N
  BY <1>1, <1>2, Induction
<1> DEFINE f == CHOOSE f : IsExpanded(f, names, Len(names))
<1>4. IsExpanded(f, names, Len(names))
  BY <1>3
<1>5. Expand(names) = f[Len(names)]
  BY Zenon DEF Expand, IsExpanded
<1>6. QED
  BY <1>4, <1>5

LEMMA ExpandType ==
  ASSUME NEW names, Len(names) \in Nat
  PROVE  Expand(names) \in Seq(Workers)
<1>1. PICK f : IsExpanded(f, names, Len(names)) /\ Expand(names) = f[Len(names)]
  BY ExpandExists
<1> DEFINE N == {k \in Nat : k <= Len(names) => f[k] \in Seq(Workers)}
<1>2. \A k \in 0 .. Len(names) :
        f[k] = IF k = 0 THEN <<>>
               ELSE f[k - 1] \o Among(InstancesOf(names[k]), Workers \ ToSet(f[k - 1]))
  BY <1>1 DEF IsExpanded
<1>3. 0 \in N
  <2>0. 0 \in 0 .. Len(names)
    OBVIOUS
  <2>1. f[0] = <<>>
    BY <1>2, <2>0, Zenon
  <2>2. <<>> \in Seq(Workers)
    OBVIOUS
  <2>3. QED
    BY <2>1, <2>2
<1>4. ASSUME NEW k \in Nat, k \in N PROVE k + 1 \in N
  <2>1. SUFFICES ASSUME k + 1 <= Len(names) PROVE f[k + 1] \in Seq(Workers)
    OBVIOUS
  <2>2. f[k] \in Seq(Workers) /\ k + 1 \in 0 .. Len(names) /\ k + 1 # 0 /\ (k + 1) - 1 = k
    BY <1>4, <2>1
  <2> DEFINE fresh == Among(InstancesOf(names[k + 1]), Workers \ ToSet(f[k]))
  <2>3. f[k + 1] = f[k] \o fresh
    BY <1>2, <2>2
  <2>4. fresh \in Seq(Workers \cap (Workers \ ToSet(f[k])))
    BY InstancesType, AmongFacts
  <2>5. Seq(Workers \cap (Workers \ ToSet(f[k]))) \subseteq Seq(Workers)
    OBVIOUS
  <2> HIDE DEF fresh
  <2>6. fresh \in Seq(Workers)
    BY <2>4, <2>5
  <2>7. QED
    BY <2>2, <2>3, <2>6
<1>5. Len(names) \in N
  <2> HIDE DEF N
  <2>1. QED
    BY <1>3, <1>4, Induction
<1>6. QED
  BY <1>1, <1>5

-----------------------------------------------------------------------------
(* Where a request is among its candidates.  Those it has left and those   *)
(* that failed are all of them; there are more turns than it has left.     *)
OnItsWay(r) ==
  /\ DOMAIN r = CallFields /\ r.end # "unavailable"
  /\ r.left \in Seq(Workers) /\ r.tries \in Nat
  /\ ToSet(r.plan) \subseteq ToSet(r.left) \cup r.failed

Ready(r) == OnItsWay(r) /\ Len(r.left) < r.tries

Trying(r) == OnItsWay(r) /\ Len(r.left) <= r.tries /\ r.at \in ToSet(r.left)

PlanOK(r) ==
  /\ DOMAIN r = CallFields
  /\ r.pc # "ended" => r.end # "unavailable"
  /\ r.pc \in {"streaming", "minting", "posting", "pausing"} => Trying(r)
  /\ r.pc = "waiting" => Ready(r) /\ Len(r.left) = 1 /\ r.deadline \in Int
  /\ r.pc = "classifying" => ~Explicit(r.req) /\ TierFromCount(EstimateTokens(r.req)) # "HUGE"
  /\ r.pc = "embedding" => r.req.kind = "embed"

PlanInv == QuotaInv /\ DOMAIN call = Calls /\ \A c \in Calls : PlanOK(call[c])

(* What the refusal says of the candidates.                                *)
Refused(p, r, m) ==
  \/ p \in r.failed
  \/ ~Fits(p, r.req)
  \/ ~WithinLimits(m, Limits[p], EstTokens(r.req), now)
  \/ /\ CooldownLeft(m, Limits[p], now) > 0
     /\ (Explicit(r.req) /\ Len(r.plan) = 1) => now >= r.deadline

Refusal(r, meters) == \A p \in ToSet(r.plan) : Refused(p, r, meters[p])

(* A named provider is not refused while it is only cooling down.          *)
Patient(r, meters) ==
  Explicit(r.req) /\ Len(r.plan) = 1 =>
    \/ now >= r.deadline
    \/ Pick(r, meters) # 0
    \/ \A p \in ToSet(r.left) : ~ (CooldownLeft(meters[p], Limits[p], now) > 0)

(* What a step makes of the request c.                                     *)
Told(c) ==
  \E s : /\ call' = [call EXCEPT ![c] = s] /\ PlanOK(s)
         /\ s.end = "unavailable" /\ s.req.kind # "embed" => Refusal(s, meter')

RefusalsTrue ==
  \A c \in Calls :
    LET r == call'[c]
    IN call[c].pc # "ended" /\ r.end = "unavailable" /\ r.req.kind # "embed" => Refusal(r, meter')

LEMMA StepKeepsPlans ==
  ASSUME PlanInv, QuotaInv', NEW c \in Calls, Told(c)
  PROVE  PlanInv' /\ RefusalsTrue
<1>1. PICK s : /\ call' = [call EXCEPT ![c] = s] /\ PlanOK(s)
               /\ s.end = "unavailable" /\ s.req.kind # "embed" => Refusal(s, meter')
  BY DEF Told
<1>2. DOMAIN call' = Calls /\ call'[c] = s /\ \A d \in Calls \ {c} : call'[d] = call[d]
  BY <1>1 DEF PlanInv
<1>3. \A d \in Calls \ {c} : PlanOK(call[d]) /\ (call[d].pc # "ended" => call[d].end # "unavailable")
  BY DEF PlanInv, PlanOK
<1>4. PlanInv'
  <2>1. \A d \in Calls : PlanOK(call'[d])
    BY <1>1, <1>2, <1>3
  <2>2. QED
    BY <1>2, <2>1 DEF PlanInv
<1>5. RefusalsTrue
  BY <1>1, <1>2, <1>3 DEF RefusalsTrue
<1>6. QED
  BY <1>4, <1>5

(* A request's end.  Only one of the chat is refused here.                 *)
LEMMA EndTold ==
  ASSUME NEW c, NEW r, NEW how, Ends(c, r, how),
         how = "unavailable" /\ r.req.kind # "embed" => Refusal(r, meter')
  PROVE  Told(c)
<1> DEFINE long == [NewCall EXCEPT !.pc = "ended", !.end = how, !.req = r.req, !.plan = r.plan,
                                   !.failed = r.failed, !.deadline = r.deadline]
           short == [NewCall EXCEPT !.pc = "ended", !.end = how]
<1>1. PlanOK(long) /\ PlanOK(short) /\ short.end = how
  BY DEF NewCall, PlanOK, CallFields
<1>2. /\ long.req = r.req /\ long.plan = r.plan /\ long.failed = r.failed
      /\ long.deadline = r.deadline /\ long.end = how
  BY DEF NewCall
<1>3. call' = [call EXCEPT ![c] = IF how = "unavailable" THEN long ELSE short]
  BY DEF Ends, Goto
<1> HIDE DEF long, short
<1>4. CASE how = "unavailable"
  <2>1. r.req.kind # "embed" => Refusal(long, meter')
    BY <1>2, <1>4 DEF Refusal, Refused
  <2>2. QED
    BY <1>1, <1>2, <1>3, <1>4, <2>1 DEF Told
<1>5. CASE how # "unavailable"
  BY <1>1, <1>3, <1>5 DEF Told
<1>6. QED
  BY <1>4, <1>5

LEMMA EnterTold ==
  ASSUME NEW c, NEW r, Trying(r), EnterChat(c, r)
  PROVE  Told(c)
<1> DEFINE post == [r EXCEPT !.pc = "posting", !.body = FirstBody(r), !.stage = 0, !.content = 0,
                         !.since = 0]
           named == [post EXCEPT !.body = @ \cup {"cached"}, !.content = cache.dropped, !.since = now]
           mint == [post EXCEPT !.pc = "minting", !.body = {}, !.since = now]
<1>1. PlanOK(post) /\ post.end # "unavailable"
  BY DEF PlanOK, Trying, OnItsWay, CallFields
<1>2. PlanOK(named) /\ named.end # "unavailable"
  BY DEF PlanOK, Trying, OnItsWay, CallFields
<1>3. PlanOK(mint) /\ mint.end # "unavailable"
  BY DEF PlanOK, Trying, OnItsWay, CallFields
<1>4. \/ call' = [call EXCEPT ![c] = post]
      \/ call' = [call EXCEPT ![c] = named]
      \/ call' = [call EXCEPT ![c] = mint]
  BY DEF EnterChat, Goto
<1> HIDE DEF post, named, mint
<1>5. QED
  BY <1>1, <1>2, <1>3, <1>4 DEF Told

LEMMA PickedNone ==
  ASSUME NEW r, NEW meters, Pick(r, meters) = 0
  PROVE  \A i \in 1 .. Len(r.left) : ~Usable(r.left[i], r.req, meters)
<1> DEFINE I == {i \in 1 .. Len(r.left) : Usable(r.left[i], r.req, meters)}
<1>1. Pick(r, meters) = IF I # {} THEN Min(I) ELSE 0
  BY DEF Pick, SelectInSeq
<1>2. I \subseteq Nat /\ 0 \notin I
  OBVIOUS
<1>3. I = {}
  <2> HIDE DEF I
  <2>1. QED
    BY <1>1, <1>2, MinFacts
<1>4. QED
  BY <1>3

(* Nobody is left, or nobody that is left can be used.                     *)
LEMMA RefusalIsTrue ==
  ASSUME now \in Nat, NEW r, NEW meters, NEW hist, MetersOK(meters, hist, now), Ready(r),
         Patient(r, meters), Pick(r, meters) = 0
  PROVE  Refusal(r, Asked(r, meters, 0))
<1> DEFINE asked == Asked(r, meters, 0)
<1>1. SUFFICES ASSUME NEW p \in ToSet(r.plan), p \notin r.failed, Fits(p, r.req)
               PROVE  \/ ~WithinLimits(asked[p], Limits[p], EstTokens(r.req), now)
                      \/ /\ CooldownLeft(asked[p], Limits[p], now) > 0
                         /\ (Explicit(r.req) /\ Len(r.plan) = 1) => now >= r.deadline
  BY DEF Refusal, Refused
<1>2. p \in ToSet(r.left) /\ r.left \in Seq(Workers)
  BY <1>1 DEF Ready, OnItsWay
<1>3. PICK i \in 1 .. Len(r.left) : p = r.left[i]
  BY <1>2 DEF ToSet
<1>4. p \in Metered /\ DOMAIN meters = Metered /\ MeterOK(meters[p], hist[p], p, now)
  BY <1>2, <1>3 DEF Metered, MetersOK
<1>5. asked[p] = Cleaned(meters[p], now)
  BY <1>1, <1>3, <1>4 DEF Asked
<1>6. ~CanUse(meters[p], Limits[p], EstTokens(r.req), now)
  BY <1>1, <1>3, PickedNone DEF Usable
<1> HIDE DEF asked
<1>7. /\ WithinLimits(asked[p], Limits[p], EstTokens(r.req), now)
           <=> WithinLimits(meters[p], Limits[p], EstTokens(r.req), now)
      /\ CooldownLeft(asked[p], Limits[p], now) = CooldownLeft(meters[p], Limits[p], now)
  BY <1>4, <1>5, WithinCleaned
<1>8. CooldownLeft(meters[p], Limits[p], now) \in Int
  BY <1>4, LimitsAssumption DEF CooldownLeft, MeterOK, StampsOK, Metered
<1>9. CASE ~WithinLimits(meters[p], Limits[p], EstTokens(r.req), now)
  BY <1>7, <1>9
<1>10. CASE CooldownLeft(meters[p], Limits[p], now) > 0
  <2>1. (Explicit(r.req) /\ Len(r.plan) = 1) => now >= r.deadline
    BY <1>2, <1>10 DEF Patient
  <2>2. QED
    BY <1>7, <1>10, <2>1
<1>11. WithinLimits(meters[p], Limits[p], EstTokens(r.req), now)
         => CooldownLeft(meters[p], Limits[p], now) > 0
  <2>1. CooldownLeft(meters[p], Limits[p], now) <= 0
          => ~WithinLimits(meters[p], Limits[p], EstTokens(r.req), now)
    BY <1>6 DEF CanUse
  <2>2. QED
    BY <1>8, <2>1
<1>12. QED
  BY <1>9, <1>10, <1>11

LEMMA AttemptTold ==
  ASSUME now \in Nat, NEW c, NEW r, NEW meters, MetersOK(meters, begun, now), Ready(r),
         Patient(r, meters), Attempt(c, r, meters)
  PROVE  Told(c)
<1> DEFINE i == Pick(r, meters)
           p == r.left[i]
           s == [r EXCEPT !.at = p, !.tries = @ - 1, !.phase = "first"]
           open == [s EXCEPT !.pc = "streaming"]
<1>0. r.tries # 0 /\ Len(r.left) \in Nat /\ r.tries \in Nat /\ Len(r.left) < r.tries
  BY DEF Ready, OnItsWay
<1>1. CASE i = 0
  <2>1. Ends(c, r, "unavailable") /\ meter' = Asked(r, meters, 0)
    BY <1>0, <1>1 DEF Attempt
  <2>2. QED
    BY <1>1, <2>1, RefusalIsTrue, EndTold
<1>2. CASE i # 0
  <2>1. \/ r.req.kind = "stream" /\ Goto(c, open)
        \/ EnterChat(c, s)
    BY <1>0, <1>2 DEF Attempt
  <2>2. i \in 1 .. Len(r.left)
    BY <1>2, PickFacts
  <2> HIDE DEF i
  <2>3. p \in ToSet(r.left)
    BY <2>2 DEF ToSet, Ready, OnItsWay
  <2>4. r.tries - 1 \in Nat /\ Len(r.left) <= r.tries - 1
    BY <1>0
  <2> HIDE DEF p
  <2>5. Trying(s)
    BY <2>3, <2>4 DEF Ready, Trying, OnItsWay, CallFields
  <2> HIDE DEF s
  <2>6. PlanOK(open) /\ open.end # "unavailable"
    BY <2>5 DEF PlanOK, Trying, OnItsWay, CallFields
  <2> HIDE DEF open
  <2>7. QED
    BY <2>1, <2>5, <2>6, EnterTold DEF Told, Goto
<1>3. QED
  BY <1>1, <1>2

(* Over a list of workers a request starts with all its turns.             *)
LEMMA OverReady ==
  ASSUME NEW r, DOMAIN r = CallFields, r.end # "unavailable", NEW candidates \in Seq(Workers)
  PROVE  LET s == Over(r, candidates)
         IN Ready(s) /\ s.req = r.req /\ s.plan = candidates /\ s.left = candidates
<1> DEFINE s == Over(r, candidates)
<1>1. /\ DOMAIN s = CallFields /\ s.end = r.end /\ s.req = r.req /\ s.plan = candidates
      /\ s.left = candidates /\ s.tries = Len(candidates) + 1 /\ s.failed = r.failed
  BY DEF Over, CallFields
<1> HIDE DEF s
<1>2. Len(candidates) \in Nat
  OBVIOUS
<1>3. Ready(s)
  BY <1>1, <1>2 DEF Ready, OnItsWay
<1>4. QED
  BY <1>1, <1>3 DEF s

LEMMA DeadlineReady ==
  ASSUME NEW r, Ready(r), NEW t, NEW d, d = [r EXCEPT !.deadline = t]
  PROVE  Ready(d) /\ d.left = r.left /\ d.deadline = t
<1>1. /\ DOMAIN d = CallFields /\ d.end = r.end /\ d.plan = r.plan /\ d.left = r.left
      /\ d.tries = r.tries /\ d.failed = r.failed /\ d.deadline = t
  BY DEF Ready, OnItsWay, CallFields
<1>2. QED
  BY <1>1 DEF Ready, OnItsWay

(* A pinned request waits as long as its provider only cools down.         *)
LEMMA PinnedTold ==
  ASSUME QuotaInv, NEW c, NEW r, Ready(r), Len(r.left) = 1, r.deadline \in Int, PinnedTurn(c, r)
  PROVE  Told(c)
<1> DEFINE p == r.left[1]
           cd == CooldownLeft(meter[p], Limits[p], now)
           wake == now + (IF cd < LongestSleep THEN cd ELSE LongestSleep)
           s == [r EXCEPT !.pc = "waiting", !.wake = wake]
<1>1. now \in Nat /\ MetersOK(meter, begun, now)
  BY DEF QuotaInv
<1>2. p \in Workers /\ \A o \in ToSet(r.left) : o = p
  BY DEF Ready, OnItsWay, ToSet
<1>3. cd \in Int /\ cd <= PinnedWait /\ PinnedWait \in Int
  <2>1. MeterOK(meter[p], begun[p], p, now)
    BY <1>1, <1>2 DEF MetersOK, Metered
  <2>2. /\ meter[p].last_call \in Int /\ meter[p].last_call <= now
        /\ Limits[p].cooldown \in 0 .. PinnedWait /\ PinnedWait \in Nat
    BY <1>2, <2>1, LimitsAssumption DEF MeterOK, StampsOK
  <2>3. QED
    BY <1>1, <2>2 DEF CooldownLeft
<1>4. CASE now < r.deadline /\ Pick(r, meter) = 0 /\ cd > 0 /\ cd <= PinnedWait
  <2>1. Goto(c, s)
    BY <1>4 DEF PinnedTurn
  <2>2. PlanOK(s) /\ s.end # "unavailable"
    BY DEF PlanOK, Ready, OnItsWay, CallFields
  <2> HIDE DEF s
  <2>3. QED
    BY <2>1, <2>2 DEF Told, Goto
<1>5. CASE ~ (now < r.deadline /\ Pick(r, meter) = 0 /\ cd > 0 /\ cd <= PinnedWait)
  <2>1. Attempt(c, r, meter)
    BY <1>5 DEF PinnedTurn
  <2>2. now >= r.deadline \/ Pick(r, meter) # 0 \/ ~ (cd > 0)
    BY <1>1, <1>3, <1>5
  <2>3. Patient(r, meter)
    BY <1>2, <2>2 DEF Patient
  <2>4. QED
    BY <1>1, <2>1, <2>3, AttemptTold
<1>6. QED
  BY <1>4, <1>5

LEMMA TieredTold ==
  ASSUME now \in Nat, NEW c, NEW r, NEW meters, MetersOK(meters, begun, now),
         DOMAIN r = CallFields, r.end # "unavailable", ~Explicit(r.req),
         NEW tier \in {"TINY", "LARGE"}, Attempt(c, Tiered(r, tier), meters)
  PROVE  Told(c)
<1> DEFINE s == Tiered(r, tier)
<1>1. Ready(s) /\ s.req = r.req
  BY TieredType, OverReady DEF Tiered
<1> HIDE DEF s
<1>2. Patient(s, meters)
  BY <1>1 DEF Patient
<1>3. QED
  BY <1>1, <1>2, AttemptTold DEF s

LEMMA ClassifyTold ==
  ASSUME now \in Nat, NEW c, NEW r, NEW rest, NEW meters, MetersOK(meters, begun, now),
         DOMAIN r = CallFields, r.end # "unavailable", ~Explicit(r.req),
         TierFromCount(EstimateTokens(r.req)) # "HUGE", Classify(c, r, rest, meters)
  PROVE  Told(c)
<1>1. CASE Attempt(c, Tiered(r, TierFromCount(EstimateTokens(r.req))), meters)
  <2>1. TierFromCount(EstimateTokens(r.req)) \in {"TINY", "LARGE"}
    BY DEF TierFromCount
  <2>2. QED
    BY <1>1, <2>1, TieredTold
<1>2. ASSUME NEW at, NEW left, Goto(c, [r EXCEPT !.pc = "classifying", !.at = at, !.left = left])
      PROVE  Told(c)
  <2> DEFINE s == [r EXCEPT !.pc = "classifying", !.at = at, !.left = left]
  <2>1. PlanOK(s) /\ s.end # "unavailable"
    BY DEF PlanOK, CallFields
  <2> HIDE DEF s
  <2>2. QED
    BY <1>2, <2>1 DEF Told, Goto, s
<1>3. QED
  BY <1>1, <1>2 DEF Classify

LEMMA RoutingTold ==
  ASSUME QuotaInv, NEW c, NEW r, DOMAIN r = CallFields, r.end # "unavailable", EnterRouting(c, r)
  PROVE  Told(c)
<1> DEFINE names == IF Explicit(r.req) THEN <<Named(r.req)>> ELSE LlmOrder
           s == Over(r, Expand(names))
           d == [s EXCEPT !.deadline = now + PinnedWait]
<1>1. now \in Nat /\ MetersOK(meter, begun, now) /\ now + PinnedWait \in Int
  BY LimitsAssumption DEF QuotaInv
<1>2. Expand(names) \in Seq(Workers)
  <2>1. Len(names) \in Nat
    BY OrdersAssumption
  <2> HIDE DEF names
  <2>2. QED
    BY <2>1, ExpandType
<1>3. /\ Ready(s) /\ s.req = r.req /\ s.left = s.plan
      /\ Ready(d) /\ d.left = s.plan /\ d.deadline = now + PinnedWait
  <2> DEFINE plan == Expand(names)
  <2>1. plan \in Seq(Workers) /\ s = Over(r, plan)
    BY <1>2
  <2> HIDE DEF names, plan, s
  <2>2. Ready(s) /\ s.req = r.req /\ s.plan = plan /\ s.left = plan
    BY <2>1, OverReady
  <2>3. QED
    BY <2>2, DeadlineReady
<1>4. \/ Ends(c, r, "too_long") \/ Ends(c, r, "unknown")
      \/ /\ ~Explicit(r.req) /\ TierFromCount(EstimateTokens(r.req)) # "HUGE"
         /\ Classify(c, r, Candidates, meter)
      \/ Len(s.plan) = 1 /\ PinnedTurn(c, d)
      \/ ~ (Explicit(r.req) /\ Len(s.plan) = 1) /\ Attempt(c, s, meter)
  <2>1. CASE r.req.auto /\ ~Explicit(r.req)
    BY <2>1, Zenon DEF EnterRouting
  <2>2. CASE ~ (r.req.auto /\ ~Explicit(r.req))
    <3>1. IF Explicit(r.req) /\ s.plan = <<>>
          THEN Ends(c, r, "unknown") /\ UNCHANGED <<meter, cache, begun>>
          ELSE IF Explicit(r.req) /\ Len(s.plan) = 1 THEN PinnedTurn(c, d) ELSE Attempt(c, s, meter)
      BY <2>2, Zenon DEF EnterRouting
    <3>2. QED
      BY <3>1, Zenon
  <2>3. QED
    BY <2>1, <2>2
<1> HIDE DEF s, d
<1>5. CASE Ends(c, r, "too_long") \/ Ends(c, r, "unknown")
  BY <1>5, EndTold
<1>6. CASE /\ ~Explicit(r.req) /\ TierFromCount(EstimateTokens(r.req)) # "HUGE"
           /\ Classify(c, r, Candidates, meter)
  BY <1>1, <1>6, ClassifyTold
<1>7. CASE Len(s.plan) = 1 /\ PinnedTurn(c, d)
  BY <1>1, <1>3, <1>7, PinnedTold
<1>8. CASE ~ (Explicit(r.req) /\ Len(s.plan) = 1) /\ Attempt(c, s, meter)
  BY <1>1, <1>3, <1>8, AttemptTold DEF Patient
<1>9. QED
  BY <1>4, <1>5, <1>6, <1>7, <1>8

LEMMA EmbedTold ==
  ASSUME NEW c, NEW r, NEW left, DOMAIN r = CallFields, r.end # "unavailable", r.req.kind = "embed",
         EmbedFrom(c, r, left)
  PROVE  Told(c)
<1>1. ASSUME NEW at, NEW rest, Goto(c, [r EXCEPT !.pc = "embedding", !.at = at, !.left = rest])
      PROVE  Told(c)
  <2> DEFINE s == [r EXCEPT !.pc = "embedding", !.at = at, !.left = rest]
  <2>1. PlanOK(s) /\ s.end # "unavailable"
    BY DEF PlanOK, CallFields
  <2> HIDE DEF s
  <2>2. QED
    BY <1>1, <2>1 DEF Told, Goto, s
<1>2. ASSUME NEW how, Ends(c, r, how) PROVE Told(c)
  BY <1>2, EndTold
<1>3. QED
  BY <1>1, <1>2 DEF EmbedFrom

LEMMA BeginTold ==
  ASSUME PlanInv, NEW c \in Calls, Begin(c)
  PROVE  Told(c)
<1>1. PlanOK(call[c]) /\ call[c].pc = "new" /\ QuotaInv
  BY DEF PlanInv, Begin
<1>2. PICK req \in Requests[c] : Enters(c, [call[c] EXCEPT !.req = req])
  BY DEF Begin
<1> DEFINE r == [call[c] EXCEPT !.req = req]
<1>3. DOMAIN r = CallFields /\ r.end # "unavailable"
  BY <1>1 DEF PlanOK, CallFields
<1> HIDE DEF r
<1>4. CASE Ends(c, r, "too_long")
  BY <1>4, EndTold
<1>5. CASE r.req.kind = "embed" /\ EmbedFrom(c, r, EmbeddersFor(r.req))
  BY <1>3, <1>5, EmbedTold
<1>6. CASE Goto(c, [r EXCEPT !.pc = "fetching"])
  <2> DEFINE s == [r EXCEPT !.pc = "fetching"]
  <2>1. PlanOK(s) /\ s.end # "unavailable"
    BY <1>3 DEF PlanOK, CallFields
  <2> HIDE DEF s
  <2>2. QED
    BY <1>6, <2>1 DEF Told, Goto, s
<1>7. CASE EnterRouting(c, r)
  BY <1>1, <1>3, <1>7, RoutingTold
<1>8. Enters(c, r)
  BY <1>2 DEF r
<1>9. QED
  BY <1>4, <1>5, <1>6, <1>7, <1>8 DEF Enters, BeginChat

(* A failure that does not end the call takes its provider out of it.      *)
LEMMA RaiseTold ==
  ASSUME PlanInv, NEW c \in Calls, ChatRaises(c)
  PROVE  Told(c)
<1> DEFINE r == call[c]
           paused == [r EXCEPT !.pc = "pausing", !.body = {}, !.stage = 0]
           s == [r EXCEPT !.failed = @ \cup {r.at}, !.left = Without(@, r.at)]
           meters(secs) == IF secs = 0 THEN meter
                           ELSE [meter EXCEPT ![r.at] = MarkedUnavailable(@, secs, now)]
<1>1. now \in Nat /\ QuotaInv /\ r.pc = "posting" /\ PlanOK(r)
  BY DEF PlanInv, QuotaInv, ChatRaises
<1>2. Trying(r)
  BY <1>1 DEF PlanOK
<1>3. PICK failure \in Failures :
        \/ Goto(c, paused)
        \/ Ends(c, s, "failed")
        \/ ~Fatal(r, failure) /\ Attempt(c, s, meters(BackoffFor(r, failure)))
  BY DEF ChatRaises
<1> DEFINE charged == meters(BackoffFor(r, failure))
<1>4. MetersOK(charged, begun, now)
  BY <1>1, BackoffOK DEF QuotaInv
<1>5. PlanOK(paused) /\ paused.end # "unavailable"
  BY <1>1, <1>2 DEF PlanOK, Trying, OnItsWay, CallFields
<1>6. Ready(s) /\ s.req = r.req
  <2> DEFINE w == Without(r.left, r.at)
  <2>1. /\ w \in Seq(Workers) /\ Len(w) < Len(r.left)
        /\ ToSet(r.left) \subseteq ToSet(w) \cup {r.at}
    BY <1>2, WithoutFacts DEF Trying, OnItsWay
  <2>2. /\ DOMAIN s = CallFields /\ s.end = r.end /\ s.req = r.req /\ s.plan = r.plan
        /\ s.left = w /\ s.tries = r.tries /\ s.failed = r.failed \cup {r.at}
    BY <1>2 DEF Trying, OnItsWay, CallFields
  <2> HIDE DEF w, s
  <2>3. /\ r.end # "unavailable" /\ r.tries \in Nat /\ Len(r.left) <= r.tries
        /\ Len(r.left) \in Nat /\ Len(w) \in Nat
        /\ ToSet(r.plan) \subseteq ToSet(r.left) \cup r.failed
    BY <1>2, <2>1 DEF Trying, OnItsWay
  <2>4. ToSet(s.plan) \subseteq ToSet(s.left) \cup s.failed
    BY <2>1, <2>2, <2>3
  <2>5. Len(s.left) < s.tries
    BY <2>1, <2>2, <2>3
  <2>6. QED
    BY <2>1, <2>2, <2>3, <2>4, <2>5 DEF Ready, OnItsWay
<1> HIDE DEF s, paused, charged
<1>7. CASE Goto(c, paused)
  BY <1>5, <1>7 DEF Told, Goto
<1>8. CASE Ends(c, s, "failed")
  BY <1>8, EndTold
<1>9. CASE ~Fatal(r, failure) /\ Attempt(c, s, charged)
  <2>1. ~Explicit(s.req)
    BY <1>6, <1>9 DEF Fatal
  <2>2. Patient(s, charged)
    BY <2>1 DEF Patient
  <2>3. QED
    BY <1>1, <1>4, <1>6, <1>9, <2>2, AttemptTold
<1>10. QED
  BY <1>3, <1>7, <1>8, <1>9 DEF charged

LEMMA PlanStep ==
  ASSUME PlanInv, [Next]_vars
  PROVE  PlanInv' /\ RefusalsTrue
<1>0. /\ now \in Nat /\ QuotaInv /\ MetersOK(meter, begun, now) /\ DOMAIN call = Calls
      /\ \A c \in Calls : PlanOK(call[c])
  BY DEF PlanInv, QuotaInv
<1>q. QuotaInv'
  BY <1>0, QuotaStep
<1>s. ASSUME NEW c \in Calls, Told(c) PROVE PlanInv' /\ RefusalsTrue
  BY <1>q, <1>s, StepKeepsPlans
<1>u. \A c \in Calls : DOMAIN call[c] = CallFields /\ (call[c].pc # "ended" => call[c].end # "unavailable")
  BY <1>0 DEF PlanOK
<1>1. CASE UNCHANGED call
  <2>1. PlanInv'
    BY <1>0, <1>q, <1>1 DEF PlanInv
  <2>2. RefusalsTrue
    BY <1>1, <1>u DEF RefusalsTrue
  <2>3. QED
    BY <2>1, <2>2
<1>2. CASE Tick \/ UNCHANGED vars
  BY <1>1, <1>2 DEF Tick, vars
<1>3. ASSUME NEW c \in Calls, Begin(c) PROVE Told(c)
  BY <1>3, BeginTold
<1>4. ASSUME NEW c \in Calls, ImagesCome(c) PROVE Told(c)
  BY <1>0, <1>4, <1>u, RoutingTold DEF ImagesCome
<1>5. ASSUME NEW c \in Calls,
             ImageMissing(c) \/ Served(c) \/ StreamEnds(c) \/ EmbedReturns(c)
      PROVE  Told(c)
  <2>1. \E how : how # "unavailable" /\ Ends(c, call[c], how)
    BY <1>5 DEF ImageMissing, Served, StreamEnds, EmbedReturns
  <2>2. QED
    BY <2>1, EndTold
<1>6. ASSUME NEW c \in Calls, RouterReplies(c) PROVE Told(c)
  <2> DEFINE r == call[c]
             meters(n) == [meter EXCEPT ![r.at] = WithTokens(@, n, now)]
  <2>1. /\ r.pc = "classifying" /\ ~Explicit(r.req)
        /\ TierFromCount(EstimateTokens(r.req)) # "HUGE"
        /\ DOMAIN r = CallFields /\ r.end # "unavailable"
    BY <1>0, <1>6 DEF RouterReplies, PlanOK
  <2>2. PICK words \in {{"TINY"}, {"HUGE", "TINY"}, {}}, n \in TokenCounts :
          IF ParsedTier(words) = "none" THEN Classify(c, r, r.left, meters(n))
                                        ELSE Attempt(c, Tiered(r, ParsedTier(words)), meters(n))
    BY <1>6 DEF RouterReplies
  <2>3. MetersOK(meters(n), begun, now)
    BY <1>0, TokensOK
  <2>4. ParsedTier(words) \in {"TINY", "LARGE", "none"}
    BY DEF ParsedTier
  <2> HIDE DEF r, meters
  <2>5. CASE Classify(c, r, r.left, meters(n))
    BY <1>0, <2>1, <2>3, <2>5, ClassifyTold
  <2>6. CASE ParsedTier(words) # "none" /\ Attempt(c, Tiered(r, ParsedTier(words)), meters(n))
    BY <1>0, <2>1, <2>3, <2>4, <2>6, TieredTold
  <2>7. QED
    BY <2>2, <2>5, <2>6
<1>7. ASSUME NEW c \in Calls, RouterFails(c) PROVE Told(c)
  <2>1. /\ Classify(c, call[c], call[c].left, meter) /\ ~Explicit(call[c].req)
        /\ TierFromCount(EstimateTokens(call[c].req)) # "HUGE"
        /\ DOMAIN call[c] = CallFields /\ call[c].end # "unavailable"
    BY <1>0, <1>7 DEF RouterFails, PlanOK
  <2>2. QED
    BY <1>0, <2>1, ClassifyTold
<1>8. ASSUME NEW c \in Calls, PinnedWakes(c) PROVE Told(c)
  <2>1. Ready(call[c]) /\ Len(call[c].left) = 1 /\ call[c].deadline \in Int
    BY <1>0, <1>8 DEF PinnedWakes, PlanOK
  <2>2. QED
    BY <1>0, <1>8, <2>1, PinnedTold DEF PinnedWakes
<1>9. ASSUME NEW c \in Calls, MintEnds(c) PROVE Told(c)
  <2> DEFINE r == [call[c] EXCEPT !.pc = "posting", !.body = FirstBody(call[c])]
             bare == [r EXCEPT !.since = 0]
             named(minted) == [r EXCEPT !.body = @ \cup {"cached"}, !.content = minted + Ttl]
  <2>1. Trying(call[c])
    BY <1>0, <1>9 DEF MintEnds, PlanOK
  <2>2. PlanOK(bare) /\ bare.end # "unavailable"
    BY <2>1 DEF PlanOK, Trying, OnItsWay, CallFields
  <2>3. ASSUME NEW minted PROVE PlanOK(named(minted)) /\ named(minted).end # "unavailable"
    BY <2>1 DEF PlanOK, Trying, OnItsWay, CallFields
  <2>4. Goto(c, bare) \/ \E minted : Goto(c, named(minted))
    BY <1>9 DEF MintEnds
  <2> HIDE DEF r, bare, named
  <2>5. QED
    BY <2>2, <2>3, <2>4 DEF Told, Goto
<1>10. ASSUME NEW c \in Calls, PostsAgain(c) PROVE Told(c)
  <2>1. PICK body, stage : Goto(c, [call[c] EXCEPT !.body = body, !.stage = stage])
    BY <1>10 DEF PostsAgain
  <2> DEFINE s == [call[c] EXCEPT !.body = body, !.stage = stage]
  <2>2. Trying(call[c]) /\ call[c].pc = "posting"
    BY <1>0, <1>10 DEF PostsAgain, PlanOK
  <2>3. PlanOK(s) /\ s.end # "unavailable"
    BY <2>2 DEF PlanOK, Trying, OnItsWay, CallFields
  <2> HIDE DEF s
  <2>4. QED
    BY <2>1, <2>3 DEF Told, Goto, s
<1>11. ASSUME NEW c \in Calls, Misformed(c) \/ TriesAgain(c) \/ StreamRuns(c) PROVE Told(c)
  <2>1. Trying(call[c])
    BY <1>0, <1>11 DEF Misformed, TriesAgain, StreamRuns, PlanOK
  <2>2. \/ Ends(c, call[c], "invalid")
        \/ \E phase : EnterChat(c, [call[c] EXCEPT !.phase = phase])
        \/ EnterChat(c, call[c])
    BY <1>11 DEF Misformed, TriesAgain, StreamRuns
  <2>3. \A phase : Trying([call[c] EXCEPT !.phase = phase])
    BY <2>1 DEF Trying, OnItsWay, CallFields
  <2>4. QED
    BY <2>1, <2>2, <2>3, EndTold, EnterTold
<1>12. ASSUME NEW c \in Calls, ChatRaises(c) PROVE Told(c)
  BY <1>12, RaiseTold
<1>13. ASSUME NEW c \in Calls, EmbedRaises(c) PROVE Told(c)
  <2>1. /\ call[c].req.kind = "embed" /\ DOMAIN call[c] = CallFields
        /\ call[c].end # "unavailable"
    BY <1>0, <1>13 DEF EmbedRaises, PlanOK
  <2>2. Ends(c, call[c], "failed") \/ EmbedFrom(c, call[c], call[c].left)
    BY <1>13 DEF EmbedRaises
  <2>3. QED
    BY <2>1, <2>2, EndTold, EmbedTold
<1>14. QED
  BY <1>2, <1>3, <1>4, <1>5, <1>6, <1>7, <1>8, <1>9, <1>10, <1>11, <1>12, <1>13, <1>s DEF Next, Answer

(* Where every request is among its candidates, whatever the order, the    *)
(* number of them, the failures and the other requests.                    *)
THEOREM RoutingPlanInv == Spec => []PlanInv
<1>1. Init => PlanInv
  <2>1. SUFFICES ASSUME Init PROVE PlanInv
    OBVIOUS
  <2>2. QuotaInv
    <3>1. now \in Nat
      BY <2>1, RoutingAssumption DEF Init
    <3>2. QED
      BY <2>1, <3>1, NewMeterOK DEF Init, QuotaInv, MetersOK, Metered
  <2>3. PlanOK(NewCall)
    BY DEF PlanOK, NewCall, CallFields
  <2>4. DOMAIN call = Calls /\ \A c \in Calls : call[c] = NewCall
    BY <2>1 DEF Init
  <2>5. QED
    BY <2>2, <2>3, <2>4 DEF PlanInv
<1>2. QED
  BY <1>1, PlanStep, PTL DEF Spec

(* The 503 is true: every candidate failed in this very call, or cannot be *)
(* used at this moment, whichever requests came between the attempts; and  *)
(* a named provider that only cools down is waited for until the deadline  *)
(* (the loops of chat over Router.pick).                                   *)
THEOREM RoutingUnavailableIsTrue == Spec => UnavailableIsTrue
<1>1. PlanInv /\ [Next]_vars => [RefusalsTrue]_vars
  BY PlanStep
<1>2. Spec => [][RefusalsTrue]_vars
  BY <1>1, RoutingPlanInv, PTL DEF Spec
<1>3. QED
  BY <1>2 DEF UnavailableIsTrue, RefusalsTrue, Refusal, Refused
=============================================================================
