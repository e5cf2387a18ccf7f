-------------------------- MODULE SubmissionProofs --------------------------
(***************************************************************************)
(* The limits on sending and what SMTP sessions say of themselves, proved  *)
(* for any number of sessions, any messages and any limits.                *)
(***************************************************************************)
EXTENDS SubmissionProperties, Integers, FiniteSetTheorems, SequenceTheorems, TLAPS

-----------------------------------------------------------------------------
(* How many entries of a history lie in an interval.                       *)
Within(q, t, len) == {k \in DOMAIN q : t <= q[k] /\ q[k] < t + len}
Covers(t, len, v) == t <= v /\ v < t + len

LEMMA Clock == MaxTime \in Nat /\ Minute \in Nat /\ Day \in Nat /\ Minute > 0 /\ Day >= Minute
BY RateAssumption DEF RateAssumption

LEMMA Limits == MaxPerMin \in Nat /\ MaxPerDay \in Nat
BY RateAssumption DEF RateAssumption

LEMMA InNat ==
  ASSUME NEW q \in Seq(Ticks), NEW t, NEW len
  PROVE  /\ IsFiniteSet(Within(q, t, len)) /\ In(q, t, len) = Cardinality(Within(q, t, len))
         /\ In(q, t, len) \in Nat
<1>1. DOMAIN q = 1..Len(q) /\ Len(q) \in Nat
  BY LenProperties
<1>2. IsFiniteSet(DOMAIN q)
  BY <1>1, FS_Interval
<1>3. Within(q, t, len) \in SUBSET DOMAIN q
  BY DEF Within
<1> QED
  BY <1>2, <1>3, FS_Subset, FS_CardinalityType DEF In, Within

LEMMA InAppend ==
  ASSUME NEW q \in Seq(Ticks), NEW v \in Ticks, NEW t \in Ticks, NEW len \in Nat
  PROVE  In(Append(q, v), t, len) = In(q, t, len) + (IF Covers(t, len, v) THEN 1 ELSE 0)
<1> DEFINE p == Append(q, v)
<1>1. /\ p \in Seq(Ticks) /\ Len(p) = Len(q) + 1 /\ p[Len(q) + 1] = v
      /\ \A i \in 1..Len(q) : p[i] = q[i]
  BY AppendProperties
<1>2. DOMAIN q = 1..Len(q) /\ DOMAIN p = 1..Len(p) /\ Len(q) \in Nat
  BY <1>1, LenProperties
<1> HIDE DEF p
<1>3. DOMAIN p = DOMAIN q \union {Len(q) + 1} /\ Len(q) + 1 \notin DOMAIN q
  BY <1>1, <1>2
<1>4. /\ IsFiniteSet(Within(q, t, len)) /\ In(q, t, len) = Cardinality(Within(q, t, len))
      /\ In(p, t, len) = Cardinality(Within(p, t, len)) /\ In(q, t, len) \in Nat
  BY <1>1, InNat
<1>5. CASE Covers(t, len, v)
  <2>1. Within(p, t, len) = Within(q, t, len) \union {Len(q) + 1}
    BY <1>1, <1>2, <1>3, <1>5 DEF Within, Covers
  <2>2. Len(q) + 1 \notin Within(q, t, len)
    BY <1>3 DEF Within
  <2>3. Cardinality(Within(q, t, len) \union {Len(q) + 1}) = Cardinality(Within(q, t, len)) + 1
    BY <1>4, <2>2, FS_AddElement
  <2>4. In(p, t, len) = In(q, t, len) + 1
    BY <1>4, <2>1, <2>3
  <2> QED
    BY <1>5, <2>4 DEF p
<1>6. CASE ~Covers(t, len, v)
  <2>1. Within(p, t, len) = Within(q, t, len)
    BY <1>1, <1>2, <1>3, <1>6 DEF Within, Covers
  <2> QED
    BY <1>4, <1>6, <2>1 DEF p
<1> QED
  BY <1>5, <1>6

LEMMA InNone ==
  ASSUME NEW q \in Seq(Ticks), NEW t, NEW len, \A k \in DOMAIN q : ~(t <= q[k])
  PROVE  In(q, t, len) = 0
<1>1. Within(q, t, len) = {}
  BY DEF Within
<1> QED
  BY <1>1, InNat, FS_EmptySet

-----------------------------------------------------------------------------
(* The windows.                                                            *)
Past(q) == q \in Seq(Ticks) /\ \A k \in DOMAIN q : q[k] <= now
RateTypes ==
  /\ now \in Ticks /\ win \in Window \union {NoWindow}
  /\ Past(counted) /\ Past(begun) /\ Past(restarts)

\* A window is begun by a message that counts, but for that of a minute of a full day.
WinOK ==
  win # NoWindow =>
    /\ win.minuteStart <= now /\ win.dayStart <= win.minuteStart
    /\ win.dayCount >= 1 /\ (win.minuteCount = 0 => MaxPerDay > 0 /\ win.dayCount >= MaxPerDay)
    /\ MaxPerMin > 0 => win.minuteCount <= MaxPerMin
    /\ MaxPerDay > 0 => win.dayCount <= MaxPerDay

\* What has counted since t, while the interval that begins there is not over: less
\* than the present window has if it is older, and otherwise one more minute's worth
\* at most, besides those of the days begun since.
MinuteInv ==
  MaxPerMin > 0 => \A t \in Ticks : Covers(t, Minute, now) /\ win # NoWindow =>
    \/ t > win.minuteStart /\ (In(counted, t, Minute) = 0 \/ In(counted, t, Minute) < win.minuteCount)
    \/ /\ t <= win.minuteStart
       /\ In(counted, t, Minute) < win.minuteCount + MaxPerMin * (1 + In(begun, t, Minute))

\* The same for the days, where a restart makes room for another one.
DayInv ==
  MaxPerDay > 0 => \A t \in Ticks : Covers(t, Day, now) =>
    \/ win = NoWindow /\ In(counted, t, Day) < MaxPerDay * (1 + In(restarts, t, Day))
    \/ win # NoWindow /\ t > win.dayStart /\ In(counted, t, Day) < win.dayCount
    \/ /\ win # NoWindow /\ t <= win.dayStart
       /\ In(counted, t, Day) < win.dayCount + MaxPerDay * (1 + In(restarts, t, Day))

RateInv == RateTypes /\ WinOK /\ MinuteInv /\ DayInv /\ LimitsHold

LEMMA WindowOrNot == NoWindow \notin Window
BY DEF NoWindow, Window

LEMMA PastAppend ==
  ASSUME now \in Ticks, NEW q, Past(q)
  PROVE  Append(q, now) \in Seq(Ticks) /\ \A k \in DOMAIN Append(q, now) : Append(q, now)[k] <= now
<1>1. q \in Seq(Ticks) /\ DOMAIN q = 1..Len(q) /\ Len(q) \in Nat
  BY LenProperties DEF Past
<1>2. /\ Append(q, now) \in Seq(Ticks) /\ Len(Append(q, now)) = Len(q) + 1
      /\ Append(q, now)[Len(q) + 1] = now
      /\ \A i \in 1..Len(q) : Append(q, now)[i] = q[i]
  BY <1>1, AppendProperties
<1>3. DOMAIN Append(q, now) = 1..(Len(q) + 1)
  BY <1>2, LenProperties
<1>4. now <= now
  BY Clock DEF Ticks
<1> QED
  BY <1>1, <1>2, <1>3, <1>4 DEF Past

\* A message, counted or refused, meets one of three windows.
LEMMA RolledWindow ==
  ASSUME RateTypes, WinOK
  PROVE  /\ Rolled \in Window
         /\ Rolled.minuteStart <= now /\ Rolled.dayStart <= Rolled.minuteStart
         /\ \/ /\ NewDay
               /\ Rolled.minuteStart = now /\ Rolled.dayStart = now
               /\ Rolled.minuteCount = 0 /\ Rolled.dayCount = 0
            \/ /\ ~NewDay /\ win \in Window /\ win # NoWindow
               /\ now - win.minuteStart >= Minute
               /\ Rolled.minuteStart = now /\ Rolled.dayStart = win.dayStart
               /\ Rolled.minuteCount = 0 /\ Rolled.dayCount = win.dayCount
            \/ ~NewDay /\ win \in Window /\ win # NoWindow /\ Rolled = win
<1>1. now \in Nat /\ now <= now /\ now \in Ticks
  BY Clock DEF RateTypes, Ticks
<1>2. CASE NewDay
  BY <1>1, <1>2 DEF Rolled, Window
<1>3. CASE ~NewDay
  <2>1. win \in Window /\ win # NoWindow
    BY <1>3 DEF NewDay, RateTypes
  <2>2. /\ win.minuteStart \in Ticks /\ win.dayStart \in Ticks /\ win.minuteCount \in Nat /\ win.dayCount \in Nat
        /\ win.minuteStart <= now /\ win.dayStart <= win.minuteStart
    BY <2>1 DEF Window, WinOK
  <2>3. CASE now - win.minuteStart >= Minute
    <3>1. Rolled = [win EXCEPT !.minuteStart = now, !.minuteCount = 0]
      BY <1>3, <2>3 DEF Rolled
    <3>2. /\ Rolled \in Window /\ Rolled.minuteStart = now /\ Rolled.dayStart = win.dayStart
          /\ Rolled.minuteCount = 0 /\ Rolled.dayCount = win.dayCount
      BY <1>1, <2>1, <3>1 DEF Window
    <3>3. win.dayStart <= now
      BY <1>1, <2>2, Clock DEF Ticks
    <3> QED
      BY <1>1, <1>3, <2>1, <2>3, <3>2, <3>3
  <2>4. CASE ~(now - win.minuteStart >= Minute)
    <3>1. Rolled = win
      BY <1>3, <2>4 DEF Rolled
    <3> QED
      BY <1>3, <2>1, <2>2, <3>1
  <2> QED
    BY <2>3, <2>4
<1> QED
  BY <1>2, <1>3

\* What a message does to the windows and to the counts; i is 1 if it counts itself.
Message(i) ==
  /\ i \in {0, 1} /\ (i = 1 => ~Full(Rolled)) /\ (i = 0 => Full(Rolled))
  /\ win' \in Window
  /\ win'.minuteStart = Rolled.minuteStart /\ win'.dayStart = Rolled.dayStart
  /\ win'.minuteCount = Rolled.minuteCount + i /\ win'.dayCount = Rolled.dayCount + i
  /\ counted' = (IF i = 1 THEN Append(counted, now) ELSE counted)
  /\ begun' = (IF NewDay THEN Append(begun, now) ELSE begun)
  /\ UNCHANGED clockVars

LEMMA OneMore ==
  ASSUME NEW w \in Window, NEW v, v = [w EXCEPT !.minuteCount = @ + 1, !.dayCount = @ + 1]
  PROVE  /\ v \in Window /\ v.minuteStart = w.minuteStart /\ v.dayStart = w.dayStart
         /\ v.minuteCount = w.minuteCount + 1 /\ v.dayCount = w.dayCount + 1
<1>1. w.minuteCount + 1 \in Nat /\ w.dayCount + 1 \in Nat
  BY DEF Window
<1>2. v = [w EXCEPT !.minuteCount = w.minuteCount + 1, !.dayCount = w.dayCount + 1]
  BY DEF Window
<1> QED
  BY <1>1, <1>2 DEF Window

LEMMA MessageFacts ==
  ASSUME RateInv, Counts \/ Refuses, UNCHANGED clockVars
  PROVE  \E i \in {0, 1} : Message(i)
<1>0. Rolled \in Window
  BY RolledWindow DEF RateInv
<1>1. CASE Counts
  <2>1. win' = [Rolled EXCEPT !.minuteCount = @ + 1, !.dayCount = @ + 1]
    BY <1>1 DEF Counts
  <2>2. /\ win' \in Window
        /\ win'.minuteStart = Rolled.minuteStart /\ win'.dayStart = Rolled.dayStart
        /\ win'.minuteCount = Rolled.minuteCount + 1 /\ win'.dayCount = Rolled.dayCount + 1
    BY <1>0, <2>1, OneMore
  <2>3. Message(1)
    BY <1>1, <2>2 DEF Message, Counts, Began
  <2> QED
    BY <2>3
<1>2. CASE Refuses
  <2>1. /\ Rolled.minuteCount = Rolled.minuteCount + 0 /\ Rolled.dayCount = Rolled.dayCount + 0
    BY <1>0 DEF Window
  <2>2. Message(0)
    BY <1>0, <1>2, <2>1 DEF Message, Refuses, Began
  <2> QED
    BY <2>2
<1> QED
  BY <1>1, <1>2

LEMMA MessageCounts ==
  ASSUME RateTypes, NEW i, Message(i), NEW t \in Ticks, NEW len \in Nat
  PROVE  /\ In(counted, t, len) \in Nat /\ In(begun, t, len) \in Nat /\ In(restarts, t, len) \in Nat
         /\ In(counted', t, len) = In(counted, t, len) + (IF Covers(t, len, now) THEN i ELSE 0)
         /\ In(begun', t, len) = In(begun, t, len) + (IF Covers(t, len, now) /\ NewDay THEN 1 ELSE 0)
         /\ In(restarts', t, len) = In(restarts, t, len)
<1>1. /\ counted \in Seq(Ticks) /\ begun \in Seq(Ticks) /\ restarts \in Seq(Ticks) /\ now \in Ticks
      /\ restarts' = restarts
  BY DEF RateTypes, Past, Message, clockVars
<1>2. In(counted, t, len) \in Nat /\ In(begun, t, len) \in Nat /\ In(restarts, t, len) \in Nat
  BY <1>1, InNat
<1>3. In(counted', t, len) = In(counted, t, len) + (IF Covers(t, len, now) THEN i ELSE 0)
  <2>1. CASE i = 1
    BY <1>1, <2>1, InAppend DEF Message
  <2>2. CASE i = 0
    BY <1>2, <2>2 DEF Message
  <2> QED
    BY <2>1, <2>2 DEF Message
<1>4. In(begun', t, len) = In(begun, t, len) + (IF Covers(t, len, now) /\ NewDay THEN 1 ELSE 0)
  <2>1. CASE NewDay
    BY <1>1, <2>1, InAppend DEF Message
  <2>2. CASE ~NewDay
    BY <1>2, <2>2 DEF Message
  <2> QED
    BY <2>1, <2>2
<1> QED
  BY <1>1, <1>2, <1>3, <1>4

LEMMA MessageTypes ==
  ASSUME RateInv, NEW i, Message(i)
  PROVE  RateTypes' /\ WinOK'
<1>0. RateTypes /\ WinOK
  BY DEF RateInv
<1>1. RateTypes'
  <2>1. now' = now /\ restarts' = restarts /\ now \in Ticks /\ win' \in Window
    BY <1>0 DEF Message, clockVars, RateTypes
  <2>2. Past(counted)'
    BY <1>0, <2>1, PastAppend DEF Message, RateTypes, Past
  <2>3. Past(begun)'
    BY <1>0, <2>1, PastAppend DEF Message, RateTypes, Past
  <2> QED
    BY <1>0, <2>1, <2>2, <2>3 DEF RateTypes, Past
<1>2. WinOK'
  <2> DEFINE r == Rolled
  <2>1. /\ r.minuteStart \in Ticks /\ r.dayStart \in Ticks /\ r.minuteCount \in Nat /\ r.dayCount \in Nat
        /\ r.minuteStart <= now /\ r.dayStart <= r.minuteStart
    BY <1>0, RolledWindow DEF Window
  <2>2. /\ MaxPerMin > 0 => r.minuteCount <= MaxPerMin
        /\ MaxPerDay > 0 => r.dayCount <= MaxPerDay
        /\ r.minuteCount = 0 \/ r.dayCount >= 1
    <3>1. CASE r.minuteCount = 0 /\ r.dayCount = 0
      BY <3>1, Limits
    <3>2. CASE win # NoWindow /\ r.dayCount = win.dayCount /\ (r.minuteCount = 0 \/ r.minuteCount = win.minuteCount)
      BY <1>0, <2>1, <3>2, Limits DEF WinOK
    <3>3. \/ r.minuteCount = 0 /\ r.dayCount = 0
          \/ win # NoWindow /\ r.dayCount = win.dayCount /\ (r.minuteCount = 0 \/ r.minuteCount = win.minuteCount)
      BY <1>0, RolledWindow
    <3> QED
      BY <3>1, <3>2, <3>3
  <2>3. ~Full(r) =>
          /\ MaxPerMin > 0 => r.minuteCount < MaxPerMin
          /\ MaxPerDay > 0 => r.dayCount < MaxPerDay
    BY <2>1, Limits DEF Full
  <2>4. CASE i = 1
    <3>1. /\ win'.minuteStart = r.minuteStart /\ win'.dayStart = r.dayStart /\ now' = now
          /\ win'.minuteCount = r.minuteCount + 1 /\ win'.dayCount = r.dayCount + 1 /\ ~Full(r)
      BY <2>4 DEF Message, clockVars
    <3> HIDE DEF r
    <3> QED
      BY <2>1, <2>2, <2>3, <3>1, Limits DEF WinOK
  <2>5. CASE i = 0
    <3>1. /\ win'.minuteStart = r.minuteStart /\ win'.dayStart = r.dayStart /\ now' = now
          /\ win'.minuteCount = r.minuteCount /\ win'.dayCount = r.dayCount /\ Full(r)
      BY <2>1, <2>5 DEF Message, clockVars
    <3>2. /\ r.minuteCount = 0 => MaxPerDay > 0 /\ r.dayCount >= MaxPerDay
          /\ r.dayCount >= 1
      <4> HIDE DEF r
      <4>1. r.minuteCount = 0 => MaxPerDay > 0 /\ r.dayCount >= MaxPerDay
        BY <2>1, <3>1, Limits DEF Full
      <4> QED
        BY <2>1, <2>2, <4>1, Limits
    <3> HIDE DEF r
    <3> QED
      BY <2>1, <2>2, <3>1, <3>2 DEF WinOK
  <2> QED
    BY <2>4, <2>5 DEF Message
<1> QED
  BY <1>1, <1>2

LEMMA Products ==
  ASSUME NEW m \in Nat, NEW d \in Nat
  PROVE  /\ m * (1 + d) \in Nat /\ m * (1 + (d + 1)) = m * (1 + d) + m /\ m * (2 + d) = m * (1 + d) + m
         /\ m <= m * (1 + d) /\ m * (2 + (d + 1)) = m * (2 + d) + m
OBVIOUS

\* What the invariant says of one interval that is not over, from the limit at its end.
MinuteAt(t) ==
  win # NoWindow =>
    \/ t > win.minuteStart /\ (In(counted, t, Minute) = 0 \/ In(counted, t, Minute) < win.minuteCount)
    \/ /\ t <= win.minuteStart
       /\ In(counted, t, Minute) < win.minuteCount + MaxPerMin * (1 + In(begun, t, Minute))
DayAt(t) ==
  \/ win = NoWindow /\ In(counted, t, Day) < MaxPerDay * (1 + In(restarts, t, Day))
  \/ win # NoWindow /\ t > win.dayStart /\ In(counted, t, Day) < win.dayCount
  \/ /\ win # NoWindow /\ t <= win.dayStart
     /\ In(counted, t, Day) < win.dayCount + MaxPerDay * (1 + In(restarts, t, Day))

LEMMA MinuteMessage ==
  ASSUME RateInv, NEW i, Message(i), MaxPerMin > 0, NEW t \in Ticks
  PROVE  /\ Covers(t, Minute, now) => MinuteAt(t)'
         /\ In(counted', t, Minute) < MaxPerMin * (2 + In(begun', t, Minute))
<1> DEFINE S == In(counted, t, Minute) D == In(begun, t, Minute)
           S1 == In(counted', t, Minute) D1 == In(begun', t, Minute) r == Rolled
<1>0. RateTypes /\ WinOK /\ MaxPerMin \in Nat
  BY Limits DEF RateInv
<1>1. /\ S \in Nat /\ D \in Nat
      /\ S1 = S + (IF Covers(t, Minute, now) THEN i ELSE 0)
      /\ D1 = D + (IF Covers(t, Minute, now) /\ NewDay THEN 1 ELSE 0)
  BY <1>0, MessageCounts, Clock
<1>2. S < MaxPerMin * (2 + D)
  BY DEF RateInv, LimitsHold, MinuteLimit
<1>3. Covers(t, Minute, now) => MinuteAt(t)
  BY DEF RateInv, MinuteInv, MinuteAt
<1>4. t \in Nat /\ now \in Nat
  BY <1>0, Clock DEF RateTypes, Ticks
<1>5. /\ win' # NoWindow /\ win'.minuteStart = r.minuteStart /\ win'.minuteCount = r.minuteCount + i
      /\ r.minuteCount \in Nat /\ r.minuteStart \in Nat /\ i \in {0, 1}
  BY <1>0, RolledWindow, WindowOrNot, Clock DEF Message, Window, Ticks
<1>6. CASE ~Covers(t, Minute, now)
  <2>1. S1 = S /\ D1 = D
    BY <1>1, <1>6
  <2> QED
    BY <1>2, <1>6, <2>1
<1>7. CASE Covers(t, Minute, now)
  <2>0. S1 = S + i /\ D1 = D + (IF NewDay THEN 1 ELSE 0) /\ S1 \in Nat /\ D1 \in Nat
    BY <1>1, <1>5, <1>7
  <2>1. CASE NewDay
    <3>1. r.minuteStart = now /\ r.minuteCount = 0
      BY <1>0, <2>1, RolledWindow
    <3>2. S1 < win'.minuteCount + MaxPerMin * (1 + D1)
      <4>1. D1 = D + 1 /\ MaxPerMin * (1 + (D + 1)) = MaxPerMin * (2 + D)
        BY <1>0, <1>1, <2>0, <2>1, Products
      <4>2. MaxPerMin * (1 + D1) = MaxPerMin * (2 + D)
        BY <4>1
      <4>3. MaxPerMin * (2 + D) \in Int
        BY <1>0, <1>1
      <4> HIDE DEF S, D, S1, D1, r
      <4> QED
        BY <1>1, <1>2, <1>5, <2>0, <3>1, <4>2, <4>3
    <3>3. t <= win'.minuteStart
      BY <1>5, <1>7, <3>1 DEF Covers
    <3>4. MinuteAt(t)'
      BY <3>2, <3>3 DEF MinuteAt
    <3>5. S1 < MaxPerMin * (2 + D1)
      <4>1. MaxPerMin * (2 + D1) = MaxPerMin * (1 + D1) + MaxPerMin /\ MaxPerMin * (1 + D1) \in Nat
        BY <1>0, <2>0, Products
      <4>2. win'.minuteCount <= MaxPerMin /\ win'.minuteCount \in Nat
        BY <1>0, <1>5, <3>1
      <4> HIDE DEF S, D, S1, D1, r
      <4> QED
        BY <1>0, <2>0, <3>2, <4>1, <4>2
    <3> QED
      BY <3>4, <3>5
  <2>2. CASE ~NewDay
    <3>0. win # NoWindow /\ win \in Window /\ D1 = D /\ win.minuteCount \in Nat /\ win.minuteStart \in Nat
      BY <1>0, <2>0, <2>2, RolledWindow, Clock, <1>1 DEF Window, Ticks
    <3>1. win'.minuteCount <= MaxPerMin /\ win'.minuteCount \in Nat
      BY <1>0, <1>5, MessageTypes, Limits DEF WinOK, Window
    <3>2. /\ MaxPerMin * (2 + D) = MaxPerMin * (1 + D) + MaxPerMin
          /\ MaxPerMin * (1 + D) \in Nat /\ MaxPerMin <= MaxPerMin * (1 + D)
      BY <1>0, <1>1, Products
    <3>3. \/ t > win.minuteStart /\ (S = 0 \/ S < win.minuteCount)
          \/ t <= win.minuteStart /\ S < win.minuteCount + MaxPerMin * (1 + D)
      BY <1>3, <1>7, <3>0 DEF MinuteAt
    <3>4. win.minuteCount <= MaxPerMin
      BY <1>0, <3>0 DEF WinOK
    <3>5. \/ t > win'.minuteStart /\ (S1 = 0 \/ S1 < win'.minuteCount)
          \/ t <= win'.minuteStart /\ S1 < win'.minuteCount + MaxPerMin * (1 + D)
      <4>1. CASE now - win.minuteStart >= Minute /\ r.minuteStart = now /\ r.minuteCount = 0
        <5>1. t > win.minuteStart /\ t <= now
          BY <1>4, <1>7, <3>0, <4>1, Clock DEF Covers
        <5> HIDE DEF S, D, S1, D1, r
        <5>2. S < MaxPerMin
          BY <1>0, <1>1, <1>4, <3>0, <3>3, <3>4, <5>1
        <5>3. S1 < win'.minuteCount + MaxPerMin * (1 + D)
          BY <1>0, <1>1, <1>5, <2>0, <3>2, <4>1, <5>2
        <5> QED
          BY <1>4, <1>5, <4>1, <5>1, <5>3
      <4>2. CASE r = win
        <5>1. CASE t > win.minuteStart
          <6>1. i = 1 => win.minuteCount # 0
            <7>1. i = 1 => ~Full(win)
              BY <4>2 DEF Message
            <7> QED
              BY <1>0, <3>0, <7>1 DEF Full, WinOK
          <6>2. S = 0 \/ S < win.minuteCount
            BY <1>4, <3>0, <3>3, <5>1
          <6>3. i = 1 => S < win.minuteCount
            BY <1>1, <3>0, <6>1, <6>2
          <6>4. win'.minuteCount = win.minuteCount + i /\ win'.minuteStart = win.minuteStart
            BY <1>5, <4>2
          <6> HIDE DEF S, D, S1, D1, r
          <6>5. S1 = 0 \/ S1 < win'.minuteCount
            BY <1>1, <1>5, <2>0, <3>0, <6>2, <6>3, <6>4
          <6> QED
            BY <5>1, <6>4, <6>5
        <5>2. CASE t <= win.minuteStart
          <6>1. S < win.minuteCount + MaxPerMin * (1 + D)
            BY <1>4, <3>0, <3>3, <5>2
          <6>2. win'.minuteCount = win.minuteCount + i /\ win'.minuteStart = win.minuteStart
            BY <1>5, <4>2
          <6> HIDE DEF S, D, S1, D1, r
          <6>3. S1 < win'.minuteCount + MaxPerMin * (1 + D)
            BY <1>1, <1>5, <2>0, <3>0, <3>2, <6>1, <6>2
          <6> QED
            BY <5>2, <6>2, <6>3
        <5> QED
          BY <1>4, <3>0, <5>1, <5>2
      <4> QED
        BY <1>0, <2>2, <4>1, <4>2, RolledWindow
    <3>6. MinuteAt(t)'
      BY <3>0, <3>5 DEF MinuteAt
    <3>7. S1 < MaxPerMin * (2 + D)
      <4> HIDE DEF S, D, S1, D1, r
      <4> QED
        BY <1>0, <2>0, <3>1, <3>2, <3>5
    <3> QED
      BY <3>0, <3>6, <3>7
  <2> QED
    BY <2>1, <2>2
<1> QED
  BY <1>6, <1>7

LEMMA DayMessage ==
  ASSUME RateInv, NEW i, Message(i), MaxPerDay > 0, NEW t \in Ticks
  PROVE  /\ Covers(t, Day, now) => DayAt(t)'
         /\ In(counted', t, Day) < MaxPerDay * (2 + In(restarts', t, Day))
<1> DEFINE S == In(counted, t, Day) R == In(restarts, t, Day) S1 == In(counted', t, Day) r == Rolled
<1>0. RateTypes /\ WinOK /\ MaxPerDay \in Nat
  BY Limits DEF RateInv
<1>1. /\ S \in Nat /\ R \in Nat /\ In(restarts', t, Day) = R
      /\ S1 = S + (IF Covers(t, Day, now) THEN i ELSE 0)
  BY <1>0, MessageCounts, Clock
<1>2. S < MaxPerDay * (2 + R)
  BY DEF RateInv, LimitsHold, DayLimit
<1>3. Covers(t, Day, now) => DayAt(t)
  BY DEF RateInv, DayInv, DayAt
<1>4. t \in Nat /\ now \in Nat
  BY <1>0, Clock DEF RateTypes, Ticks
<1>5. /\ win' # NoWindow /\ win'.dayStart = r.dayStart /\ win'.dayCount = r.dayCount + i
      /\ r.dayCount \in Nat /\ r.dayStart \in Nat /\ i \in {0, 1}
  BY <1>0, RolledWindow, WindowOrNot, Clock DEF Message, Window, Ticks
<1>6. CASE ~Covers(t, Day, now)
  <2>1. S1 = S
    BY <1>1, <1>6
  <2> QED
    BY <1>1, <1>2, <1>6, <2>1
<1>7. CASE Covers(t, Day, now)
  <2>0. S1 = S + i /\ S1 \in Nat
    BY <1>1, <1>5, <1>7
  <2>1. win'.dayCount <= MaxPerDay /\ win'.dayCount \in Nat /\ win'.dayCount >= 1
    BY <1>0, <1>5, MessageTypes, Limits DEF WinOK, Window
  <2>2. /\ MaxPerDay * (2 + R) = MaxPerDay * (1 + R) + MaxPerDay
        /\ MaxPerDay * (1 + R) \in Nat /\ MaxPerDay <= MaxPerDay * (1 + R)
    BY <1>0, <1>1, Products
  <2>3. DayAt(t)
    BY <1>3, <1>7
  <2>4. \/ t > win'.dayStart /\ S1 < win'.dayCount
        \/ t <= win'.dayStart /\ S1 < win'.dayCount + MaxPerDay * (1 + R)
    <3>1. CASE NewDay
      <4>1. r.dayStart = now /\ r.dayCount = 0 /\ t <= now
        BY <1>0, <1>7, <3>1, RolledWindow DEF Covers
      <4>2. S < MaxPerDay * (1 + R)
        <5>1. CASE win = NoWindow
          BY <2>3, <5>1 DEF DayAt
        <5>2. CASE win # NoWindow
          <6>1. win \in Window /\ now - win.dayStart >= Day
            BY <1>0, <3>1, <5>2 DEF NewDay, RateTypes
          <6>2. win.dayStart \in Nat /\ win.dayCount \in Nat /\ win.dayCount <= MaxPerDay
            BY <1>0, <5>2, <6>1, Clock DEF Window, Ticks, WinOK
          <6>3. t > win.dayStart
            BY <1>4, <1>7, <6>1, <6>2, Clock DEF Covers
          <6>4. S < win.dayCount
            BY <1>4, <2>3, <5>2, <6>2, <6>3 DEF DayAt
          <6> HIDE DEF S, R
          <6> QED
            BY <1>0, <1>1, <2>2, <6>2, <6>4
        <5> QED
          BY <5>1, <5>2
      <4> HIDE DEF S, R, S1, r
      <4>3. S1 < win'.dayCount + MaxPerDay * (1 + R)
        BY <1>1, <1>5, <2>0, <2>2, <4>1, <4>2
      <4> QED
        BY <1>5, <4>1, <4>3
    <3>2. CASE ~NewDay
      <4>1. /\ win # NoWindow /\ win \in Window /\ r.dayStart = win.dayStart /\ r.dayCount = win.dayCount
        BY <1>0, <3>2, RolledWindow
      <4>2. \/ t > win.dayStart /\ S < win.dayCount
            \/ t <= win.dayStart /\ S < win.dayCount + MaxPerDay * (1 + R)
        BY <2>3, <4>1 DEF DayAt
      <4>3. win'.dayCount = win.dayCount + i /\ win'.dayStart = win.dayStart /\ win.dayCount \in Nat
        BY <1>5, <4>1
      <4> HIDE DEF S, R, S1, r
      <4> QED
        BY <1>1, <1>5, <2>0, <2>2, <4>2, <4>3
    <3> QED
      BY <3>1, <3>2
  <2>5. DayAt(t)'
    BY <1>1, <1>5, <2>4 DEF DayAt
  <2>6. S1 < MaxPerDay * (2 + R)
    <3> HIDE DEF S, R, S1, r
    <3> QED
      BY <1>0, <2>0, <2>1, <2>2, <2>4
  <2> QED
    BY <1>1, <2>5, <2>6
<1> QED
  BY <1>6, <1>7

LEMMA MessageStep ==
  ASSUME RateInv, Counts \/ Refuses, UNCHANGED clockVars
  PROVE  RateInv'
<1>1. PICK i \in {0, 1} : Message(i)
  BY MessageFacts
<1>2. now' = now
  BY DEF clockVars
<1>3. MinuteInv' /\ MinuteLimit'
  BY <1>1, <1>2, MinuteMessage DEF MinuteInv, MinuteLimit, MinuteAt
<1>4. DayInv' /\ DayLimit'
  BY <1>1, <1>2, DayMessage DEF DayInv, DayLimit, DayAt
<1> QED
  BY <1>1, <1>3, <1>4, MessageTypes DEF RateInv, LimitsHold

\* An interval that begins only now is empty.
LEMMA TickStep ==
  ASSUME RateInv, ClockTicks
  PROVE  RateInv'
<1>0. RateTypes /\ WinOK
  BY DEF RateInv
<1>1. /\ now' = now + 1 /\ win' = win /\ counted' = counted /\ begun' = begun /\ restarts' = restarts
      /\ now < MaxTime
  BY DEF ClockTicks, limitVars
<1>2. now \in Nat /\ now' \in Ticks /\ now \in Ticks
  BY <1>0, <1>1, Clock DEF RateTypes, Ticks
<1>3. \A q : Past(q) => q \in Seq(Ticks) /\ \A k \in DOMAIN q : q[k] \in Nat /\ q[k] <= now
  <2> TAKE q
  <2>1. Past(q) => q \in Seq(Ticks) /\ DOMAIN q = 1..Len(q) /\ \A k \in 1..Len(q) : q[k] \in Ticks
    BY LenProperties, ElementOfSeq DEF Past
  <2> QED
    BY <2>1, Clock DEF Past, Ticks
<1>4. RateTypes'
  <2>1. \A q : Past(q) => \A k \in DOMAIN q : q[k] <= now'
    BY <1>1, <1>2, <1>3
  <2>2. Past(counted)' /\ Past(begun)' /\ Past(restarts)'
    BY <1>0, <1>1, <2>1 DEF RateTypes, Past
  <2> QED
    BY <1>0, <1>1, <1>2, <2>2 DEF RateTypes
<1>5. win # NoWindow =>
        /\ win \in Window /\ win.minuteStart \in Nat /\ win.dayStart \in Nat /\ win.minuteCount \in Nat /\ win.dayCount \in Nat
        /\ win.minuteStart <= now /\ win.dayStart <= now /\ win.dayCount >= 1
  BY <1>0, <1>2, Clock DEF RateTypes, WinOK, Window, Ticks
<1>6. WinOK'
  BY <1>0, <1>1, <1>2, <1>5 DEF WinOK
<1>7. ASSUME NEW len \in Nat, NEW t \in Ticks, Covers(t, len, now'), ~Covers(t, len, now)
      PROVE  t > now /\ In(counted, t, len) = 0 /\ In(restarts, t, len) \in Nat
  <2>1. t > now /\ t \in Nat
    BY <1>1, <1>2, <1>7, Clock DEF Covers, Ticks
  <2>2. \A k \in DOMAIN counted : ~(t <= counted[k])
    BY <1>0, <1>2, <1>3, <2>1 DEF RateTypes
  <2> QED
    BY <1>0, <2>1, <2>2, InNone, InNat DEF RateTypes, Past
<1>8. MinuteInv'
  <2> SUFFICES ASSUME MaxPerMin > 0, NEW t \in Ticks, Covers(t, Minute, now') PROVE MinuteAt(t)
    BY <1>1 DEF MinuteInv, MinuteAt
  <2>1. CASE Covers(t, Minute, now)
    BY <2>1 DEF RateInv, MinuteInv, MinuteAt
  <2>2. CASE ~Covers(t, Minute, now)
    <3>1. t > now /\ In(counted, t, Minute) = 0 /\ t \in Nat
      BY <1>7, <2>2, Clock DEF Ticks
    <3>2. win # NoWindow => t > win.minuteStart
      BY <1>2, <1>5, <3>1
    <3> QED
      BY <3>1, <3>2 DEF MinuteAt
  <2> QED
    BY <2>1, <2>2
<1>9. DayInv'
  <2> SUFFICES ASSUME MaxPerDay > 0, NEW t \in Ticks, Covers(t, Day, now') PROVE DayAt(t)
    BY <1>1 DEF DayInv, DayAt
  <2>1. CASE Covers(t, Day, now)
    BY <2>1 DEF RateInv, DayInv, DayAt
  <2>2. CASE ~Covers(t, Day, now)
    <3>1. t > now /\ In(counted, t, Day) = 0 /\ t \in Nat /\ In(restarts, t, Day) \in Nat
      BY <1>7, <2>2, Clock DEF Ticks
    <3>2. win # NoWindow => t > win.dayStart /\ 0 < win.dayCount
      BY <1>2, <1>5, <3>1
    <3>3. MaxPerDay <= MaxPerDay * (1 + In(restarts, t, Day)) /\ MaxPerDay * (1 + In(restarts, t, Day)) \in Nat
      BY <3>1, Limits, Products
    <3>4. 0 < MaxPerDay * (1 + In(restarts, t, Day))
      BY <3>3, Limits
    <3> QED
      BY <3>1, <3>2, <3>4 DEF DayAt
  <2> QED
    BY <2>1, <2>2
<1>10. LimitsHold'
  BY <1>1 DEF RateInv, LimitsHold, MinuteLimit, DayLimit
<1> QED
  BY <1>4, <1>6, <1>8, <1>9, <1>10 DEF RateInv

\* A restart makes room for another day.
LEMMA ForgetStep ==
  ASSUME RateInv, Forgets
  PROVE  RateInv'
<1>0. RateTypes
  BY DEF RateInv
<1>1. /\ win' = NoWindow /\ now' = now /\ counted' = counted /\ begun' = begun
      /\ restarts' = Append(restarts, now)
  BY DEF Forgets
<1>2. now \in Ticks /\ restarts \in Seq(Ticks) /\ counted \in Seq(Ticks)
  BY <1>0 DEF RateTypes, Past
<1>3. RateTypes' /\ WinOK' /\ MinuteInv' /\ MinuteLimit'
  <2>1. Past(restarts)'
    BY <1>0, <1>1, <1>2, PastAppend DEF RateTypes, Past
  <2>2. RateTypes'
    BY <1>0, <1>1, <2>1 DEF RateTypes, Past
  <2>3. WinOK' /\ MinuteInv'
    BY <1>1 DEF WinOK, MinuteInv
  <2>4. MinuteLimit'
    BY <1>1 DEF RateInv, LimitsHold, MinuteLimit
  <2> QED
    BY <2>2, <2>3, <2>4
<1>4. ASSUME MaxPerDay > 0, NEW t \in Ticks
      PROVE  /\ Covers(t, Day, now) => DayAt(t)'
             /\ In(counted, t, Day) < MaxPerDay * (2 + In(restarts', t, Day))
  <2> DEFINE S == In(counted, t, Day) R == In(restarts, t, Day) R1 == In(restarts', t, Day)
  <2>1. /\ S \in Nat /\ R \in Nat /\ MaxPerDay \in Nat
        /\ R1 = R + (IF Covers(t, Day, now) THEN 1 ELSE 0)
    BY <1>1, <1>2, InNat, InAppend, Clock, Limits
  <2>2. S < MaxPerDay * (2 + R)
    BY <1>4 DEF RateInv, LimitsHold, DayLimit
  <2>3. CASE Covers(t, Day, now)
    <3>1. R1 = R + 1 /\ MaxPerDay * (1 + (R + 1)) = MaxPerDay * (2 + R)
      BY <2>1, <2>3, Products
    <3>2. MaxPerDay * (1 + R1) = MaxPerDay * (2 + R)
      BY <3>1
    <3>3. MaxPerDay * (2 + R1) = MaxPerDay * (1 + R1) + MaxPerDay /\ MaxPerDay * (1 + R1) \in Nat
      BY <2>1, <3>1, Products
    <3>4. S < MaxPerDay * (1 + R1)
      BY <2>2, <3>2
    <3> HIDE DEF S, R, R1
    <3>5. S < MaxPerDay * (2 + R1)
      BY <2>1, <3>3, <3>4
    <3> USE DEF S, R, R1
    <3> QED
      BY <1>1, <3>4, <3>5 DEF DayAt
  <2>4. CASE ~Covers(t, Day, now)
    BY <2>1, <2>2, <2>4
  <2> QED
    BY <2>3, <2>4
<1>5. DayInv' /\ DayLimit'
  BY <1>1, <1>4 DEF DayInv, DayLimit, DayAt
<1> QED
  BY <1>3, <1>5 DEF RateInv, LimitsHold

LEMMA RateStep == RateInv /\ [RateNext]_rateVars => RateInv'
<1> SUFFICES ASSUME RateInv, [RateNext]_rateVars PROVE RateInv'
  OBVIOUS
<1>1. CASE UNCHANGED rateVars
  BY <1>1 DEF rateVars, RateInv, RateTypes, WinOK, MinuteInv, DayInv, LimitsHold, MinuteLimit, DayLimit, Past
<1> QED
  BY <1>1, MessageStep, TickStep, ForgetStep DEF RateNext

LEMMA RateStart == RateInit => RateInv
<1> SUFFICES ASSUME RateInit PROVE RateInv
  OBVIOUS
<1>1. now = 0 /\ now \in Ticks /\ win = NoWindow /\ <<>> \in Seq(Ticks) /\ DOMAIN <<>> = {}
  BY Clock, EmptySeq DEF RateInit, Ticks
<1>2. RateTypes /\ WinOK /\ MinuteInv
  BY <1>1 DEF RateInit, RateTypes, Past, WinOK, MinuteInv
<1>3. ASSUME NEW t, NEW len PROVE In(<<>>, t, len) = 0
  BY <1>1, InNone
<1>4. \A t, len : In(counted, t, len) = 0 /\ In(begun, t, len) = 0 /\ In(restarts, t, len) = 0
  BY <1>3 DEF RateInit
<1>5. DayInv /\ LimitsHold
  BY <1>1, <1>4, Limits DEF DayInv, LimitsHold, MinuteLimit, DayLimit
<1> QED
  BY <1>2, <1>5 DEF RateInv

-----------------------------------------------------------------------------
(* SMTP sessions do with the windows what checkRateLimit does, and no more.*)
THEOREM RateCorrect == Spec => RateSpec
<1>1. Init => RateInit
  BY DEF Init
<1>2. [Next]_vars => [RateNext]_rateVars
  <2> SUFFICES ASSUME [Next]_vars PROVE RateNext \/ UNCHANGED rateVars
    OBVIOUS
  <2>1. ASSUME NEW s \in Sessions, Session(s) PROVE RateNext \/ UNCHANGED rateVars
    <3>1. CASE \/ Connect(s) \/ Auth(s) \/ Mail(s) \/ Rcpt(s) \/ Reset(s) \/ Logout(s)
               \/ Data(s) \/ Unreadable(s) \/ Deliver(s) \/ Refused(s) \/ Succeeds(s)
      BY <3>1 DEF Connect, Auth, Mail, Rcpt, Reset, Logout, Data, Unreadable, Deliver, Refused, Succeeds
    <3>2. CASE Enqueue(s)
      BY <3>2 DEF Enqueue, RateNext, rateVars, limitVars, clockVars
    <3> QED
      BY <2>1, <3>1, <3>2 DEF Session
  <2>2. ASSUME NEW a \in Domestic, UserChanges(a) PROVE UNCHANGED rateVars
    BY <2>2 DEF UserChanges
  <2>3. CASE OtherSends \/ Restart \/ TimePasses
    BY <2>3 DEF OtherSends, Restart, TimePasses, RateNext
  <2>4. CASE UNCHANGED vars
    BY <2>4 DEF vars
  <2> QED
    BY <2>1, <2>2, <2>3, <2>4 DEF Next
<1> QED
  BY <1>1, <1>2, PTL DEF Spec, RateSpec

(* However the messages of a user are spread over his sessions and over    *)
(* time, and whenever the server is restarted, less than two windows' worth*)
(* count in any interval of a minute and one for each day begun in it, and *)
(* likewise for the days and the restarts (checkRateLimit).                *)
THEOREM LimitsHoldCorrect == Spec => []LimitsHold
<1>1. RateInv => LimitsHold
  BY DEF RateInv
<1>2. RateSpec => []RateInv
  BY RateStart, RateStep, PTL DEF RateSpec
<1> QED
  BY <1>1, <1>2, RateCorrect, PTL

-----------------------------------------------------------------------------
(* How often an address is in a list of recipients.                        *)
Places(q, a) == {k \in DOMAIN q : q[k] = a}

LEMMA PlacesNumber ==
  ASSUME NEW q \in Seq(Addrs), NEW a \in Addrs
  PROVE  /\ IsFiniteSet(Places(q, a)) /\ Cardinality(Places(q, a)) \in Nat
         /\ Times(q)[a] = Cardinality(Places(q, a))
<1>1. DOMAIN q = 1..Len(q) /\ Len(q) \in Nat
  BY LenProperties
<1>2. IsFiniteSet(DOMAIN q)
  BY <1>1, FS_Interval
<1>3. Places(q, a) \in SUBSET DOMAIN q
  BY DEF Places
<1> QED
  BY <1>2, <1>3, FS_Subset, FS_CardinalityType DEF Times, Places

LEMMA Shifted ==
  ASSUME NEW S \in SUBSET Nat, IsFiniteSet(S), NEW n \in Int, NEW T,
         \A k \in S : k + n \in T, \A t \in T : \E k \in S : t = k + n
  PROVE  IsFiniteSet(T) /\ Cardinality(T) = Cardinality(S)
<1> DEFINE f == [k \in S |-> k + n]
<1>1. f \in [S -> T] /\ \A k \in S : f[k] = k + n
  OBVIOUS
<1>2. \A k, l \in S : f[k] = f[l] => k = l
  BY <1>1
<1>3. \A t \in T : \E k \in S : f[k] = t
  BY <1>1
<1> HIDE DEF f
<1>4. f \in Bijection(S, T)
  BY <1>1, <1>2, <1>3 DEF Bijection, Injection, Surjection, IsInjective
<1>5. ExistsBijection(S, T)
  BY <1>4 DEF ExistsBijection
<1> QED
  BY <1>5, FS_Bijection

LEMMA TimesType ==
  ASSUME NEW q \in Seq(Addrs)
  PROVE  Times(q) \in [Addrs -> Nat]
BY PlacesNumber DEF Times, Places

LEMMA TimesEmpty == Times(<<>>) = NoMail
<1>1. \A a \in Addrs : Places(<<>>, a) = {}
  BY DEF Places
<1> QED
  BY <1>1, FS_EmptySet DEF Times, Places, NoMail

LEMMA TimesTail ==
  ASSUME NEW q \in Seq(Addrs), q # <<>>, NEW a \in Addrs
  PROVE  Times(q)[a] = Times(Tail(q))[a] + (IF a = Head(q) THEN 1 ELSE 0)
<1> DEFINE T == {k + 1 : k \in Places(Tail(q), a)}
<1>1. /\ Tail(q) \in Seq(Addrs) /\ Len(Tail(q)) = Len(q) - 1 /\ Head(q) = q[1]
      /\ \A i \in 1..Len(Tail(q)) : Tail(q)[i] = q[i + 1]
  BY HeadTailProperties
<1>2. DOMAIN q = 1..Len(q) /\ Len(q) \in Nat /\ DOMAIN Tail(q) = 1..Len(Tail(q)) /\ Len(q) > 0
  BY <1>1, LenProperties, EmptySeq
<1>3. IsFiniteSet(T) /\ Cardinality(T) = Times(Tail(q))[a] /\ Times(Tail(q))[a] \in Nat
  <2>1. Places(Tail(q), a) \in SUBSET Nat
    BY <1>1, <1>2 DEF Places
  <2>2. /\ IsFiniteSet(Places(Tail(q), a)) /\ Cardinality(Places(Tail(q), a)) \in Nat
        /\ Times(Tail(q))[a] = Cardinality(Places(Tail(q), a))
    BY <1>1, PlacesNumber
  <2>3. IsFiniteSet(T) /\ Cardinality(T) = Cardinality(Places(Tail(q), a))
    <3>1. (\A k \in Places(Tail(q), a) : k + 1 \in T) /\ \A t \in T : \E k \in Places(Tail(q), a) : t = k + 1
      OBVIOUS
    <3>2. 1 \in Int
      OBVIOUS
    <3> HIDE DEF T
    <3> QED
      BY <2>1, <2>2, <3>1, <3>2, Shifted, Zenon
  <2> QED
    BY <2>2, <2>3
<1>4. 1 \notin T
  BY <1>2 DEF Places
<1>5. Places(q, a) = T \union (IF a = Head(q) THEN {1} ELSE {})
  <2>1. ASSUME NEW k \in Places(q, a), k # 1 PROVE k \in T
    <3>1. k - 1 \in 1..Len(Tail(q)) /\ q[k] = a /\ k \in Nat
      BY <1>1, <1>2, <2>1 DEF Places
    <3>2. k - 1 \in Places(Tail(q), a) /\ k = (k - 1) + 1
      BY <1>1, <1>2, <3>1 DEF Places
    <3> QED
      BY <3>2
  <2>2. ASSUME NEW k \in T PROVE k \in Places(q, a)
    <3>1. PICK l \in Places(Tail(q), a) : k = l + 1
      OBVIOUS
    <3>2. l \in 1..Len(Tail(q)) /\ Tail(q)[l] = a
      BY <1>2 DEF Places
    <3> QED
      BY <1>1, <1>2, <3>1, <3>2 DEF Places
  <2>3. 1 \in Places(q, a) <=> a = Head(q)
    BY <1>1, <1>2 DEF Places
  <2> QED
    BY <2>1, <2>2, <2>3
<1> HIDE DEF T
<1>6. Times(q)[a] = Cardinality(Places(q, a))
  BY PlacesNumber
<1>7. CASE a = Head(q)
  <2>1. Places(q, a) = T \union {1}
    BY <1>5, <1>7
  <2>2. Cardinality(T \union {1}) = Cardinality(T) + 1
    BY <1>3, <1>4, FS_AddElement
  <2> QED
    BY <1>3, <1>6, <1>7, <2>1, <2>2
<1>8. CASE a # Head(q)
  <2>1. Places(q, a) = T
    BY <1>5, <1>8
  <2> QED
    BY <1>3, <1>6, <1>8, <2>1
<1> QED
  BY <1>7, <1>8

LEMMA TimesConcat ==
  ASSUME NEW q \in Seq(Addrs), NEW r \in Seq(Addrs), NEW a \in Addrs
  PROVE  Times(q \o r)[a] = Times(q)[a] + Times(r)[a]
<1> DEFINE T == {k + Len(q) : k \in Places(r, a)}
<1>1. /\ q \o r \in Seq(Addrs) /\ Len(q \o r) = Len(q) + Len(r)
      /\ \A i \in 1..(Len(q) + Len(r)) : (q \o r)[i] = IF i <= Len(q) THEN q[i] ELSE r[i - Len(q)]
  BY ConcatProperties
<1>2. /\ DOMAIN q = 1..Len(q) /\ Len(q) \in Nat /\ DOMAIN r = 1..Len(r) /\ Len(r) \in Nat
      /\ DOMAIN (q \o r) = 1..Len(q \o r)
  BY <1>1, LenProperties
<1>3. IsFiniteSet(T) /\ Cardinality(T) = Times(r)[a] /\ Times(r)[a] \in Nat
  <2>1. Places(r, a) \in SUBSET Nat
    BY <1>2 DEF Places
  <2>2. /\ IsFiniteSet(Places(r, a)) /\ Cardinality(Places(r, a)) \in Nat
        /\ Times(r)[a] = Cardinality(Places(r, a))
    BY PlacesNumber
  <2>3. IsFiniteSet(T) /\ Cardinality(T) = Cardinality(Places(r, a))
    <3>1. (\A k \in Places(r, a) : k + Len(q) \in T) /\ \A t \in T : \E k \in Places(r, a) : t = k + Len(q)
      OBVIOUS
    <3>2. Len(q) \in Int
      BY <1>2
    <3> HIDE DEF T
    <3> QED
      BY <2>1, <2>2, <3>1, <3>2, Shifted, Zenon
  <2> QED
    BY <2>2, <2>3
<1>4. Places(q \o r, a) = Places(q, a) \union T
  <2>1. ASSUME NEW k \in Places(q \o r, a) PROVE k \in Places(q, a) \union T
    <3>1. k \in 1..(Len(q) + Len(r)) /\ (q \o r)[k] = a
      BY <1>1, <1>2 DEF Places
    <3>2. CASE k <= Len(q)
      BY <1>1, <1>2, <3>1, <3>2 DEF Places
    <3>3. CASE ~(k <= Len(q))
      <4>1. k - Len(q) \in Places(r, a) /\ k = (k - Len(q)) + Len(q)
        BY <1>1, <1>2, <3>1, <3>3 DEF Places
      <4> QED
        BY <4>1
    <3> QED
      BY <3>2, <3>3
  <2>2. ASSUME NEW k \in T PROVE k \in Places(q \o r, a)
    <3>1. PICK l \in Places(r, a) : k = l + Len(q)
      OBVIOUS
    <3>2. l \in 1..Len(r) /\ r[l] = a /\ (l + Len(q)) - Len(q) = l
      BY <1>2 DEF Places
    <3> QED
      BY <1>1, <1>2, <3>1, <3>2 DEF Places
  <2>3. ASSUME NEW k \in Places(q, a) PROVE k \in Places(q \o r, a)
    BY <1>1, <1>2 DEF Places
  <2> QED
    BY <2>1, <2>2, <2>3
<1>5. Places(q, a) \intersect T = {}
  <2> SUFFICES ASSUME NEW k \in T PROVE k \notin Places(q, a)
    OBVIOUS
  <2>1. PICK l \in Places(r, a) : k = l + Len(q)
    OBVIOUS
  <2>2. l \in Nat /\ l >= 1
    BY <1>2 DEF Places
  <2> QED
    BY <1>2, <2>1, <2>2 DEF Places
<1> HIDE DEF T
<1>6. /\ IsFiniteSet(Places(q, a)) /\ Cardinality(Places(q, a)) \in Nat
      /\ Times(q)[a] = Cardinality(Places(q, a)) /\ Times(q \o r)[a] = Cardinality(Places(q \o r, a))
  BY <1>1, PlacesNumber
<1>7. Cardinality(Places(q, a) \union T) = Cardinality(Places(q, a)) + Cardinality(T) - Cardinality({})
  BY <1>3, <1>5, <1>6, FS_Union
<1>8. Cardinality({}) = 0
  BY FS_EmptySet
<1> QED
  BY <1>3, <1>4, <1>6, <1>7, <1>8

-----------------------------------------------------------------------------
(* The sessions: types, what a session says of itself, its copies, and its *)
(* recipients outside.                                                     *)
Counters == [Addrs -> Nat]
SessFuns ==
  /\ pc \in [Sessions -> {"closed", "open", "data"}]
  /\ mode \in [Sessions -> Modes] /\ authed \in [Sessions -> BOOLEAN]
  /\ from \in [Sessions -> {"nobody", "own", "other"}] /\ named \in [Sessions -> Nat]
  /\ locals \in [Sessions -> Seq(Addrs)] /\ externals \in [Sessions -> Seq(Addrs)]
  /\ offered \in [Sessions -> Counters] /\ skipped \in [Sessions -> Counters]
  /\ due \in [Sessions -> Counters] /\ missed \in [Sessions -> Counters]
  /\ risked \in [Sessions -> Counters] /\ copies \in [Sessions -> Counters]
  /\ sentCopies \in [Sessions -> Nat] /\ tries \in [Sessions -> Nat]
EnvTypes == users \subseteq Domestic /\ changes \in 0..MaxChanges /\ heard \subseteq Sessions

StateOK(s) ==
  /\ named[s] <= Len(Rcpts[s]) /\ tries[s] <= MaxTries[s]
  /\ sentCopies[s] <= tries[s] /\ (pc[s] = "data" => sentCopies[s] < tries[s])
  /\ from[s] = "nobody" => named[s] = 0 /\ locals[s] = <<>> /\ externals[s] = <<>>
  /\ pc[s] = "data" \/ (offered[s] = NoMail /\ skipped[s] = NoMail)
  /\ pc[s] = "closed" => ~authed[s] /\ from[s] = "nobody"
  /\ mode[s] = "submission" /\ from[s] # "nobody" => authed[s] /\ from[s] = "own"
  /\ externals[s] # <<>> => authed[s] /\ (from[s] = "own" \/ mode[s] = "inbound")

\* Recipients of a DATA still to be delivered to or queued for.
Waiting(s, a) == IF pc[s] = "data" THEN Times(locals[s])[a] + Times(externals[s])[a] ELSE 0
\* Those that have a copy, or go without one.
Passed(s, a) == copies[s][a] + missed[s][a] + skipped[s][a]
CopiesOK(s) ==
  \A a \in Addrs :
    /\ Waiting(s, a) + skipped[s][a] <= offered[s][a]
    /\ due[s][a] + offered[s][a] <= Passed(s, a) + Waiting(s, a)
    /\ Passed(s, a) + Waiting(s, a) <= due[s][a] + risked[s][a] + offered[s][a]

Outside(a) == a \in Addrs \ Domestic
SentOK(s) ==
  Enabled => \A k \in DOMAIN Rcpts[s] : Outside(Rcpts[s][k]) =>
    /\ sentCopies[s] <= copies[s][Rcpts[s][k]]
    /\ mode[s] = "submission" /\ pc[s] = "open" /\ k <= named[s] => Rcpts[s][k] \in Range(externals[s])
    /\ mode[s] = "submission" /\ pc[s] = "data" =>
         sentCopies[s] < copies[s][Rcpts[s][k]] \/ Rcpts[s][k] \in Range(externals[s])

SessOK(s) == StateOK(s) /\ CopiesOK(s) /\ SentOK(s)
SessInv == SessFuns /\ EnvTypes /\ \A s \in Sessions : SessOK(s)

SameSess(s) ==
  /\ pc'[s] = pc[s] /\ mode'[s] = mode[s] /\ authed'[s] = authed[s] /\ from'[s] = from[s]
  /\ named'[s] = named[s] /\ locals'[s] = locals[s] /\ externals'[s] = externals[s]
  /\ offered'[s] = offered[s] /\ skipped'[s] = skipped[s] /\ due'[s] = due[s] /\ missed'[s] = missed[s]
  /\ risked'[s] = risked[s] /\ copies'[s] = copies[s]
  /\ sentCopies'[s] = sentCopies[s] /\ tries'[s] = tries[s]

LEMMA SameSessOK ==
  ASSUME NEW s, SessOK(s), SameSess(s)
  PROVE  SessOK(s)'
<1>1. StateOK(s)'
  BY DEF SameSess, SessOK, StateOK
<1>2. CopiesOK(s)'
  BY DEF SameSess, SessOK, CopiesOK, Passed, Waiting
<1>3. SentOK(s)'
  BY DEF SameSess, SessOK, SentOK
<1> QED
  BY <1>1, <1>2, <1>3 DEF SessOK

LEMMA Messages ==
  /\ \A s \in Sessions : Rcpts[s] \in Seq(Addrs) /\ Len(Rcpts[s]) \in Nat /\ DOMAIN Rcpts[s] = 1..Len(Rcpts[s])
  /\ Domestic \subseteq Addrs /\ MaxTries \in [Sessions -> Nat] /\ MaxChanges \in Nat
BY SubmissionAssumption, LenProperties DEF SubmissionAssumption

LEMMA NoMailType == NoMail \in Counters /\ \A a \in Addrs : NoMail[a] = 0
BY DEF NoMail, Counters

LEMMA PlusType ==
  ASSUME NEW f \in Counters, NEW g \in Counters
  PROVE  Plus(f, g) \in Counters /\ \A a \in Addrs : Plus(f, g)[a] = f[a] + g[a]
BY DEF Plus, Counters

\* Of the session whose step it is, the others see nothing.
LEMMA OthersSame ==
  ASSUME SessFuns, NEW s \in Sessions, Session(s)
  PROVE  \A q \in Sessions \ {s} : SameSess(q)
<1>1. CASE Connect(s) \/ Auth(s) \/ Mail(s)
  BY <1>1 DEF Connect, Auth, Mail, Goto, SessFuns, SameSess, pastVars
<1>2. CASE Rcpt(s)
  BY <1>2 DEF Rcpt, SessFuns, SameSess, pastVars
<1>3. CASE Reset(s) \/ Logout(s)
  BY <1>3 DEF Reset, Logout, Cleared, Goto, SessFuns, SameSess, pastVars
<1>4. CASE Data(s)
  BY <1>4 DEF Data, Goto, SessFuns, SameSess, pastVars, sessVars
<1>5. CASE Unreadable(s)
  BY <1>5 DEF Unreadable, Cleared, SessFuns, SameSess
<1>6. CASE Deliver(s)
  BY <1>6 DEF Deliver, Saved, SessFuns, SameSess, pastVars, sessVars
<1>7. ASSUME Fails(s) PROVE \A q \in Sessions \ {s} : SameSess(q)
  BY <1>7 DEF Fails, Answered, Cleared, Goto, SessFuns, SameSess
<1>8. CASE Refused(s)
  BY <1>7, <1>8 DEF Refused
<1>9. CASE Enqueue(s)
  <2>1. CASE /\ copies' = [copies EXCEPT ![s][Head(externals[s])] = @ + 1]
             /\ externals' = [externals EXCEPT ![s] = Tail(@)]
             /\ UNCHANGED <<envVars, pc, sessVars, locals, offered, pastVars, tries>>
    BY <2>1 DEF SessFuns, SameSess, pastVars, sessVars
  <2> QED
    BY <1>7, <1>9, <2>1 DEF Enqueue
<1>10. CASE Succeeds(s)
  BY <1>10 DEF Succeeds, Answered, Cleared, Goto, SessFuns, SameSess
<1> QED
  BY <1>1, <1>2, <1>3, <1>4, <1>5, <1>6, <1>8, <1>9, <1>10 DEF Session

-----------------------------------------------------------------------------
\* What the steps of one session lead to.
Good(s) == SessFuns' /\ EnvTypes' /\ SessOK(s)'

\* Nothing has changed for the copies, unless DATA begins or ends.
LEMMA SameCopies ==
  ASSUME NEW s, CopiesOK(s), pc[s] # "data", pc'[s] # "data",
         offered'[s] = offered[s], skipped'[s] = skipped[s], due'[s] = due[s], missed'[s] = missed[s],
         risked'[s] = risked[s], copies'[s] = copies[s]
  PROVE  CopiesOK(s)'
BY DEF CopiesOK, Passed, Waiting

LEMMA ConnectGood ==
  ASSUME SessInv, NEW s \in Sessions, Connect(s)
  PROVE  Good(s)
<1>0. SessFuns /\ SessOK(s) /\ EnvTypes
  BY DEF SessInv
<1>1. PICK m \in Modes : mode' = [mode EXCEPT ![s] = m]
  BY DEF Connect
<1>2. /\ pc[s] = "closed" /\ pc' = [pc EXCEPT ![s] = "open"]
      /\ UNCHANGED <<authed, from, named, locals, externals, offered, skipped, due, missed, risked, copies, sentCopies, tries>>
  BY DEF Connect, Goto, pastVars
<1>3. SessFuns'
  BY <1>0, <1>1, <1>2 DEF SessFuns
<1>4. EnvTypes'
  BY <1>0 DEF EnvTypes, Connect, envVars, pastVars
<1>5. pc'[s] = "open" /\ from[s] = "nobody" /\ named[s] = 0 /\ externals[s] = <<>>
  BY <1>0, <1>2 DEF SessFuns, SessOK, StateOK
<1>6. StateOK(s)'
  BY <1>0, <1>2, <1>5 DEF SessOK, StateOK
<1>7. CopiesOK(s)'
  BY <1>0, <1>2, <1>5, SameCopies DEF SessOK
<1>8. \A k \in DOMAIN Rcpts[s] : ~(k <= 0)
  BY Messages
<1>9. SentOK(s)'
  BY <1>0, <1>2, <1>5, <1>8 DEF SessOK, SentOK
<1> QED
  BY <1>3, <1>4, <1>6, <1>7, <1>9 DEF Good, SessOK

LEMMA AuthGood ==
  ASSUME SessInv, NEW s \in Sessions, Auth(s)
  PROVE  Good(s)
<1>0. SessFuns /\ SessOK(s) /\ EnvTypes
  BY DEF SessInv
<1>1. /\ pc[s] = "open" /\ ~authed[s] /\ authed' = [authed EXCEPT ![s] = TRUE]
      /\ UNCHANGED <<pc, mode, from, named, locals, externals, offered, skipped, due, missed, risked, copies, sentCopies, tries>>
  BY DEF Auth, pastVars
<1>2. SessFuns'
  BY <1>0, <1>1 DEF SessFuns
<1>3. EnvTypes'
  BY <1>0 DEF EnvTypes, Auth, envVars, pastVars
<1>4. authed'[s]
  BY <1>0, <1>1 DEF SessFuns
<1>5. StateOK(s)'
  BY <1>0, <1>1, <1>4 DEF SessOK, StateOK
<1>6. CopiesOK(s)'
  BY <1>0, <1>1, SameCopies DEF SessOK
<1>7. SentOK(s)'
  BY <1>0, <1>1 DEF SessOK, SentOK
<1> QED
  BY <1>2, <1>3, <1>5, <1>6, <1>7 DEF Good, SessOK

LEMMA MailGood ==
  ASSUME SessInv, NEW s \in Sessions, Mail(s)
  PROVE  Good(s)
<1>0. SessFuns /\ SessOK(s) /\ EnvTypes
  BY DEF SessInv
<1>1. PICK f \in {"own", "other"} : (authed[s] => f = "own") /\ from' = [from EXCEPT ![s] = f]
  BY DEF Mail
<1>2. /\ pc[s] = "open" /\ from[s] = "nobody" /\ (mode[s] = "inbound" \/ authed[s])
      /\ UNCHANGED <<pc, mode, authed, named, locals, externals, offered, skipped, due, missed, risked, copies, sentCopies, tries>>
  BY DEF Mail, pastVars
<1>3. SessFuns'
  BY <1>0, <1>1, <1>2 DEF SessFuns
<1>4. EnvTypes'
  BY <1>0 DEF EnvTypes, Mail, envVars, pastVars
<1>5. from'[s] = f
  BY <1>0, <1>1 DEF SessFuns
<1>6. StateOK(s)'
  BY <1>0, <1>1, <1>2, <1>5 DEF SessOK, StateOK
<1>7. CopiesOK(s)'
  BY <1>0, <1>2, SameCopies DEF SessOK
<1>8. SentOK(s)'
  BY <1>0, <1>2 DEF SessOK, SentOK
<1> QED
  BY <1>3, <1>4, <1>6, <1>7, <1>8 DEF Good, SessOK

LEMMA RcptGood ==
  ASSUME SessInv, NEW s \in Sessions, Rcpt(s)
  PROVE  Good(s)
<1> DEFINE a == Rcpts[s][named[s] + 1]
<1>0. SessFuns /\ SessOK(s) /\ EnvTypes
  BY DEF SessInv
<1>1. /\ pc[s] = "open" /\ from[s] # "nobody" /\ named[s] < Len(Rcpts[s])
      /\ named' = [named EXCEPT ![s] = @ + 1]
      /\ UNCHANGED <<pc, mode, authed, from, offered, skipped, due, missed, risked, copies, sentCopies, tries>>
  BY DEF Rcpt, pastVars
<1>2. named'[s] = named[s] + 1 /\ named[s] \in Nat
  BY <1>0, <1>1 DEF SessFuns
<1>3. a \in Addrs
  BY <1>1, <1>2, Messages, ElementOfSeq
<1>4. /\ locals'[s] \in Seq(Addrs) /\ externals'[s] \in Seq(Addrs)
      /\ SessFuns'
      /\ \/ a \in users /\ externals'[s] = externals[s]
         \/ externals'[s] = Append(externals[s], a) /\ authed[s] /\ Enabled
         \/ externals'[s] = externals[s] /\ ~(authed[s] /\ Enabled)
  <2>1. CASE a \in users /\ locals' = [locals EXCEPT ![s] = Append(@, a)] /\ UNCHANGED externals
    <3>1. Append(locals[s], a) \in Seq(Addrs) /\ locals[s] \in Seq(Addrs)
      BY <1>0, <1>3, AppendProperties DEF SessFuns
    <3> HIDE DEF a
    <3> QED
      BY <1>0, <1>1, <1>2, <2>1, <3>1 DEF SessFuns
  <2>2. CASE externals' = [externals EXCEPT ![s] = Append(@, a)] /\ authed[s] /\ Enabled /\ UNCHANGED locals
    <3>1. Append(externals[s], a) \in Seq(Addrs) /\ externals[s] \in Seq(Addrs)
      BY <1>0, <1>3, AppendProperties DEF SessFuns
    <3> HIDE DEF a
    <3> QED
      BY <1>0, <1>1, <1>2, <2>2, <3>1 DEF SessFuns
  <2>3. CASE externals' = externals /\ ~(authed[s] /\ Enabled) /\ UNCHANGED locals
    <3> HIDE DEF a
    <3> QED
      BY <1>0, <1>1, <1>2, <2>3 DEF SessFuns
  <2> QED
    BY <1>2, <2>1, <2>2, <2>3 DEF Rcpt
<1>5. EnvTypes'
  BY <1>0 DEF EnvTypes, Rcpt, envVars, pastVars
<1>6. StateOK(s)'
  <2>1. externals'[s] # <<>> => authed[s] /\ (from[s] = "own" \/ mode[s] = "inbound")
    <3>1. from[s] = "own" \/ mode[s] = "inbound" \/ mode[s] \notin {"submission", "inbound"}
      BY <1>0, <1>1 DEF SessOK, StateOK
    <3>2. mode[s] \in {"submission", "inbound"}
      BY <1>0, SubmissionAssumption DEF SessFuns, SubmissionAssumption
    <3> QED
      BY <1>0, <1>4, <3>1, <3>2 DEF SessOK, StateOK
  <2>2. named'[s] <= Len(Rcpts[s])
    BY <1>1, <1>2, Messages
  <2> QED
    BY <1>0, <1>1, <2>1, <2>2 DEF SessOK, StateOK
<1>7. CopiesOK(s)'
  BY <1>0, <1>1, SameCopies DEF SessOK
<1>8. SentOK(s)'
  <2> SUFFICES ASSUME Enabled, NEW k \in DOMAIN Rcpts[s], Outside(Rcpts[s][k]),
                      mode[s] = "submission", k <= named'[s]
               PROVE  Rcpts[s][k] \in Range(externals'[s])
    BY <1>0, <1>1 DEF SessOK, SentOK, Enabled
  <2>0. k \in Nat /\ externals[s] \in Seq(Addrs)
    BY <1>0, Messages DEF SessFuns
  <2>1. \A b : b \in Range(externals[s]) => b \in Range(externals'[s])
    <3>1. CASE externals'[s] = Append(externals[s], a)
      <4>1. /\ DOMAIN externals[s] = 1..Len(externals[s]) /\ Len(externals[s]) \in Nat
            /\ DOMAIN externals'[s] = 1..(Len(externals[s]) + 1)
            /\ \A i \in 1..Len(externals[s]) : externals'[s][i] = externals[s][i]
        BY <1>3, <2>0, <3>1, AppendProperties, LenProperties
      <4> QED
        BY <4>1 DEF Range
    <3> QED
      BY <1>4, <3>1
  <2>2. CASE k <= named[s]
    BY <1>0, <1>1, <2>1, <2>2 DEF SessOK, SentOK
  <2>3. CASE ~(k <= named[s])
    <3>1. k = named[s] + 1
      BY <1>2, <2>0, <2>3
    <3>2. authed[s] /\ a \notin users
      BY <1>0, <1>1, <3>1 DEF SessOK, StateOK, EnvTypes, Outside
    <3>3. externals'[s] = Append(externals[s], a)
      BY <1>4, <3>2
    <3>4. /\ DOMAIN externals'[s] = 1..(Len(externals[s]) + 1) /\ Len(externals[s]) \in Nat
          /\ externals'[s][Len(externals[s]) + 1] = a
      BY <1>3, <2>0, <3>3, AppendProperties, LenProperties
    <3> QED
      BY <3>1, <3>4 DEF Range
  <2> QED
    BY <2>2, <2>3
<1> QED
  BY <1>4, <1>5, <1>6, <1>7, <1>8 DEF Good, SessOK

LEMMA ClearedFacts ==
  ASSUME SessFuns, NEW s \in Sessions, Cleared(s)
  PROVE  /\ from' \in [Sessions -> {"nobody", "own", "other"}] /\ named' \in [Sessions -> Nat]
         /\ locals' \in [Sessions -> Seq(Addrs)] /\ externals' \in [Sessions -> Seq(Addrs)]
         /\ from'[s] = "nobody" /\ named'[s] = 0 /\ locals'[s] = <<>> /\ externals'[s] = <<>>
<1>1. <<>> \in Seq(Addrs)
  BY EmptySeq
<1> QED
  BY <1>1 DEF Cleared, SessFuns

\* A session whose transaction has ended: what remains to be shown.
LEMMA ClearedOK ==
  ASSUME SessInv, NEW s \in Sessions, Cleared(s), pc'[s] \in {"open", "closed"},
         pc'[s] = "closed" => ~authed'[s],
         offered'[s] = NoMail, skipped'[s] = NoMail,
         tries'[s] <= MaxTries[s], sentCopies'[s] <= tries'[s],
         Enabled => \A k \in DOMAIN Rcpts[s] : Outside(Rcpts[s][k]) => sentCopies'[s] <= copies'[s][Rcpts[s][k]]
  PROVE  StateOK(s)' /\ SentOK(s)'
<1>1. from'[s] = "nobody" /\ named'[s] = 0 /\ locals'[s] = <<>> /\ externals'[s] = <<>>
  BY ClearedFacts DEF SessInv
<1>2. 0 <= Len(Rcpts[s]) /\ \A k \in DOMAIN Rcpts[s] : ~(k <= 0)
  BY Messages
<1>3. StateOK(s)'
  BY <1>1, <1>2 DEF StateOK
<1>4. SentOK(s)'
  BY <1>1, <1>2 DEF SentOK, Enabled
<1> QED
  BY <1>3, <1>4

LEMMA ResetGood ==
  ASSUME SessInv, NEW s \in Sessions, Reset(s) \/ Logout(s)
  PROVE  Good(s)
<1>0. SessFuns /\ SessOK(s) /\ EnvTypes
  BY DEF SessInv
<1>1. /\ pc[s] = "open" /\ Cleared(s)
      /\ UNCHANGED <<mode, offered, skipped, due, missed, risked, copies, sentCopies, tries>>
      /\ \/ pc' = pc /\ authed' = authed
         \/ pc' = [pc EXCEPT ![s] = "closed"] /\ authed' = [authed EXCEPT ![s] = FALSE]
  BY DEF Reset, Logout, Goto, pastVars
<1>2. SessFuns' /\ pc'[s] \in {"open", "closed"} /\ (pc'[s] = "closed" => ~authed'[s])
  BY <1>0, <1>1, ClearedFacts DEF SessFuns
<1>3. EnvTypes'
  BY <1>0 DEF EnvTypes, Reset, Logout, envVars, pastVars
<1>4. /\ offered'[s] = NoMail /\ skipped'[s] = NoMail /\ tries'[s] <= MaxTries[s] /\ sentCopies'[s] <= tries'[s]
      /\ Enabled => \A k \in DOMAIN Rcpts[s] : Outside(Rcpts[s][k]) => sentCopies'[s] <= copies'[s][Rcpts[s][k]]
  BY <1>0, <1>1 DEF SessOK, StateOK, SentOK
<1>5. StateOK(s)' /\ SentOK(s)'
  BY <1>1, <1>2, <1>4, ClearedOK
<1>6. CopiesOK(s)'
  BY <1>0, <1>1, <1>2, SameCopies DEF SessOK
<1> QED
  BY <1>2, <1>3, <1>5, <1>6 DEF Good, SessOK

\* The counts of a session and of an address are numbers.
LEMMA Counts4 ==
  ASSUME SessFuns, NEW s \in Sessions, NEW a \in Addrs
  PROVE  /\ due[s][a] \in Nat /\ copies[s][a] \in Nat /\ risked[s][a] \in Nat /\ offered[s][a] \in Nat
         /\ skipped[s][a] \in Nat /\ missed[s][a] \in Nat
         /\ Times(locals[s])[a] \in Nat /\ Times(externals[s])[a] \in Nat
<1>1. Times(locals[s]) \in Counters /\ Times(externals[s]) \in Counters
  BY TimesType DEF Counters, SessFuns
<1> QED
  BY <1>1 DEF SessFuns, Counters

CopyBounds(s, a) ==
  /\ Waiting(s, a) + skipped[s][a] <= offered[s][a]
  /\ due[s][a] + offered[s][a] <= Passed(s, a) + Waiting(s, a)
  /\ Passed(s, a) + Waiting(s, a) <= due[s][a] + risked[s][a] + offered[s][a]

LEMMA DataGood ==
  ASSUME SessInv, NEW s \in Sessions, Data(s)
  PROVE  Good(s)
<1> DEFINE q == locals[s] \o externals[s]
<1>0. SessFuns /\ SessOK(s) /\ EnvTypes
  BY DEF SessInv
<1>1. /\ pc[s] = "open" /\ named[s] = Len(Rcpts[s]) /\ tries[s] < MaxTries[s]
      /\ tries' = [tries EXCEPT ![s] = @ + 1] /\ offered' = [offered EXCEPT ![s] = Times(q)]
      /\ pc' = [pc EXCEPT ![s] = "data"]
      /\ UNCHANGED <<mode, authed, from, named, locals, externals, skipped, due, missed, risked, copies, sentCopies>>
  BY DEF Data, Goto, sessVars, pastVars
<1>2. q \in Seq(Addrs) /\ locals[s] \in Seq(Addrs) /\ externals[s] \in Seq(Addrs)
  BY <1>0, ConcatProperties DEF SessFuns
<1>3. Times(q) \in Counters /\ Times(locals[s]) \in Counters /\ Times(externals[s]) \in Counters
  BY <1>2, TimesType DEF Counters
<1>4. SessFuns' /\ tries'[s] = tries[s] + 1 /\ tries[s] \in Nat /\ offered'[s] = Times(q) /\ pc'[s] = "data"
  <2> HIDE DEF q
  <2> QED
    BY <1>0, <1>1, <1>3 DEF SessFuns
<1>5. EnvTypes'
  BY <1>0 DEF EnvTypes, Data, envVars, pastVars
<1>6. StateOK(s)'
  <2>1. tries'[s] <= MaxTries[s] /\ sentCopies[s] < tries'[s] /\ sentCopies[s] <= tries'[s]
    BY <1>0, <1>1, <1>4, Messages DEF SessFuns, SessOK, StateOK
  <2> QED
    BY <1>0, <1>1, <1>4, <2>1 DEF SessOK, StateOK
<1>7. CopiesOK(s)'
  <2> SUFFICES ASSUME NEW a \in Addrs PROVE CopyBounds(s, a)'
    BY DEF CopiesOK, CopyBounds
  <2>1. Waiting(s, a)' = Times(locals[s])[a] + Times(externals[s])[a]
    BY <1>1, <1>4 DEF Waiting
  <2>2. offered'[s][a] = Times(locals[s])[a] + Times(externals[s])[a]
    BY <1>2, <1>4, TimesConcat
  <2>3. Waiting(s, a) = 0 /\ offered[s][a] = 0 /\ skipped[s][a] = 0
    BY <1>0, <1>1, NoMailType DEF Waiting, SessOK, StateOK
  <2>4. CopyBounds(s, a)
    BY <1>0 DEF SessOK, CopiesOK, CopyBounds
  <2>5. /\ skipped'[s][a] = 0 /\ due'[s][a] = due[s][a] /\ risked'[s][a] = risked[s][a]
        /\ Passed(s, a)' = Passed(s, a)
    BY <1>1, <2>3 DEF Passed
  <2>6. Waiting(s, a)' = offered'[s][a] /\ offered'[s][a] \in Nat
    BY <1>0, <2>1, <2>2, Counts4
  <2>7. Passed(s, a) \in Nat
    BY <1>0, Counts4 DEF Passed
  <2> QED
    BY <1>0, <2>3, <2>4, <2>5, <2>6, <2>7, Counts4 DEF CopyBounds
<1>8. SentOK(s)'
  <2>1. \A k \in DOMAIN Rcpts[s] : k <= named[s]
    BY <1>1, Messages
  <2> QED
    BY <1>0, <1>1, <1>4, <2>1 DEF SessOK, SentOK
<1> QED
  BY <1>4, <1>5, <1>6, <1>7, <1>8 DEF Good, SessOK

LEMMA UnreadableGood ==
  ASSUME SessInv, NEW s \in Sessions, Unreadable(s)
  PROVE  Good(s)
<1> DEFINE q == locals[s] \o externals[s]
<1>0. SessFuns /\ SessOK(s) /\ EnvTypes
  BY DEF SessInv
<1>1. /\ pc[s] = "open" /\ tries[s] < MaxTries[s] /\ Cleared(s)
      /\ tries' = [tries EXCEPT ![s] = @ + 1] /\ risked' = [risked EXCEPT ![s] = Plus(risked[s], Times(q))]
      /\ UNCHANGED <<pc, mode, authed, offered, skipped, due, missed, copies, sentCopies>>
  BY DEF Unreadable
<1>2. q \in Seq(Addrs)
  BY <1>0, ConcatProperties DEF SessFuns
<1>3. Times(q) \in Counters /\ risked[s] \in Counters
  BY <1>0, <1>2, TimesType DEF Counters, SessFuns
<1> HIDE DEF q
<1>4. Plus(risked[s], Times(q)) \in Counters /\ \A a \in Addrs : Plus(risked[s], Times(q))[a] = risked[s][a] + Times(q)[a]
  BY <1>3, PlusType
<1>5. SessFuns' /\ tries'[s] = tries[s] + 1 /\ tries[s] \in Nat /\ risked'[s] = Plus(risked[s], Times(q))
  BY <1>0, <1>1, <1>4, ClearedFacts DEF SessFuns
<1>6. EnvTypes'
  BY <1>0 DEF EnvTypes, Unreadable, envVars
<1>7. /\ offered'[s] = NoMail /\ skipped'[s] = NoMail /\ tries'[s] <= MaxTries[s] /\ sentCopies'[s] <= tries'[s]
      /\ Enabled => \A k \in DOMAIN Rcpts[s] : Outside(Rcpts[s][k]) => sentCopies'[s] <= copies'[s][Rcpts[s][k]]
  BY <1>0, <1>1, <1>5, Messages DEF SessOK, StateOK, SentOK, SessFuns
<1>8. StateOK(s)' /\ SentOK(s)'
  BY <1>0, <1>1, <1>7, ClearedOK DEF SessOK, StateOK
<1>9. CopiesOK(s)'
  <2> SUFFICES ASSUME NEW a \in Addrs PROVE CopyBounds(s, a)'
    BY DEF CopiesOK, CopyBounds
  <2>1. Waiting(s, a) = 0 /\ Waiting(s, a)' = 0
    BY <1>1 DEF Waiting
  <2>2. Times(q)[a] \in Nat /\ risked'[s][a] = risked[s][a] + Times(q)[a]
    BY <1>3, <1>4, <1>5 DEF Counters
  <2>3. CopyBounds(s, a)
    BY <1>0 DEF SessOK, CopiesOK, CopyBounds
  <2> QED
    BY <1>0, <1>1, <2>1, <2>2, <2>3, Counts4 DEF CopyBounds, Passed
<1> QED
  BY <1>5, <1>6, <1>8, <1>9 DEF Good, SessOK

LEMMA DeliverGood ==
  ASSUME SessInv, NEW s \in Sessions, Deliver(s)
  PROVE  Good(s)
<1> DEFINE h == Head(locals[s])
<1>0. SessFuns /\ SessOK(s) /\ EnvTypes
  BY DEF SessInv
<1>1. /\ pc[s] = "data" /\ locals[s] # <<>>
      /\ locals' = [locals EXCEPT ![s] = Tail(@)]
      /\ UNCHANGED <<pc, mode, authed, from, named, externals, offered, due, missed, risked, sentCopies, tries>>
      /\ \/ copies' = [copies EXCEPT ![s][h] = @ + 1] /\ skipped' = skipped
         \/ skipped' = [skipped EXCEPT ![s][h] = @ + 1] /\ copies' = copies
  BY DEF Deliver, Saved, pastVars, sessVars
<1>2. locals[s] \in Seq(Addrs) /\ h \in Addrs /\ Tail(locals[s]) \in Seq(Addrs)
  BY <1>0, <1>1, HeadTailProperties DEF SessFuns
<1>3. \A a \in Addrs : Times(locals[s])[a] = Times(Tail(locals[s]))[a] + (IF a = h THEN 1 ELSE 0)
  BY <1>1, <1>2, TimesTail
<1>4. Times(Tail(locals[s])) \in Counters
  BY <1>2, TimesType DEF Counters
<1> HIDE DEF h
<1>5. skipped[s][h] \in Nat /\ copies[s][h] \in Nat
  BY <1>0, <1>2, Counts4
<1>6. SessFuns' /\ locals'[s] = Tail(locals[s])
  <2>1. copies' \in [Sessions -> Counters]
    <3>1. CASE copies' = [copies EXCEPT ![s][h] = @ + 1]
      <4>1. copies[s][h] + 1 \in Nat /\ copies[s] \in [Addrs -> Nat]
        BY <1>0, <1>5 DEF SessFuns, Counters
      <4>2. [copies[s] EXCEPT ![h] = copies[s][h] + 1] \in [Addrs -> Nat]
        BY <1>2, <4>1
      <4>3. copies' = [copies EXCEPT ![s] = [copies[s] EXCEPT ![h] = copies[s][h] + 1]]
        BY <1>0, <3>1 DEF SessFuns
      <4> QED
        BY <1>0, <4>2, <4>3 DEF SessFuns, Counters
    <3> QED
      BY <1>0, <1>1, <3>1 DEF SessFuns
  <2>2. skipped' \in [Sessions -> Counters]
    <3>1. CASE skipped' = [skipped EXCEPT ![s][h] = @ + 1]
      <4>1. skipped[s][h] + 1 \in Nat /\ skipped[s] \in [Addrs -> Nat]
        BY <1>0, <1>5 DEF SessFuns, Counters
      <4>2. [skipped[s] EXCEPT ![h] = skipped[s][h] + 1] \in [Addrs -> Nat]
        BY <1>2, <4>1
      <4>3. skipped' = [skipped EXCEPT ![s] = [skipped[s] EXCEPT ![h] = skipped[s][h] + 1]]
        BY <1>0, <3>1 DEF SessFuns
      <4> QED
        BY <1>0, <4>2, <4>3 DEF SessFuns, Counters
    <3> QED
      BY <1>0, <1>1, <3>1 DEF SessFuns
  <2> QED
    BY <1>0, <1>1, <1>2, <2>1, <2>2 DEF SessFuns
<1>7. EnvTypes'
  BY <1>0 DEF EnvTypes, Deliver, envVars
<1>8. StateOK(s)'
  <2>1. pc'[s] = "data" /\ locals'[s] = Tail(locals[s]) /\ from[s] # "nobody"
    BY <1>0, <1>1, <1>6 DEF SessOK, StateOK
  <2> QED
    BY <1>0, <1>1, <2>1 DEF SessOK, StateOK
<1>9. \A a \in Addrs :
        \/ copies'[s][a] = copies[s][a] + (IF a = h THEN 1 ELSE 0) /\ skipped'[s][a] = skipped[s][a]
        \/ skipped'[s][a] = skipped[s][a] + (IF a = h THEN 1 ELSE 0) /\ copies'[s][a] = copies[s][a]
  <2>1. CASE copies' = [copies EXCEPT ![s][h] = @ + 1] /\ skipped' = skipped
    <3>1. \A a \in Addrs : copies'[s][a] = IF a = h THEN copies[s][a] + 1 ELSE copies[s][a]
      BY <1>0, <1>2, <2>1 DEF SessFuns, Counters
    <3> QED
      BY <1>0, <2>1, <3>1, Counts4
  <2>2. CASE skipped' = [skipped EXCEPT ![s][h] = @ + 1] /\ copies' = copies
    <3>1. \A a \in Addrs : skipped'[s][a] = IF a = h THEN skipped[s][a] + 1 ELSE skipped[s][a]
      BY <1>0, <1>2, <2>2 DEF SessFuns, Counters
    <3> QED
      BY <1>0, <2>2, <3>1, Counts4
  <2> QED
    BY <1>1, <2>1, <2>2
<1>10. CopiesOK(s)'
  <2> SUFFICES ASSUME NEW a \in Addrs PROVE CopyBounds(s, a)'
    BY DEF CopiesOK, CopyBounds
  <2>1. Waiting(s, a)' = Times(Tail(locals[s]))[a] + Times(externals[s])[a]
    BY <1>1, <1>6 DEF Waiting
  <2>2. Waiting(s, a) = Times(Tail(locals[s]))[a] + (IF a = h THEN 1 ELSE 0) + Times(externals[s])[a]
    BY <1>1, <1>3 DEF Waiting
  <2>3. CopyBounds(s, a)
    BY <1>0 DEF SessOK, CopiesOK, CopyBounds
  <2>4. Times(Tail(locals[s]))[a] \in Nat
    BY <1>4 DEF Counters
  <2> DEFINE d == IF a = h THEN 1 ELSE 0
  <2>5. Passed(s, a)' = Passed(s, a) + d /\ Passed(s, a) \in Nat /\ skipped'[s][a] <= skipped[s][a] + d
    <3>1. /\ missed'[s][a] = missed[s][a]
          /\ copies[s][a] \in Nat /\ missed[s][a] \in Nat /\ skipped[s][a] \in Nat
      BY <1>0, <1>1, Counts4
    <3>2. CASE copies'[s][a] = copies[s][a] + d /\ skipped'[s][a] = skipped[s][a]
      BY <3>1, <3>2 DEF Passed
    <3>3. CASE skipped'[s][a] = skipped[s][a] + d /\ copies'[s][a] = copies[s][a]
      BY <3>1, <3>3 DEF Passed
    <3> QED
      BY <1>9, <3>2, <3>3
  <2>6. offered'[s][a] = offered[s][a] /\ due'[s][a] = due[s][a] /\ risked'[s][a] = risked[s][a]
    BY <1>1
  <2>7. Waiting(s, a) = Waiting(s, a)' + d /\ Waiting(s, a)' \in Nat /\ d \in Nat
    BY <1>0, <2>1, <2>2, <2>4, Counts4
  <2>8. skipped'[s][a] \in Nat /\ skipped[s][a] \in Nat
    BY <1>0, <1>6, Counts4 DEF SessFuns, Counters
  <2> HIDE DEF d
  <2> QED
    BY <1>0, <2>3, <2>5, <2>6, <2>7, <2>8, Counts4 DEF CopyBounds
<1>11. SentOK(s)'
  <2>1. \A a \in Addrs : copies[s][a] <= copies'[s][a] /\ copies[s][a] \in Nat /\ copies'[s][a] \in Nat
    BY <1>0, <1>9, Counts4
  <2> SUFFICES ASSUME Enabled, NEW k \in DOMAIN Rcpts[s], Outside(Rcpts[s][k])
               PROVE  /\ sentCopies[s] <= copies'[s][Rcpts[s][k]]
                      /\ mode[s] = "submission" =>
                           sentCopies[s] < copies'[s][Rcpts[s][k]] \/ Rcpts[s][k] \in Range(externals[s])
    BY <1>1 DEF SentOK, Enabled
  <2>2. /\ sentCopies[s] <= copies[s][Rcpts[s][k]] /\ Rcpts[s][k] \in Addrs /\ sentCopies[s] \in Nat
        /\ mode[s] = "submission" =>
             sentCopies[s] < copies[s][Rcpts[s][k]] \/ Rcpts[s][k] \in Range(externals[s])
    BY <1>0, <1>1 DEF SessOK, SentOK, Outside, SessFuns
  <2> QED
    BY <2>1, <2>2
<1> QED
  BY <1>6, <1>7, <1>8, <1>10, <1>11 DEF Good, SessOK

\* An error ends the command: what was offered is at risk.
LEMMA FailsGood ==
  ASSUME SessInv, NEW s \in Sessions, pc[s] = "data", Fails(s)
  PROVE  Good(s)
<1>0. SessFuns /\ SessOK(s) /\ EnvTypes
  BY DEF SessInv
<1>1. /\ risked' = [risked EXCEPT ![s] = Plus(risked[s], offered[s])]
      /\ offered' = [offered EXCEPT ![s] = NoMail] /\ skipped' = [skipped EXCEPT ![s] = NoMail]
      /\ pc' = [pc EXCEPT ![s] = "open"] /\ Cleared(s)
      /\ UNCHANGED <<mode, authed, copies, sentCopies, tries, due, missed>>
  BY DEF Fails, Answered, Goto
<1>2. /\ Plus(risked[s], offered[s]) \in Counters
      /\ \A a \in Addrs : Plus(risked[s], offered[s])[a] = risked[s][a] + offered[s][a]
  BY <1>0, PlusType DEF SessFuns
<1>3. /\ SessFuns' /\ pc'[s] = "open" /\ offered'[s] = NoMail /\ skipped'[s] = NoMail
      /\ risked'[s] = Plus(risked[s], offered[s])
  BY <1>0, <1>1, <1>2, ClearedFacts, NoMailType DEF SessFuns
<1>4. EnvTypes'
  BY <1>0 DEF EnvTypes, Fails, envVars
<1>5. /\ tries'[s] <= MaxTries[s] /\ sentCopies'[s] <= tries'[s]
      /\ Enabled => \A k \in DOMAIN Rcpts[s] : Outside(Rcpts[s][k]) => sentCopies'[s] <= copies'[s][Rcpts[s][k]]
  BY <1>0, <1>1 DEF SessOK, StateOK, SentOK
<1>6. StateOK(s)' /\ SentOK(s)'
  BY <1>1, <1>3, <1>5, ClearedOK
<1>7. CopiesOK(s)'
  <2> SUFFICES ASSUME NEW a \in Addrs PROVE CopyBounds(s, a)'
    BY DEF CopiesOK, CopyBounds
  <2>1. CopyBounds(s, a) /\ Waiting(s, a) \in Nat
    BY <1>0, Counts4 DEF SessOK, CopiesOK, CopyBounds, Waiting
  <2>2. /\ risked'[s][a] = risked[s][a] + offered[s][a]
        /\ Waiting(s, a)' = 0 /\ offered'[s][a] = 0 /\ skipped'[s][a] = 0
    BY <1>2, <1>3, NoMailType DEF Waiting
  <2> QED
    BY <1>0, <1>1, <2>1, <2>2, Counts4 DEF CopyBounds, Passed
<1> QED
  BY <1>3, <1>4, <1>6, <1>7 DEF Good, SessOK

LEMMA EnqueueGood ==
  ASSUME SessInv, NEW s \in Sessions, Enqueue(s)
  PROVE  Good(s)
<1> DEFINE h == Head(externals[s])
<1>0. SessFuns /\ SessOK(s) /\ EnvTypes /\ pc[s] = "data" /\ externals[s] # <<>>
  BY DEF SessInv, Enqueue, Enqueueing
<1>1. CASE Fails(s)
  BY <1>0, <1>1, FailsGood
<1>2. CASE /\ copies' = [copies EXCEPT ![s][h] = @ + 1]
           /\ externals' = [externals EXCEPT ![s] = Tail(@)]
           /\ UNCHANGED <<envVars, pc, sessVars, locals, offered, pastVars, tries>>
  <2>1. UNCHANGED <<users, changes, heard, pc, mode, authed, from, named, locals, offered, skipped, due, missed,
                  risked, sentCopies, tries>>
    BY <1>2 DEF envVars, sessVars, pastVars
  <2>2. /\ externals[s] \in Seq(Addrs) /\ h \in Addrs /\ Tail(externals[s]) \in Seq(Addrs)
        /\ Len(Tail(externals[s])) = Len(externals[s]) - 1 /\ h = externals[s][1]
        /\ \A i \in 1..Len(Tail(externals[s])) : Tail(externals[s])[i] = externals[s][i + 1]
    BY <1>0, HeadTailProperties DEF SessFuns
  <2>3. \A a \in Addrs : Times(externals[s])[a] = Times(Tail(externals[s]))[a] + (IF a = h THEN 1 ELSE 0)
    BY <1>0, <2>2, TimesTail
  <2>4. Times(Tail(externals[s])) \in Counters
    BY <2>2, TimesType DEF Counters
  <2> HIDE DEF h
  <2>5. SessFuns' /\ externals'[s] = Tail(externals[s])
    <3>1. copies[s] \in Counters /\ copies \in [Sessions -> Counters]
      BY <1>0 DEF SessFuns
    <3>2. [copies[s] EXCEPT ![h] = @ + 1] \in Counters
      BY <2>2, <3>1 DEF Counters
    <3>3. copies' \in [Sessions -> Counters]
      BY <1>2, <3>1, <3>2
    <3>4. externals' \in [Sessions -> Seq(Addrs)] /\ externals'[s] = Tail(externals[s])
      BY <1>0, <1>2, <2>2 DEF SessFuns
    <3> QED
      BY <1>0, <2>1, <3>3, <3>4 DEF SessFuns
  <2>6. \A a \in Addrs : copies'[s][a] = copies[s][a] + (IF a = h THEN 1 ELSE 0)
    <3>1. \A a \in Addrs : copies'[s][a] = IF a = h THEN copies[s][a] + 1 ELSE copies[s][a]
      BY <1>0, <1>2, <2>2 DEF SessFuns, Counters
    <3> QED
      BY <1>0, <3>1, Counts4
  <2>7. EnvTypes'
    BY <1>0, <2>1 DEF EnvTypes
  <2>8. StateOK(s)'
    BY <1>0, <2>1 DEF SessOK, StateOK
  <2>9. CopiesOK(s)'
    <3> SUFFICES ASSUME NEW a \in Addrs PROVE CopyBounds(s, a)'
      BY DEF CopiesOK, CopyBounds
    <3>1. Waiting(s, a)' = Times(locals[s])[a] + Times(Tail(externals[s]))[a]
      BY <1>0, <2>1, <2>5 DEF Waiting
    <3>2. Waiting(s, a) = Times(locals[s])[a] + (Times(Tail(externals[s]))[a] + (IF a = h THEN 1 ELSE 0))
      BY <1>0, <2>3 DEF Waiting
    <3>3. CopyBounds(s, a)
      BY <1>0 DEF SessOK, CopiesOK, CopyBounds
    <3>4. Times(Tail(externals[s]))[a] \in Nat
      BY <2>4 DEF Counters
    <3> DEFINE d == IF a = h THEN 1 ELSE 0
    <3>5. Passed(s, a)' = Passed(s, a) + d /\ Passed(s, a) \in Nat
      <4>1. copies'[s][a] = copies[s][a] + d /\ missed'[s][a] = missed[s][a] /\ skipped'[s][a] = skipped[s][a]
        BY <2>1, <2>6
      <4>2. copies[s][a] \in Nat /\ missed[s][a] \in Nat /\ skipped[s][a] \in Nat /\ d \in Nat
        BY <1>0, Counts4
      <4> QED
        BY <4>1, <4>2 DEF Passed
    <3>6. /\ offered'[s][a] = offered[s][a] /\ due'[s][a] = due[s][a] /\ risked'[s][a] = risked[s][a]
          /\ skipped'[s][a] = skipped[s][a]
      BY <2>1
    <3>7. Waiting(s, a) = Waiting(s, a)' + d /\ Waiting(s, a)' \in Nat /\ d \in Nat
      BY <1>0, <3>1, <3>2, <3>4, Counts4
    <3>8. /\ due[s][a] \in Nat /\ risked[s][a] \in Nat /\ offered[s][a] \in Nat
          /\ skipped[s][a] \in Nat
      BY <1>0, Counts4
    <3> HIDE DEF d
    <3>9. Passed(s, a)' + Waiting(s, a)' = Passed(s, a) + Waiting(s, a)
      BY <3>5, <3>7
    <3>10. Waiting(s, a)' <= Waiting(s, a)
      BY <3>7
    <3>11. (Waiting(s, a) + skipped[s][a] <= offered[s][a])'
      BY <3>3, <3>6, <3>7, <3>8, <3>10 DEF CopyBounds
    <3> QED
      BY <3>3, <3>6, <3>9, <3>11 DEF CopyBounds
  <2>10. SentOK(s)'
    <3> SUFFICES ASSUME Enabled, NEW k \in DOMAIN Rcpts[s], Outside(Rcpts[s][k])
                 PROVE  /\ sentCopies[s] <= copies'[s][Rcpts[s][k]]
                        /\ mode[s] = "submission" =>
                             sentCopies[s] < copies'[s][Rcpts[s][k]] \/ Rcpts[s][k] \in Range(externals'[s])
      BY <1>0, <2>1 DEF SentOK, Enabled
    <3> DEFINE a == Rcpts[s][k]
    <3>1. /\ sentCopies[s] <= copies[s][a] /\ a \in Addrs /\ sentCopies[s] \in Nat
          /\ mode[s] = "submission" => sentCopies[s] < copies[s][a] \/ a \in Range(externals[s])
      BY <1>0 DEF SessOK, SentOK, Outside, SessFuns
    <3>2. a \in Range(externals[s]) => a = h \/ a \in Range(externals'[s])
      <4>1. /\ DOMAIN externals[s] = 1..Len(externals[s]) /\ Len(externals[s]) \in Nat
            /\ DOMAIN Tail(externals[s]) = 1..(Len(externals[s]) - 1)
        BY <2>2, LenProperties
      <4>2. ASSUME NEW i \in 1..Len(externals[s]), i # 1
            PROVE  i - 1 \in DOMAIN Tail(externals[s]) /\ Tail(externals[s])[i - 1] = externals[s][i]
        BY <2>2, <4>1, <4>2
      <4>3. ASSUME a \in Range(externals[s]), a # h PROVE a \in Range(externals'[s])
        <5>1. PICK i \in 1..Len(externals[s]) : externals[s][i] = a
          BY <4>1, <4>3 DEF Range
        <5>2. i # 1
          BY <2>2, <4>3, <5>1
        <5> QED
          BY <2>5, <4>2, <5>1, <5>2 DEF Range
      <4> QED
        BY <4>3
    <3>3. copies'[s][a] = copies[s][a] + (IF a = h THEN 1 ELSE 0) /\ copies[s][a] \in Nat
      BY <1>0, <2>6, <3>1, Counts4
    <3> HIDE DEF a
    <3>4. sentCopies[s] <= copies'[s][a]
      BY <3>1, <3>3
    <3>5. mode[s] = "submission" => sentCopies[s] < copies'[s][a] \/ a \in Range(externals'[s])
      BY <3>1, <3>2, <3>3
    <3> QED
      BY <3>4, <3>5 DEF a
  <2> QED
    BY <2>5, <2>7, <2>8, <2>9, <2>10 DEF Good, SessOK
<1> QED
  BY <1>1, <1>2 DEF Enqueue

LEMMA SucceedsGood ==
  ASSUME SessInv, NEW s \in Sessions, Succeeds(s)
  PROVE  Good(s)
<1>0. SessFuns /\ SessOK(s) /\ EnvTypes
  BY DEF SessInv
<1>1. /\ pc[s] = "data" /\ locals[s] = <<>> /\ externals[s] = <<>>
      /\ offered' = [offered EXCEPT ![s] = NoMail] /\ skipped' = [skipped EXCEPT ![s] = NoMail] /\ Cleared(s)
      /\ UNCHANGED <<users, changes, mode, copies, tries>>
      /\ \/ /\ authed[s] /\ mode[s] = "submission"
            /\ sentCopies' = [sentCopies EXCEPT ![s] = @ + 1]
         \/ sentCopies' = sentCopies
      /\ \/ /\ due' = [due EXCEPT ![s] = Plus(due[s], offered[s])] /\ risked' = risked
            /\ missed' = [missed EXCEPT ![s] = Plus(missed[s], skipped[s])]
            /\ heard' = heard \union {s}
            /\ pc' = [pc EXCEPT ![s] = "open"] /\ authed' = authed
         \/ /\ risked' = [risked EXCEPT ![s] = Plus(risked[s], offered[s])] /\ due' = due
            /\ missed' = missed
            /\ heard' = heard
            /\ pc' = [pc EXCEPT ![s] = "closed"] /\ authed' = [authed EXCEPT ![s] = FALSE]
  BY DEF Succeeds, Answered, Enqueueing, Goto, envVars
<1>2. /\ Plus(risked[s], offered[s]) \in Counters /\ Plus(due[s], offered[s]) \in Counters
      /\ Plus(missed[s], skipped[s]) \in Counters
      /\ \A a \in Addrs : /\ Plus(risked[s], offered[s])[a] = risked[s][a] + offered[s][a]
                          /\ Plus(due[s], offered[s])[a] = due[s][a] + offered[s][a]
                          /\ Plus(missed[s], skipped[s])[a] = missed[s][a] + skipped[s][a]
  BY <1>0, PlusType DEF SessFuns
<1>3. SessFuns'
  <2>1. sentCopies' \in [Sessions -> Nat]
    BY <1>0, <1>1 DEF SessFuns
  <2>2. offered' \in [Sessions -> Counters] /\ skipped' \in [Sessions -> Counters]
    BY <1>0, <1>1, NoMailType DEF SessFuns
  <2>3. due' \in [Sessions -> Counters] /\ risked' \in [Sessions -> Counters]
    <3>1. CASE due' = [due EXCEPT ![s] = Plus(due[s], offered[s])] /\ risked' = risked
      BY <1>0, <1>2, <3>1 DEF SessFuns
    <3>2. CASE risked' = [risked EXCEPT ![s] = Plus(risked[s], offered[s])] /\ due' = due
      BY <1>0, <1>2, <3>2 DEF SessFuns
    <3> QED
      BY <1>1, <3>1, <3>2
  <2>5. missed' \in [Sessions -> Counters]
    BY <1>0, <1>1, <1>2 DEF SessFuns
  <2>4. pc' \in [Sessions -> {"closed", "open", "data"}] /\ authed' \in [Sessions -> BOOLEAN]
    BY <1>0, <1>1 DEF SessFuns
  <2> QED
    BY <1>0, <1>1, <2>1, <2>2, <2>3, <2>4, <2>5, ClearedFacts DEF SessFuns
<1>4. EnvTypes'
  BY <1>0, <1>1 DEF EnvTypes
<1>5. offered'[s] = NoMail /\ skipped'[s] = NoMail /\ pc'[s] \in {"open", "closed"} /\ (pc'[s] = "closed" => ~authed'[s])
  BY <1>0, <1>1 DEF SessFuns
<1>6. sentCopies'[s] = sentCopies[s] \/ (mode[s] = "submission" /\ sentCopies'[s] = sentCopies[s] + 1)
  BY <1>0, <1>1 DEF SessFuns
<1>7. tries'[s] <= MaxTries[s] /\ sentCopies'[s] <= tries'[s]
  BY <1>0, <1>1, <1>6 DEF SessFuns, SessOK, StateOK
<1>8. Enabled => \A k \in DOMAIN Rcpts[s] : Outside(Rcpts[s][k]) => sentCopies'[s] <= copies'[s][Rcpts[s][k]]
  <2> SUFFICES ASSUME Enabled, NEW k \in DOMAIN Rcpts[s], Outside(Rcpts[s][k])
               PROVE  sentCopies'[s] <= copies[s][Rcpts[s][k]]
    BY <1>1
  <2>1. Range(externals[s]) = {}
    BY <1>1 DEF Range
  <2>2. /\ sentCopies[s] <= copies[s][Rcpts[s][k]] /\ Rcpts[s][k] \in Addrs /\ sentCopies[s] \in Nat
        /\ mode[s] = "submission" => sentCopies[s] < copies[s][Rcpts[s][k]]
    BY <1>0, <1>1, <2>1 DEF SessOK, SentOK, Outside, SessFuns
  <2>3. copies[s][Rcpts[s][k]] \in Nat
    BY <1>0, <2>2, Counts4
  <2> QED
    BY <1>6, <2>2, <2>3
<1>9. StateOK(s)' /\ SentOK(s)'
  BY <1>1, <1>5, <1>7, <1>8, ClearedOK
<1>10. CopiesOK(s)'
  <2> SUFFICES ASSUME NEW a \in Addrs PROVE CopyBounds(s, a)'
    BY DEF CopiesOK, CopyBounds
  <2>1. Waiting(s, a) = 0 /\ Waiting(s, a)' = 0 /\ offered'[s][a] = 0 /\ skipped'[s][a] = 0
    BY <1>1, <1>5, TimesEmpty, NoMailType DEF Waiting
  <2>2. CopyBounds(s, a)
    BY <1>0 DEF SessOK, CopiesOK, CopyBounds
  <2>3. \/ /\ due'[s][a] = due[s][a] + offered[s][a] /\ risked'[s][a] = risked[s][a]
           /\ missed'[s][a] = missed[s][a] + skipped[s][a]
        \/ /\ risked'[s][a] = risked[s][a] + offered[s][a] /\ due'[s][a] = due[s][a]
           /\ missed'[s][a] = missed[s][a]
    BY <1>0, <1>1, <1>2 DEF SessFuns
  <2>4. /\ copies'[s][a] = copies[s][a] /\ copies[s][a] \in Nat /\ missed[s][a] \in Nat /\ skipped[s][a] \in Nat
        /\ due[s][a] \in Nat /\ risked[s][a] \in Nat /\ offered[s][a] \in Nat
    BY <1>0, <1>1, Counts4
  <2>5. CASE due'[s][a] = due[s][a] + offered[s][a] /\ risked'[s][a] = risked[s][a] /\ missed'[s][a] = missed[s][a] + skipped[s][a]
    BY <2>1, <2>2, <2>4, <2>5 DEF CopyBounds, Passed
  <2>6. CASE risked'[s][a] = risked[s][a] + offered[s][a] /\ due'[s][a] = due[s][a] /\ missed'[s][a] = missed[s][a]
    BY <2>1, <2>2, <2>4, <2>6 DEF CopyBounds, Passed
  <2> QED
    BY <2>3, <2>5, <2>6
<1> QED
  BY <1>3, <1>4, <1>9, <1>10 DEF Good, SessOK

-----------------------------------------------------------------------------
(* Every step.                                                             *)
LEMMA SessionStep ==
  ASSUME SessInv, NEW s \in Sessions, Session(s)
  PROVE  SessInv'
<1>1. Good(s)
  <2>1. CASE Refused(s)
    BY <2>1, FailsGood DEF Refused, Enqueueing
  <2> QED
    BY <2>1, ConnectGood, AuthGood, MailGood, RcptGood, ResetGood, DataGood, UnreadableGood, DeliverGood,
       EnqueueGood, SucceedsGood DEF Session
<1>2. \A q \in Sessions \ {s} : SameSess(q)
  BY OthersSame DEF SessInv
<1>3. \A q \in Sessions \ {s} : SessOK(q)'
  BY <1>2, SameSessOK DEF SessInv
<1> QED
  BY <1>1, <1>3 DEF Good, SessInv

LEMMA RestartStep ==
  ASSUME SessInv, Restart
  PROVE  SessInv'
<1>0. SessFuns /\ EnvTypes /\ \A s \in Sessions : SessOK(s)
  BY DEF SessInv
<1>1. /\ pc' = ForAll("closed") /\ authed' = ForAll(FALSE) /\ from' = ForAll("nobody") /\ named' = ForAll(0)
      /\ locals' = ForAll(<<>>) /\ externals' = ForAll(<<>>) /\ offered' = ForAll(NoMail) /\ skipped' = ForAll(NoMail)
      /\ risked' = [s \in Sessions |-> Plus(risked[s], offered[s])]
      /\ UNCHANGED <<users, changes, mode, due, missed, heard, copies, sentCopies, tries>>
  BY DEF Restart, envVars
<1>2. \A s \in Sessions : /\ Plus(risked[s], offered[s]) \in Counters
                          /\ \A a \in Addrs : Plus(risked[s], offered[s])[a] = risked[s][a] + offered[s][a]
  BY <1>0, PlusType DEF SessFuns
<1>3. \A s \in Sessions : /\ pc'[s] = "closed" /\ ~authed'[s] /\ from'[s] = "nobody" /\ named'[s] = 0
                          /\ locals'[s] = <<>> /\ externals'[s] = <<>> /\ offered'[s] = NoMail /\ skipped'[s] = NoMail
                          /\ risked'[s] = Plus(risked[s], offered[s])
  BY <1>1 DEF ForAll
<1>4. SessFuns'
  <2>1. <<>> \in Seq(Addrs)
    BY EmptySeq
  <2>2. /\ locals' \in [Sessions -> Seq(Addrs)] /\ externals' \in [Sessions -> Seq(Addrs)]
        /\ offered' \in [Sessions -> Counters] /\ skipped' \in [Sessions -> Counters]
        /\ risked' \in [Sessions -> Counters]
    BY <1>1, <1>2, <2>1, NoMailType DEF ForAll
  <2> QED
    BY <1>0, <1>1, <2>2 DEF SessFuns, ForAll
<1>5. EnvTypes'
  BY <1>0, <1>1 DEF EnvTypes
<1>6. ASSUME NEW s \in Sessions PROVE SessOK(s)'
  <2>1. 0 <= Len(Rcpts[s]) /\ \A k \in DOMAIN Rcpts[s] : ~(k <= 0)
    BY Messages
  <2>2. StateOK(s)'
    BY <1>0, <1>1, <1>3, <2>1 DEF SessOK, StateOK
  <2>3. SentOK(s)'
    BY <1>0, <1>1, <1>3, <2>1 DEF SessOK, SentOK, Enabled
  <2>4. CopiesOK(s)'
    <3> SUFFICES ASSUME NEW a \in Addrs PROVE CopyBounds(s, a)'
      BY DEF CopiesOK, CopyBounds
    <3>1. CopyBounds(s, a) /\ Waiting(s, a) \in Nat
      BY <1>0, Counts4 DEF SessOK, CopiesOK, CopyBounds, Waiting
    <3>2. /\ risked'[s][a] = risked[s][a] + offered[s][a]
          /\ Waiting(s, a)' = 0 /\ offered'[s][a] = 0 /\ skipped'[s][a] = 0
      BY <1>2, <1>3, NoMailType DEF Waiting
    <3>3. /\ due[s][a] \in Nat /\ risked[s][a] \in Nat /\ offered[s][a] \in Nat
          /\ copies[s][a] \in Nat /\ missed[s][a] \in Nat /\ skipped[s][a] \in Nat
      BY <1>0, Counts4
    <3>4. due'[s][a] = due[s][a] /\ copies'[s][a] = copies[s][a]
      BY <1>1
    <3>5. missed'[s][a] = missed[s][a]
      BY <1>1
    <3> QED
      BY <3>1, <3>2, <3>3, <3>4, <3>5 DEF CopyBounds, Passed
  <2> QED
    BY <2>2, <2>3, <2>4 DEF SessOK
<1> QED
  BY <1>4, <1>5, <1>6 DEF SessInv

LEMMA SessStep == SessInv /\ [Next]_vars => SessInv'
<1> SUFFICES ASSUME SessInv, [Next]_vars PROVE SessInv'
  OBVIOUS
<1>1. ASSUME UNCHANGED <<pc, mode, authed, from, named, locals, externals, offered, skipped, due, missed, risked, copies,
                         sentCopies, tries, heard>>,
             users' \subseteq Domestic, changes' \in 0..MaxChanges
      PROVE  SessInv'
  <2>1. SessFuns'
    BY <1>1 DEF SessInv, SessFuns
  <2>2. EnvTypes'
    BY <1>1 DEF SessInv, EnvTypes
  <2>3. \A s \in Sessions : SessOK(s)'
    BY <1>1, SameSessOK DEF SessInv, SameSess
  <2> QED
    BY <2>1, <2>2, <2>3 DEF SessInv
<1>2. ASSUME NEW s \in Sessions, Session(s) PROVE SessInv'
  BY <1>2, SessionStep
<1>3. ASSUME NEW a \in Domestic, UserChanges(a) PROVE SessInv'
  <2>1. users' \subseteq Domestic /\ changes' \in 0..MaxChanges
    BY <1>3, Messages DEF UserChanges, SessInv, EnvTypes
  <2> QED
    BY <1>1, <1>3, <2>1 DEF UserChanges, sessVars, pastVars
<1>4. CASE OtherSends \/ TimePasses
  <2>1. UNCHANGED <<users, changes>>
    BY <1>4 DEF OtherSends, TimePasses, envVars
  <2> QED
    BY <1>1, <1>4, <2>1 DEF OtherSends, TimePasses, sessVars, pastVars, SessInv, EnvTypes
<1>5. CASE Restart
  BY <1>5, RestartStep
<1>6. CASE UNCHANGED vars
  BY <1>1, <1>6 DEF vars, envVars, sessVars, pastVars, SessInv, EnvTypes
<1> QED
  BY <1>2, <1>3, <1>4, <1>5, <1>6 DEF Next

LEMMA SessStart == Init => SessInv
<1> SUFFICES ASSUME Init PROVE SessInv
  OBVIOUS
<1>1. <<>> \in Seq(Addrs)
  BY EmptySeq
<1>2. SessFuns
  BY <1>1, NoMailType DEF Init, SessFuns, ForAll
<1>3. EnvTypes
  BY Messages DEF Init, EnvTypes
<1>4. ASSUME NEW s \in Sessions PROVE SessOK(s)
  <2>1. /\ pc[s] = "closed" /\ ~authed[s] /\ from[s] = "nobody" /\ named[s] = 0 /\ tries[s] = 0 /\ sentCopies[s] = 0
        /\ locals[s] = <<>> /\ externals[s] = <<>> /\ offered[s] = NoMail /\ skipped[s] = NoMail
        /\ due[s] = NoMail /\ missed[s] = NoMail /\ risked[s] = NoMail /\ copies[s] = NoMail
    BY DEF Init, ForAll
  <2>2. 0 <= Len(Rcpts[s]) /\ 0 <= MaxTries[s]
    BY Messages
  <2>3. StateOK(s)
    BY <2>1, <2>2 DEF StateOK
  <2>4. CopiesOK(s)
    BY <2>1, NoMailType DEF CopiesOK, Passed, Waiting
  <2>5. SentOK(s)
    BY <2>1, NoMailType DEF SentOK, Outside
  <2> QED
    BY <2>3, <2>4, <2>5 DEF SessOK
<1> QED
  BY <1>2, <1>3, <1>4 DEF SessInv

LEMMA SessionsKeep == Spec => []SessInv
BY SessStart, SessStep, PTL DEF Spec

\* Who is passed over: a local recipient, and only after a failure or a change.
LocalOK == \A s \in Sessions : \A k \in DOMAIN locals[s] :
             locals[s][k] \in Domestic /\ (changes = 0 => locals[s][k] \in users)
Excused(a) == a \in Domestic /\ (MayFail \/ changes > 0)
MissOK(s) == \A a \in Addrs : skipped[s][a] > 0 \/ missed[s][a] > 0 => Excused(a)
MissInv == LocalOK /\ \A s \in Sessions : MissOK(s)

LEMMA LocalStep == SessInv /\ LocalOK /\ [Next]_vars => LocalOK'
<1> SUFFICES ASSUME SessInv, LocalOK, [Next]_vars PROVE LocalOK'
  OBVIOUS
<1>0. SessFuns /\ changes \in Nat /\ users \subseteq Domestic
  BY Messages DEF SessInv, EnvTypes
<1>1. CASE locals' = locals /\ users' = users /\ changes' = changes
  BY <1>1 DEF LocalOK
<1>2. CASE locals' = locals /\ changes' = changes + 1
  BY <1>0, <1>2 DEF LocalOK
<1>3. ASSUME NEW s \in Sessions, users' = users /\ changes' = changes,
             \A q \in Sessions \ {s} : locals'[q] = locals[q],
             \A k \in DOMAIN locals'[s] :
               (\E i \in DOMAIN locals[s] : locals'[s][k] = locals[s][i]) \/ locals'[s][k] \in users
      PROVE  LocalOK'
  <2>1. ASSUME NEW k \in DOMAIN locals'[s]
        PROVE  locals'[s][k] \in Domestic /\ (changes = 0 => locals'[s][k] \in users)
    <3>1. CASE locals'[s][k] \in users
      BY <1>0, <3>1
    <3>2. CASE \E i \in DOMAIN locals[s] : locals'[s][k] = locals[s][i]
      BY <3>2 DEF LocalOK
    <3> QED
      BY <1>3, <3>1, <3>2
  <2> QED
    BY <1>3, <2>1 DEF LocalOK
<1>4. ASSUME NEW s \in Sessions, Session(s) PROVE LocalOK'
  <2>1. users' = users /\ changes' = changes
    BY <1>4 DEF Session, Connect, Auth, Mail, Rcpt, Reset, Logout, Data, Unreadable, Deliver, Refused, Enqueue,
                Succeeds, Fails, envVars
  <2>2. \A q \in Sessions \ {s} : locals'[q] = locals[q]
    BY <1>0, <1>4, OthersSame DEF SameSess
  <2>3. CASE locals' = locals
    BY <1>1, <2>1, <2>3
  <2>4. CASE Cleared(s)
    <3>1. DOMAIN locals'[s] = {}
      BY <1>0, <2>4, ClearedFacts
    <3> QED
      BY <1>3, <2>1, <2>2, <3>1
  <2>5. CASE Rcpt(s)
    <3>1. named'[s] = named[s] + 1 /\ named[s] \in Nat
      BY <1>0, <2>5 DEF Rcpt, SessFuns
    <3> DEFINE a == Rcpts[s][named'[s]]
    <3>2. locals' = locals \/ (a \in users /\ locals' = [locals EXCEPT ![s] = Append(@, a)])
      BY <2>5 DEF Rcpt
    <3>3. CASE a \in users /\ locals' = [locals EXCEPT ![s] = Append(@, a)]
      <4>1. a \in Addrs /\ locals[s] \in Seq(Addrs) /\ locals'[s] = Append(locals[s], a)
        BY <1>0, <3>3, Messages DEF SessFuns
      <4>2. /\ Append(locals[s], a) \in Seq(Addrs) /\ Len(Append(locals[s], a)) = Len(locals[s]) + 1
            /\ Append(locals[s], a)[Len(locals[s]) + 1] = a
            /\ \A i \in 1..Len(locals[s]) : Append(locals[s], a)[i] = locals[s][i]
            /\ DOMAIN locals[s] = 1..Len(locals[s]) /\ Len(locals[s]) \in Nat
        BY <4>1, AppendProperties, LenProperties
      <4>3. DOMAIN locals'[s] = 1..(Len(locals[s]) + 1)
        BY <4>1, <4>2, LenProperties
      <4> HIDE DEF a
      <4>4. \A k \in DOMAIN locals'[s] :
              (\E i \in DOMAIN locals[s] : locals'[s][k] = locals[s][i]) \/ locals'[s][k] \in users
        BY <3>3, <4>1, <4>2, <4>3
      <4> QED
        BY <1>3, <2>1, <2>2, <4>4
    <3> QED
      BY <2>3, <3>2, <3>3
  <2>6. CASE Deliver(s)
    <3>1. locals'[s] = Tail(locals[s]) /\ locals[s] # <<>> /\ locals[s] \in Seq(Addrs)
      BY <1>0, <2>6 DEF Deliver, SessFuns
    <3>2. /\ Tail(locals[s]) \in Seq(Addrs) /\ Len(Tail(locals[s])) = Len(locals[s]) - 1
          /\ \A i \in 1..Len(Tail(locals[s])) : Tail(locals[s])[i] = locals[s][i + 1]
          /\ DOMAIN locals[s] = 1..Len(locals[s]) /\ Len(locals[s]) \in Nat
      BY <3>1, HeadTailProperties, LenProperties
    <3>3. DOMAIN Tail(locals[s]) = 1..Len(Tail(locals[s]))
      BY <3>2, LenProperties
    <3>4. \A k \in DOMAIN locals'[s] : \E i \in DOMAIN locals[s] : locals'[s][k] = locals[s][i]
      BY <3>1, <3>2, <3>3
    <3> QED
      BY <1>3, <2>1, <2>2, <3>4
  <2> QED
    BY <1>4, <2>3, <2>4, <2>5, <2>6 DEF Session, Connect, Auth, Mail, Reset, Logout, Data, Unreadable, Refused, Enqueue,
                Succeeds, Fails
<1>5. CASE Restart
  BY <1>5 DEF Restart, ForAll, LocalOK
<1> QED
  BY <1>1, <1>2, <1>4, <1>5 DEF Next, UserChanges, OtherSends, TimePasses, vars, envVars

LEMMA MissStep == SessInv /\ MissInv /\ [Next]_vars => MissInv'
<1> SUFFICES ASSUME SessInv, MissInv, [Next]_vars PROVE MissInv'
  OBVIOUS
<1>0. SessFuns /\ changes \in Nat /\ LocalOK /\ \A s \in Sessions : MissOK(s)
  BY Messages DEF SessInv, EnvTypes, MissInv
<1>1. LocalOK'
  BY <1>0, LocalStep
<1>2. changes' \in Nat /\ changes' >= changes
  <2>1. changes' = changes \/ changes' = changes + 1
    BY DEF Next, Session, Connect, Auth, Mail, Rcpt, Reset, Logout, Data, Unreadable, Deliver, Refused, Enqueue,
           Succeeds, Fails, UserChanges, OtherSends, Restart, TimePasses, vars, envVars
  <2> QED
    BY <1>0, <2>1
<1>3. \A a : Excused(a) => Excused(a)'
  BY <1>0, <1>2 DEF Excused
<1>4. ASSUME NEW s \in Sessions, \A a \in Addrs : skipped'[s][a] = skipped[s][a] \/ skipped'[s][a] = 0 \/ Excused(a),
             \A a \in Addrs : missed'[s][a] = missed[s][a] \/ missed'[s][a] = missed[s][a] + skipped[s][a]
      PROVE  MissOK(s)'
  <2> SUFFICES ASSUME NEW a \in Addrs, ~Excused(a) PROVE ~(skipped'[s][a] > 0) /\ ~(missed'[s][a] > 0)
    BY <1>3 DEF MissOK
  <2>1. ~(skipped[s][a] > 0) /\ ~(missed[s][a] > 0) /\ skipped[s][a] \in Nat /\ missed[s][a] \in Nat
    BY <1>0, Counts4 DEF MissOK
  <2> QED
    BY <1>4, <2>1
<1>5. ASSUME NEW s \in Sessions, skipped'[s] = skipped[s] \/ skipped'[s] = NoMail,
             missed'[s] = missed[s] \/ missed'[s] = Plus(missed[s], skipped[s])
      PROVE  MissOK(s)'
  <2>1. \A a \in Addrs : Plus(missed[s], skipped[s])[a] = missed[s][a] + skipped[s][a]
    BY <1>0, PlusType DEF SessFuns
  <2> QED
    BY <1>4, <1>5, <2>1, NoMailType
<1>6. ASSUME NEW s \in Sessions, Session(s), NEW q \in Sessions PROVE MissOK(q)'
  <2>1. CASE q # s
    BY <1>0, <1>5, <1>6, <2>1, OthersSame DEF SameSess
  <2>2. CASE q = s /\ skipped' = skipped /\ missed' = missed
    BY <1>5, <2>2
  <2>3. CASE q = s /\ (Fails(s) \/ Succeeds(s))
    BY <1>0, <1>5, <2>3 DEF Fails, Succeeds, Answered, SessFuns
  <2>4. CASE q = s /\ Deliver(s)
    <3> DEFINE h == Head(locals[s])
    <3>1. /\ missed' = missed /\ locals[s] # <<>> /\ locals[s] \in Seq(Addrs)
          /\ skipped' = skipped \/ ((h \notin users \/ MayFail) /\ skipped' = [skipped EXCEPT ![s][h] = @ + 1])
      BY <1>0, <2>4 DEF Deliver, SessFuns
    <3>2. h = locals[s][1] /\ 1 \in DOMAIN locals[s]
      BY <3>1, HeadTailProperties, LenProperties
    <3>3. h \notin users \/ MayFail => Excused(h)
      <4>1. h \in Domestic /\ (changes = 0 => h \in users)
        BY <1>0, <3>2 DEF LocalOK
      <4> QED
        BY <1>0, <4>1 DEF Excused
    <3> HIDE DEF h
    <3>4. CASE Excused(h) /\ skipped' = [skipped EXCEPT ![s][h] = @ + 1]
      <4>1. \A a \in Addrs : a # h => skipped'[s][a] = skipped[s][a]
        BY <1>0, <3>4 DEF SessFuns, Counters
      <4>2. \A a \in Addrs : skipped'[s][a] = skipped[s][a] \/ Excused(a)
        BY <3>4, <4>1
      <4> QED
        BY <1>4, <2>4, <3>1, <4>2
    <3> QED
      BY <1>5, <2>4, <3>1, <3>3, <3>4
  <2> QED
    BY <1>6, <2>1, <2>2, <2>3, <2>4 DEF Session, Connect, Auth, Mail, Rcpt, Reset, Logout, Data, Unreadable, Refused,
                Enqueue, pastVars
<1>7. CASE Restart
  <2>1. \A s \in Sessions : skipped'[s] = NoMail /\ missed'[s] = missed[s]
    BY <1>7 DEF Restart, ForAll
  <2> QED
    BY <1>1, <1>5, <2>1 DEF MissInv
<1>8. CASE skipped' = skipped /\ missed' = missed
  BY <1>1, <1>5, <1>8 DEF MissInv
<1> QED
  BY <1>1, <1>6, <1>7, <1>8 DEF MissInv, Next, UserChanges, OtherSends, TimePasses, vars, pastVars

(* However often a client sends its message again, and whatever fails: a   *)
(* copy for each recipient of a DATA that was answered with success but for*)
(* local ones passed over after a failure or a change of the users, and no *)
(* copy that no DATA asked for (Data, Enqueue, saveMessage).               *)
THEOREM AccountedCorrect == Spec => []Accounted
<1>1. SessInv /\ MissInv => Accounted
  <2> SUFFICES ASSUME SessInv, MissInv, NEW s \in Sessions, NEW a \in Addrs
               PROVE  /\ due[s][a] <= copies[s][a] + missed[s][a]
                      /\ copies[s][a] + missed[s][a] <= due[s][a] + risked[s][a] + offered[s][a]
                      /\ missed[s][a] > 0 => Excused(a)
    BY DEF Accounted, Excused
  <2>0. SessFuns
    BY DEF SessInv
  <2>1. CopyBounds(s, a) /\ Waiting(s, a) \in Nat
    BY <2>0, Counts4 DEF SessInv, SessOK, CopiesOK, CopyBounds, Waiting
  <2>2. missed[s][a] > 0 => Excused(a)
    BY DEF MissInv, MissOK
  <2> QED
    BY <2>0, <2>1, <2>2, Counts4 DEF CopyBounds, Passed
<1>2. Init => MissInv
  BY NoMailType DEF Init, ForAll, MissInv, LocalOK, MissOK
<1> QED
  BY <1>1, <1>2, MissStep, SessionsKeep, PTL DEF Spec

(* The copy in Sent is only there if the message has been queued for every *)
(* recipient outside, and whoever sends outside from a submission port     *)
(* sends as himself, in any order of the commands (Mail, Rcpt, Data, Auth).*)
THEOREM SubmissionInvCorrect == Spec => []SubmissionInv
<1>1. SessInv /\ RateInv => TypeOK
  <2> SUFFICES ASSUME SessInv, RateInv PROVE TypeOK
    OBVIOUS
  <2>1. now \in Ticks /\ win \in Window \union {NoWindow} /\ {counted, begun, restarts} \subseteq Seq(Ticks)
    BY DEF RateInv, RateTypes, Past
  <2>2. \A s \in Sessions :
          /\ named[s] \in 0..Len(Rcpts[s]) /\ tries[s] \in 0..MaxTries[s] /\ sentCopies[s] \in 0..tries[s]
          /\ {locals[s], externals[s]} \subseteq Seq(Addrs)
          /\ {offered[s], skipped[s], due[s], missed[s], risked[s], copies[s]} \subseteq [Addrs -> Nat]
    BY Messages DEF SessInv, SessFuns, SessOK, StateOK, Counters
  <2> QED
    BY <2>1, <2>2 DEF TypeOK, SessInv, SessFuns, EnvTypes, SessOK, StateOK
<1>2. SessInv => SentIsTrue
  <2> SUFFICES ASSUME SessInv, Enabled, NEW s \in Sessions, NEW k \in DOMAIN Rcpts[s], Rcpts[s][k] \notin Domestic
               PROVE  sentCopies[s] <= copies[s][Rcpts[s][k]]
    BY DEF SentIsTrue
  <2>1. Rcpts[s][k] \in Addrs
    BY Messages, ElementOfSeq
  <2> QED
    BY <2>1 DEF SessInv, SessOK, SentOK, Outside
<1>3. SessInv => SenderVerified
  BY DEF SessInv, SessOK, StateOK, SenderVerified
<1>4. RateSpec => []RateInv
  BY RateStart, RateStep, PTL DEF RateSpec
<1>5. SessInv /\ RateInv => SubmissionInv
  BY <1>1, <1>2, <1>3 DEF SubmissionInv
<1> QED
  BY <1>4, <1>5, RateCorrect, SessionsKeep, PTL
=============================================================================
