-------------------------- MODULE ImapPushProofs ---------------------------
(***************************************************************************)
(* The pushing of changes between IMAP sessions, proved for any sessions   *)
(* and requests and any number of messages: a client that nothing may have *)
(* misled knows the folder, and the hub holds the sessions that have it    *)
(* selected.                                                               *)
(***************************************************************************)
EXTENDS ImapPushProperties, Integers, FiniteSetTheorems, SequenceTheorems, WellFoundedInduction,
        TLAPS

-----------------------------------------------------------------------------
(* Numbers.  The library's induction takes a predicate as a parameter;     *)
(* that < is well founded serves here.                                     *)
LEMMA LeastNumber ==
  ASSUME NEW T \in SUBSET Nat, T # {}
  PROVE  \E x \in T : \A y \in T : x <= y
<1> DEFINE R == OpToRel(<, Nat)
<1>1. IsWellFoundedOn(R, Nat)
  BY NatLessThanWellFounded
<1>2. \A x, y \in Nat : x < y => <<x, y>> \in R
  BY DEF OpToRel
<1> HIDE DEF R
<1>3. PICK x \in T : \A y \in T : ~ (<<y, x>> \in R)
  BY <1>1, WFMin
<1>4. ASSUME NEW y \in T PROVE x <= y
  <2>1. x \in Nat /\ y \in Nat /\ ~ (y < x)
    BY <1>2, <1>3
  <2> QED
    BY <2>1
<1> QED
  BY <1>4

-----------------------------------------------------------------------------
(* What a client makes of several updates: what it takes the messages to   *)
(* be after each of them, and so in the end.                               *)
TraceTo(h, v, us, n) ==
  /\ DOMAIN h = 0..n /\ h[0] = v
  /\ \A k \in 1..n : h[k] = Told(h[k - 1], us[k])
Trace(h, v, us) == TraceTo(h, v, us, Len(us))

\* There is one, up to any update.
LEMMA TraceUpTo ==
  ASSUME NEW v, NEW us, NEW n \in Nat, n <= Len(us), Len(us) \in Nat
  PROVE  \E h : TraceTo(h, v, us, n)
<1> USE DEF TraceTo
<1> DEFINE UpTo(m) == \E h : TraceTo(h, v, us, m)
           Bad == {m \in Nat : ~ UpTo(m)}
<1>1. SUFFICES ASSUME ~ UpTo(n) PROVE FALSE
  OBVIOUS
<1>2. PICK m \in Bad : \A k \in Bad : m <= k
  <2>1. Bad \in SUBSET Nat /\ n \in Bad
    BY <1>1
  <2> HIDE DEF Bad
  <2> QED
    BY <2>1, LeastNumber
<1>3. m # 0
  <2>1. UpTo(0)
    <3> DEFINE h == [k \in 0..0 |-> v]
    <3>1. DOMAIN h = 0..0 /\ h[0] = v /\ \A k \in 1..0 : h[k] = Told(h[k - 1], us[k])
      OBVIOUS
    <3> QED
      BY <3>1
  <2> QED
    BY <2>1
<1>4. UpTo(m - 1)
  <2>1. m - 1 \in Nat /\ m \in Nat
    BY <1>3
  <2>2. m - 1 \notin Bad
    BY <1>2, <2>1
  <2> QED
    BY <2>1, <2>2
<1>5. PICK g : /\ DOMAIN g = 0..(m - 1) /\ g[0] = v
               /\ \A k \in 1..(m - 1) : g[k] = Told(g[k - 1], us[k])
  BY <1>4
<1>6. UpTo(m)
  <2> DEFINE h == [k \in 0..m |-> IF k = m THEN Told(g[m - 1], us[m]) ELSE g[k]]
  <2>1. DOMAIN h = 0..m /\ h[0] = v
    BY <1>3, <1>5
  <2>2. ASSUME NEW k \in 1..m PROVE h[k] = Told(h[k - 1], us[k])
    <3>1. h[k - 1] = g[k - 1]
      OBVIOUS
    <3>2. CASE k = m
      BY <3>1, <3>2
    <3>3. CASE k # m
      <4>1. k \in 1..(m - 1) /\ h[k] = g[k]
        BY <3>3
      <4> QED
        BY <1>5, <3>1, <4>1
    <3> QED
      BY <3>2, <3>3
  <2> HIDE DEF h
  <2> QED
    BY <2>1, <2>2
<1> QED
  BY <1>6

LEMMA TraceExists ==
  ASSUME NEW v, NEW us, Len(us) \in Nat
  PROVE  \E h : Trace(h, v, us)
<1>1. PICK n \in Nat : n = Len(us)
  OBVIOUS
<1>2. \E h : TraceTo(h, v, us, n)
  BY <1>1, TraceUpTo
<1> QED
  BY <1>1, <1>2 DEF Trace

\* It is determined by the updates.
LEMMA TraceUnique ==
  ASSUME NEW v, NEW us, NEW ws, Len(us) \in Nat, Len(ws) \in Nat,
         NEW g, Trace(g, v, us), NEW h, Trace(h, v, ws),
         NEW n \in Nat, n <= Len(us), n <= Len(ws), \A k \in 1..n : us[k] = ws[k]
  PROVE  \A k \in 0..n : g[k] = h[k]
<1> DEFINE Bad == {k \in 0..n : g[k] # h[k]}
<1> SUFFICES ASSUME Bad # {} PROVE FALSE
  OBVIOUS
<1>1. PICK m \in Bad : \A k \in Bad : m <= k
  <2>1. Bad \in SUBSET Nat
    OBVIOUS
  <2> HIDE DEF Bad
  <2> QED
    BY <2>1, LeastNumber
<1>2. m # 0 /\ m \in 0..n /\ g[m] # h[m]
  BY DEF Trace, TraceTo
<1>3. m - 1 \in 0..n /\ m \in 1..n /\ m - 1 < m
  BY <1>2
<1>4. g[m - 1] = h[m - 1]
  BY <1>1, <1>3
<1>5. g[m] = Told(g[m - 1], us[m]) /\ h[m] = Told(h[m - 1], ws[m]) /\ us[m] = ws[m]
  BY <1>3 DEF Trace, TraceTo
<1> QED
  BY <1>2, <1>4, <1>5

LEMMA HearsTrace ==
  ASSUME NEW v, NEW us, Len(us) \in Nat, NEW h, Trace(h, v, us)
  PROVE  Hears(v, us) = h[Len(us)]
<1> DEFINE Rest(g) == [n \in 0..Len(us) |-> IF n = 0 THEN v ELSE Told(g[n - 1], us[n])]
           heard == CHOOSE g : g = Rest(g)
<1>1. PICK f : f = [n \in 0..Len(us) |-> h[n]]
  OBVIOUS
<1>2. f = Rest(f)
  <2>1. \A n \in 0..Len(us) : f[n] = h[n]
    BY <1>1
  <2>2. \A n \in 0..Len(us) : n # 0 => n - 1 \in 0..Len(us) /\ f[n - 1] = h[n - 1]
    BY <2>1
  <2>3. \A n \in 0..Len(us) : h[n] = IF n = 0 THEN v ELSE Told(f[n - 1], us[n])
    BY <2>1, <2>2 DEF Trace, TraceTo
  <2> QED
    BY <1>1, <2>3
<1>3. heard = Rest(heard)
  BY <1>2
<1>4. Hears(v, us) = heard[Len(us)]
  BY DEF Hears
<1> HIDE DEF heard
<1>5. Trace(heard, v, us)
  <2>1. DOMAIN heard = 0..Len(us)
    BY <1>3
  <2>2. \A n \in 0..Len(us) : heard[n] = IF n = 0 THEN v ELSE Told(heard[n - 1], us[n])
    BY <1>3
  <2>3. heard[0] = v
    BY <2>2
  <2>4. \A n \in 1..Len(us) : heard[n] = Told(heard[n - 1], us[n])
    BY <2>2
  <2> QED
    BY <2>1, <2>3, <2>4 DEF Trace, TraceTo
<1>6. heard[Len(us)] = h[Len(us)]
  <2>1. Len(us) <= Len(us) /\ (\A k \in 1..Len(us) : us[k] = us[k]) /\ Len(us) \in 0..Len(us)
    OBVIOUS
  <2>2. \A k \in 0..Len(us) : heard[k] = h[k]
    BY <1>5, <2>1, TraceUnique
  <2> QED
    BY <2>1, <2>2
<1> QED
  BY <1>4, <1>6

\* ws are the updates from the one after n to the m-th of us.
Part(ws, us, n, m) ==
  /\ n \in Nat /\ m \in 0..Len(us) /\ Len(ws) \in Nat /\ m = n + Len(ws)
  /\ \A k \in 1..Len(ws) : ws[k] = us[n + k]

\* What a client makes of some of the updates, after those before them.
LEMMA HearsBetween ==
  ASSUME NEW v, NEW us, Len(us) \in Nat, NEW h, Trace(h, v, us),
         NEW ws, NEW n, NEW m, Part(ws, us, n, m)
  PROVE  Hears(h[n], ws) = h[m]
<1> USE DEF Part
<1>1. PICK g : g = [k \in 0..Len(ws) |-> h[n + k]]
  OBVIOUS
<1>2. DOMAIN g = 0..Len(ws) /\ g[0] = h[n] /\ g[Len(ws)] = h[m]
  BY <1>1
<1>3. ASSUME NEW k \in 1..Len(ws) PROVE g[k] = Told(g[k - 1], ws[k])
  <2>1. g[k] = h[n + k] /\ g[k - 1] = h[n + (k - 1)]
    BY <1>1
  <2>2. n + k \in 1..Len(us) /\ n + (k - 1) = (n + k) - 1
    OBVIOUS
  <2>3. h[n + k] = Told(h[(n + k) - 1], us[n + k])
    BY <2>2 DEF Trace, TraceTo
  <2> QED
    BY <2>1, <2>2, <2>3
<1>4. Trace(g, h[n], ws)
  BY <1>2, <1>3 DEF Trace, TraceTo
<1> QED
  BY <1>2, <1>4, HearsTrace

LEMMA HearsFirst ==
  ASSUME NEW v, NEW us, Len(us) \in Nat, NEW h, Trace(h, v, us), NEW ws, NEW m, Part(ws, us, 0, m)
  PROVE  Hears(v, ws) = h[m]
<1>1. h[0] = v
  BY DEF Trace, TraceTo
<1> QED
  BY <1>1, HearsBetween

LEMMA HearsParts ==
  ASSUME NEW v, NEW us, Len(us) \in Nat, NEW n, NEW m,
         NEW a, Part(a, us, 0, n), NEW b, Part(b, us, n, m), NEW c, Part(c, us, 0, m)
  PROVE  Hears(Hears(v, a), b) = Hears(v, c)
<1>1. PICK h : Trace(h, v, us)
  BY TraceExists
<1>2. Hears(v, a) = h[n] /\ Hears(v, c) = h[m]
  BY <1>1, HearsFirst
<1>3. Hears(h[n], b) = h[m]
  BY <1>1, HearsBetween
<1> QED
  BY <1>2, <1>3

LEMMA PartFirst ==
  ASSUME NEW T, NEW us \in Seq(T), NEW n \in 0..Len(us)
  PROVE  Part(SubSeq(us, 1, n), us, 0, n)
<1>1. PICK a : a = SubSeq(us, 1, n)
  OBVIOUS
<1>2. Len(us) \in Nat /\ \A k \in 1..Len(us) : us[k] \in T
  BY LenProperties, ElementOfSeq
<1>3. Len(a) = n /\ \A k \in 1..n : a[k] = us[k]
  BY <1>1, <1>2
<1> QED
  BY <1>1, <1>2, <1>3 DEF Part

LEMMA PartRest ==
  ASSUME NEW T, NEW us \in Seq(T), NEW n \in 0..Len(us)
  PROVE  /\ SubSeq(us, n + 1, Len(us)) \in Seq(T)
         /\ Part(SubSeq(us, n + 1, Len(us)), us, n, Len(us))
<1>1. PICK l \in Int : l = n + 1
  BY LenProperties
<1>2. PICK z : z = SubSeq(us, l, Len(us))
  OBVIOUS
<1>3. Len(us) \in Nat /\ n <= Len(us) /\ \A k \in l..Len(us) : us[k] \in T
  BY <1>1, LenProperties, ElementOfSeq
<1>4. z \in Seq(T)
  BY <1>2, <1>3, SubSeqProperties
<1>5. /\ Len(z) = IF l <= Len(us) THEN Len(us) - l + 1 ELSE 0
      /\ \A k \in 1..(Len(us) - l + 1) : z[k] = us[l + k - 1]
  BY <1>2, <1>3, SubSeqProperties
<1>6. Len(z) = Len(us) - n /\ \A k \in 1..(Len(us) - n) : z[k] = us[n + k]
  BY <1>1, <1>3, <1>5
<1>7. Part(z, us, n, Len(us))
  BY <1>3, <1>6 DEF Part
<1> QED
  BY <1>1, <1>2, <1>4, <1>7

\* Nothing, and one update.
LEMMA HearsNone ==
  ASSUME NEW v
  PROVE  Hears(v, <<>>) = v
<1>1. Len(<<>>) = 0
  BY EmptySeq
<1>2. PICK h : Trace(h, v, <<>>)
  BY <1>1, TraceExists
<1> QED
  BY <1>1, <1>2, HearsTrace DEF Trace, TraceTo

LEMMA HearsMore ==
  ASSUME NEW T, NEW v, NEW us \in Seq(T), NEW u \in T
  PROVE  Hears(v, Append(us, u)) = Told(Hears(v, us), u)
<1>1. PICK ws : ws = Append(us, u)
  OBVIOUS
<1>2. PICK n \in Nat : n = Len(us)
  BY LenProperties
<1>3. Len(ws) = n + 1 /\ ws[n + 1] = u /\ \A k \in 1..n : us[k] = ws[k]
  BY <1>1, <1>2, AppendProperties
<1>4. Len(ws) \in Nat
  BY <1>3
<1>5. PICK h : Trace(h, v, ws)
  BY <1>4, TraceExists
<1>6. Hears(v, ws) = h[n + 1]
  BY <1>3, <1>4, <1>5, HearsTrace
<1>7. Hears(v, us) = h[n]
  <2>1. Part(us, ws, 0, n)
    BY <1>2, <1>3 DEF Part
  <2> QED
    BY <1>4, <1>5, <2>1, HearsFirst
<1>8. h[n + 1] = Told(h[n], ws[n + 1])
  <2>1. n + 1 \in 1..Len(ws) /\ (n + 1) - 1 = n
    BY <1>3
  <2>2. h[n + 1] = Told(h[(n + 1) - 1], ws[n + 1])
    BY <1>5, <2>1 DEF Trace, TraceTo
  <2> QED
    BY <2>1, <2>2
<1> QED
  BY <1>1, <1>3, <1>6, <1>7, <1>8

LEMMA HearsOne ==
  ASSUME NEW v, NEW u
  PROVE  Hears(v, <<u>>) = Told(v, u)
<1>1. PICK us : us = <<>>
  OBVIOUS
<1>2. PICK T : T = {u}
  OBVIOUS
<1>3. us \in Seq(T) /\ u \in T
  BY <1>1, <1>2, EmptySeq
<1>4. Hears(v, Append(us, u)) = Told(Hears(v, us), u)
  BY <1>3, HearsMore
<1>5. Append(us, u) = <<u>>
  BY <1>1
<1> QED
  BY <1>1, <1>4, <1>5, HearsNone

\* Writing the first n updates of a queue changes nothing of what will have been heard
\* in the end, nor after any later update.
LEMMA HearsRest ==
  ASSUME NEW T, NEW v, NEW us \in Seq(T), NEW n \in 0..Len(us)
  PROVE  Hears(Hears(v, SubSeq(us, 1, n)), SubSeq(us, n + 1, Len(us))) = Hears(v, us)
<1>1. Len(us) \in Nat /\ Len(us) \in 0..Len(us)
  BY LenProperties
<1>2. Part(SubSeq(us, 1, n), us, 0, n) /\ Part(SubSeq(us, n + 1, Len(us)), us, n, Len(us))
  BY PartFirst, PartRest
<1>3. Part(us, us, 0, Len(us))
  BY <1>1 DEF Part
<1> QED
  BY <1>1, <1>2, <1>3, HearsParts

LEMMA PartOfRest ==
  ASSUME NEW us, Len(us) \in Nat, NEW n, NEW z, Part(z, us, n, Len(us)),
         NEW b, NEW l, Part(b, z, 0, l), NEW m, m = n + l
  PROVE  Part(b, us, n, m)
<1>1. n \in Nat /\ Len(z) = Len(us) - n /\ \A i \in 1..Len(z) : z[i] = us[n + i]
  BY DEF Part
<1>2. l \in 0..Len(z) /\ Len(b) = l /\ \A i \in 1..l : b[i] = z[i]
  BY DEF Part
<1>3. \A i \in 1..l : b[i] = us[n + i]
  BY <1>1, <1>2
<1> QED
  BY <1>1, <1>2, <1>3 DEF Part

-----------------------------------------------------------------------------
(* The updates that are pushed: an EXISTS gives as many keys as it counts. *)
Messages == 1..MaxMsg
Sound == {u \in Update : u.kind = "exists" => u.num = Len(u.ids)}

\* A function on 1..n is a sequence of length n.
LEMMA SeqOf ==
  ASSUME NEW T, NEW n \in Nat, NEW f \in [1..n -> T]
  PROVE  f \in Seq(T) /\ Len(f) = n /\ DOMAIN f = 1..n
<1>1. f \in Seq(T)
  BY SeqDef
<1>2. Len(f) \in Nat /\ DOMAIN f = 1..Len(f)
  BY <1>1, LenProperties
<1> QED
  BY <1>1, <1>2

LEMMA WithoutTyped ==
  ASSUME NEW T, NEW v \in Seq(T), NEW n \in 1..Len(v)
  PROVE  /\ Without(v, n) \in Seq(T) /\ Len(Without(v, n)) = Len(v) - 1
         /\ DOMAIN Without(v, n) = 1..Len(v) - 1
         /\ \A k \in 1..Len(v) - 1 : Without(v, n)[k] = IF k < n THEN v[k] ELSE v[k + 1]
<1>1. Len(v) \in Nat /\ Len(v) - 1 \in Nat /\ \A k \in 1..Len(v) : v[k] \in T
  BY LenProperties, ElementOfSeq
<1>2. PICK m \in Nat : m = Len(v) - 1
  BY <1>1
<1>3. Without(v, n) \in [1..m -> T]
  BY <1>1, <1>2 DEF Without
<1>4. Without(v, n) \in Seq(T) /\ Len(Without(v, n)) = m
  BY <1>3, SeqOf
<1> QED
  BY <1>2, <1>3, <1>4 DEF Without

LEMMA ToldTyped ==
  ASSUME NEW v \in Seq(Messages), NEW u \in Sound
  PROVE  Told(v, u) \in Seq(Messages)
<1>1. u \in Update /\ (u.kind = "exists" => u.num = Len(u.ids))
  BY DEF Sound
<1>2. CASE u.kind = "expunge"
  <2>1. CASE u.num \in 1..Len(v)
    BY <1>2, <2>1, WithoutTyped DEF Told
  <2>2. CASE u.num \notin 1..Len(v)
    BY <1>2, <2>2 DEF Told
  <2> QED
    BY <2>1, <2>2
<1>3. CASE u.kind = "exists"
  <2>1. u.ids \in Seq(Messages) /\ u.num = Len(u.ids)
    BY <1>1, <1>3 DEF Update, Messages
  <2>2. PICK n \in Nat : n = u.num
    BY <2>1, LenProperties
  <2>3. \A k \in 1..n : u.ids[k] \in Messages
    BY <2>1, <2>2, ElementOfSeq
  <2>4. Len(v) \in Nat /\ \A k \in 1..Len(v) : v[k] \in Messages
    BY LenProperties, ElementOfSeq
  <2>5. PICK w : w = [k \in 1..n |-> IF k <= Len(v) THEN v[k] ELSE u.ids[k]]
    OBVIOUS
  <2>6. w \in [1..n -> Messages]
    BY <2>3, <2>4, <2>5
  <2>7. w \in Seq(Messages)
    BY <2>6, SeqOf
  <2>8. Told(v, u) = w
    BY <1>3, <2>2, <2>5 DEF Told
  <2> QED
    BY <2>7, <2>8
<1>4. CASE u.kind \notin {"expunge", "exists"}
  BY <1>4 DEF Told
<1> QED
  BY <1>2, <1>3, <1>4

LEMMA TraceTyped ==
  ASSUME NEW v \in Seq(Messages), NEW us \in Seq(Sound), NEW h, Trace(h, v, us),
         NEW n \in 0..Len(us)
  PROVE  h[n] \in Seq(Messages)
<1> DEFINE Bad == {k \in 0..Len(us) : h[k] \notin Seq(Messages)}
<1> SUFFICES ASSUME Bad # {} PROVE FALSE
  OBVIOUS
<1>1. PICK m \in Bad : \A k \in Bad : m <= k
  <2>1. Bad \in SUBSET Nat
    BY LenProperties
  <2> HIDE DEF Bad
  <2> QED
    BY <2>1, LeastNumber
<1>2. Len(us) \in Nat /\ m \in 0..Len(us) /\ h[m] \notin Seq(Messages)
  BY LenProperties
<1>3. m # 0
  BY <1>2 DEF Trace, TraceTo
<1>4. m - 1 \in 0..Len(us) /\ m \in 1..Len(us) /\ ~ (m <= m - 1)
  BY <1>2, <1>3
<1>5. h[m - 1] \in Seq(Messages)
  BY <1>1, <1>4
<1>6. h[m] = Told(h[m - 1], us[m])
  BY <1>4 DEF Trace, TraceTo
<1>7. us[m] \in Sound
  BY <1>4, ElementOfSeq
<1> QED
  BY <1>2, <1>5, <1>6, <1>7, ToldTyped

LEMMA HearsTyped ==
  ASSUME NEW v \in Seq(Messages), NEW us \in Seq(Sound)
  PROVE  Hears(v, us) \in Seq(Messages)
<1>1. Len(us) \in Nat /\ Len(us) \in 0..Len(us)
  BY LenProperties
<1>2. PICK h : Trace(h, v, us)
  BY <1>1, TraceExists
<1> QED
  BY <1>1, <1>2, HearsTrace, TraceTyped

\* Flags tell a client nothing of the folder.
LEMMA ToldFlags ==
  ASSUME NEW v, NEW u, u.kind = "fetch"
  PROVE  Told(v, u) = v
BY DEF Told

LEMMA HearsFlags ==
  ASSUME NEW v, NEW T, NEW us \in Seq(T), ~Membership(us)
  PROVE  Hears(v, us) = v
<1>1. PICK h : Trace(h, v, us)
  BY LenProperties, TraceExists
<1> DEFINE Bad == {k \in 0..Len(us) : h[k] # v}
<1>2. SUFFICES ASSUME Bad # {} PROVE FALSE
  <2>1. Len(us) \in Nat /\ Len(us) \in 0..Len(us)
    BY LenProperties
  <2> QED
    BY <1>1, <2>1, HearsTrace
<1>3. PICK m \in Bad : \A k \in Bad : m <= k
  <2>1. Bad \in SUBSET Nat
    BY LenProperties
  <2> HIDE DEF Bad
  <2> QED
    BY <1>2, <2>1, LeastNumber
<1>4. Len(us) \in Nat /\ m \in 0..Len(us) /\ h[m] # v
  BY LenProperties
<1>5. m # 0
  BY <1>1, <1>4 DEF Trace, TraceTo
<1>6. m - 1 \in 0..Len(us) /\ m \in 1..Len(us) /\ ~ (m <= m - 1)
  BY <1>4, <1>5
<1>7. h[m - 1] = v
  BY <1>3, <1>6
<1>8. h[m] = Told(h[m - 1], us[m])
  BY <1>1, <1>6 DEF Trace, TraceTo
<1>9. us[m].kind = "fetch"
  BY <1>6, LenProperties DEF Membership
<1> QED
  BY <1>4, <1>7, <1>8, <1>9, ToldFlags

\* An EXISTS that counts no fewer messages only adds to the view.
Grows(v, u) == u.kind = "exists" => Len(v) <= u.num

LEMMA ToldPrefix ==
  ASSUME NEW v \in Seq(Messages), NEW w \in Seq(Messages), Prefix(v, w),
         NEW u \in Sound, u.kind # "expunge", Grows(w, u)
  PROVE  Prefix(v, Told(w, u))
<1>1. CASE u.kind = "exists"
  <2>1. PICK n \in Nat, m \in Nat : n = Len(w) /\ m = u.num
    BY LenProperties DEF Sound, Update
  <2>2. PICK z : z = [k \in 1..m |-> IF k <= n THEN w[k] ELSE u.ids[k]]
    OBVIOUS
  <2>3. Told(w, u) = z /\ n <= m
    BY <1>1, <2>1, <2>2 DEF Told, Grows
  <2>4. PICK T : T = {z[k] : k \in 1..m}
    OBVIOUS
  <2>5. z \in [1..m -> T]
    BY <2>2, <2>4
  <2>6. Len(z) = m
    BY <2>5, SeqOf
  <2>7. DOMAIN v = 1..Len(v) /\ Len(v) \in Nat
    BY LenProperties
  <2>8. Len(v) <= n /\ Len(v) <= m /\ \A k \in DOMAIN v : w[k] = v[k]
    BY <2>1, <2>3, <2>7 DEF Prefix
  <2>9. \A k \in DOMAIN v : z[k] = w[k]
    BY <2>2, <2>7, <2>8
  <2> QED
    BY <2>3, <2>6, <2>7, <2>8, <2>9 DEF Prefix
<1>2. CASE u.kind # "exists"
  BY <1>2 DEF Told
<1> QED
  BY <1>1, <1>2

LEMMA HearsPrefix ==
  ASSUME NEW v \in Seq(Messages), NEW us \in Seq(Sound),
         \A k \in 1..Len(us) : us[k].kind # "expunge",
         \A k \in 1..Len(us) : Grows(Hears(v, SubSeq(us, 1, k - 1)), us[k])
  PROVE  Prefix(v, Hears(v, us))
<1>1. Len(us) \in Nat
  BY LenProperties
<1>2. PICK h : Trace(h, v, us)
  BY <1>1, TraceExists
<1> DEFINE Bad == {k \in 0..Len(us) : ~ Prefix(v, h[k])}
<1>3. SUFFICES ASSUME Bad # {} PROVE FALSE
  BY <1>1, <1>2, HearsTrace
<1>4. PICK m \in Bad : \A k \in Bad : m <= k
  <2>1. Bad \in SUBSET Nat
    BY <1>1
  <2> HIDE DEF Bad
  <2> QED
    BY <1>3, <2>1, LeastNumber
<1>5. m \in 0..Len(us) /\ ~ Prefix(v, h[m])
  OBVIOUS
<1>6. m # 0
  <2>1. Prefix(v, v)
    BY LenProperties DEF Prefix
  <2> QED
    BY <1>2, <1>5, <2>1 DEF Trace, TraceTo
<1>7. PICK n \in Nat : n = m - 1
  BY <1>1, <1>5, <1>6
<1>8. n \in 0..Len(us) /\ m \in 1..Len(us) /\ ~ (m <= n)
  BY <1>1, <1>5, <1>6, <1>7
<1>9. Prefix(v, h[n])
  BY <1>4, <1>8
<1>10. h[m] = Told(h[n], us[m])
  BY <1>2, <1>7, <1>8 DEF Trace, TraceTo
<1>11. h[n] \in Seq(Messages)
  BY <1>2, <1>8, TraceTyped
<1>12. Hears(v, SubSeq(us, 1, n)) = h[n]
  <2>1. Part(SubSeq(us, 1, n), us, 0, n)
    BY <1>8, PartFirst
  <2> QED
    BY <1>1, <1>2, <2>1, HearsFirst
<1>13. us[m].kind # "expunge" /\ Grows(h[n], us[m])
  <2>1. Grows(Hears(v, SubSeq(us, 1, m - 1)), us[m])
    BY <1>8
  <2> QED
    BY <1>7, <1>8, <1>12, <2>1
<1>14. us[m] \in Sound
  BY <1>8, ElementOfSeq
<1> QED
  BY <1>5, <1>9, <1>10, <1>11, <1>13, <1>14, ToldPrefix

-----------------------------------------------------------------------------
(* The numbers of the messages.                                            *)
LEMMA PlaceIn ==
  ASSUME NEW F \in SUBSET Nat, IsFiniteSet(F), NEW m \in F
  PROVE  Place(m, F) \in 1..Cardinality(F)
<1> DEFINE L == {k \in F : k <= m}
<1>1. L \in SUBSET F /\ m \in L
  OBVIOUS
<1>2. IsFiniteSet(L) /\ Cardinality(L) <= Cardinality(F)
  BY <1>1, FS_Subset
<1>3. Cardinality(L) \in Nat /\ Cardinality(F) \in Nat
  BY <1>2, FS_CardinalityType
<1>4. Cardinality(L) # 0
  BY <1>1, <1>2, FS_EmptySet
<1>5. Place(m, F) = Cardinality(L)
  BY DEF Place
<1> HIDE DEF L
<1> QED
  BY <1>2, <1>3, <1>4, <1>5

LEMMA PlaceLess ==
  ASSUME NEW F \in SUBSET Nat, IsFiniteSet(F), NEW m \in F, NEW n \in F, m < n
  PROVE  Place(m, F) < Place(n, F)
<1> DEFINE L == {k \in F : k <= m}
           M == {k \in F : k <= n}
<1>1. L \in SUBSET F /\ M \in SUBSET F /\ L \in SUBSET M /\ n \in M /\ n \notin L
  <2>1. m \in Nat /\ n \in Nat /\ ~ (n <= m) /\ n <= n
    OBVIOUS
  <2>2. \A k \in F : k <= m => k <= n
    <3>1. ASSUME NEW k \in F, k <= m PROVE k <= n
      <4>1. k \in Nat
        OBVIOUS
      <4> QED
        BY <2>1, <3>1, <4>1
    <3> QED
      BY <3>1
  <2> QED
    BY <2>1, <2>2
<1>2. IsFiniteSet(M) /\ IsFiniteSet(L)
  BY <1>1, FS_Subset
<1>3. Cardinality(L) <= Cardinality(M) /\ Cardinality(M) # Cardinality(L)
  BY <1>1, <1>2, FS_Subset
<1>4. Cardinality(L) \in Nat /\ Cardinality(M) \in Nat
  BY <1>2, FS_CardinalityType
<1>5. Place(m, F) = Cardinality(L) /\ Place(n, F) = Cardinality(M)
  BY DEF Place
<1> HIDE DEF L, M
<1> QED
  BY <1>3, <1>4, <1>5

LEMMA PlaceOne ==
  ASSUME NEW F \in SUBSET Nat, IsFiniteSet(F), NEW m \in F, NEW n \in F, Place(m, F) = Place(n, F)
  PROVE  m = n
<1>1. Place(m, F) \in Nat /\ m \in Nat /\ n \in Nat
  BY PlaceIn
<1>2. ~ (m < n) /\ ~ (n < m)
  BY <1>1, PlaceLess
<1> QED
  BY <1>1, <1>2

\* Every place is taken.
LEMMA PlaceTaken ==
  ASSUME NEW F \in SUBSET Nat, IsFiniteSet(F), NEW n \in 1..Cardinality(F)
  PROVE  \E m \in F : Place(m, F) = n
<1>1. PICK c \in Nat : c = Cardinality(F)
  BY FS_CardinalityType
<1>2. PICK f : f = [m \in F |-> Place(m, F)]
  OBVIOUS
<1>3. f \in Injection(F, 1..c)
  <2>1. \A m \in F : f[m] \in 1..c
    BY <1>1, <1>2, PlaceIn
  <2>2. \A a, b \in F : f[a] = f[b] => a = b
    BY <1>2, PlaceOne
  <2> QED
    BY <1>2, <2>1, <2>2 DEF Injection, IsInjective
<1>4. IsFiniteSet(1..c) /\ Cardinality(1..c) = c
  BY FS_Interval
<1>5. f \in Surjection(F, 1..c)
  BY <1>1, <1>3, <1>4, FS_Injection
<1> QED
  BY <1>1, <1>2, <1>5 DEF Surjection

\* The n-th row is the one at place n.
LEMMA OrderedAt ==
  ASSUME NEW F \in SUBSET Nat, IsFiniteSet(F), NEW n \in 1..Cardinality(F)
  PROVE  Ordered(F)[n] \in F /\ Place(Ordered(F)[n], F) = n
BY PlaceTaken DEF Ordered

LEMMA OrderedTyped ==
  ASSUME NEW F \in SUBSET Nat, IsFiniteSet(F)
  PROVE  /\ Ordered(F) \in Seq(F) /\ Len(Ordered(F)) = Cardinality(F)
         /\ Cardinality(F) \in Nat /\ DOMAIN Ordered(F) = 1..Cardinality(F)
<1>1. PICK c \in Nat : c = Cardinality(F)
  BY FS_CardinalityType
<1>2. Ordered(F) \in [1..c -> F]
  BY <1>1, OrderedAt DEF Ordered
<1> QED
  BY <1>1, <1>2, SeqOf

\* It is the only sequence of which this holds.
LEMMA OrderedIs ==
  ASSUME NEW F \in SUBSET Nat, IsFiniteSet(F), NEW w, DOMAIN w = 1..Cardinality(F),
         w = [k \in DOMAIN w |-> w[k]],
         \A n \in 1..Cardinality(F) : w[n] \in F /\ Place(w[n], F) = n
  PROVE  w = Ordered(F)
<1>1. \A n \in 1..Cardinality(F) : w[n] = Ordered(F)[n]
  BY OrderedAt, PlaceOne
<1>2. Ordered(F) = [n \in 1..Cardinality(F) |-> Ordered(F)[n]]
  BY DEF Ordered
<1> QED
  BY <1>1, <1>2

\* Places after a removal.
LEMMA PlaceAfter ==
  ASSUME NEW F \in SUBSET Nat, IsFiniteSet(F), NEW m \in F, NEW k \in F, k # m
  PROVE  Place(k, F \ {m}) = IF k < m THEN Place(k, F) ELSE Place(k, F) - 1
<1> DEFINE L == {x \in F : x <= k}
<1>1. IsFiniteSet(L)
  BY FS_Subset
<1>2. {x \in F \ {m} : x <= k} = L \ {m}
  OBVIOUS
<1>3. m \in L <=> ~ (k < m)
  OBVIOUS
<1>4. Cardinality(L \ {m}) = IF m \in L THEN Cardinality(L) - 1 ELSE Cardinality(L)
  BY <1>1, FS_RemoveElement
<1>5. Place(k, F) = Cardinality(L) /\ Place(k, F \ {m}) = Cardinality(L \ {m})
  BY <1>2 DEF Place
<1> HIDE DEF L
<1> QED
  BY <1>3, <1>4, <1>5

\* Without a message, the listing is without its number.
LEMMA OrderedLess ==
  ASSUME NEW F \in SUBSET Nat, IsFiniteSet(F), NEW m \in F
  PROVE  Without(Ordered(F), Place(m, F)) = Ordered(F \ {m})
<1>1. PICK c \in Nat : c = Cardinality(F)
  BY FS_CardinalityType
<1>2. PICK G \in SUBSET Nat : G = F \ {m}
  OBVIOUS
<1>3. IsFiniteSet(G) /\ Cardinality(G) = c - 1
  BY <1>1, <1>2, FS_RemoveElement
<1>4. PICK v : v = Ordered(F)
  OBVIOUS
<1>5. PICK p \in 1..c : p = Place(m, F)
  BY <1>1, PlaceIn
<1>6. v \in Seq(F) /\ Len(v) = c
  BY <1>1, <1>4, OrderedTyped
<1>7. PICK w : w = Without(v, p)
  OBVIOUS
<1>8. DOMAIN w = 1..(c - 1) /\ \A k \in 1..(c - 1) : w[k] = IF k < p THEN v[k] ELSE v[k + 1]
  BY <1>5, <1>6, <1>7, WithoutTyped
<1>9. w = [k \in DOMAIN w |-> w[k]]
  BY <1>7 DEF Without
<1>10. ASSUME NEW n \in 1..c, n # p
       PROVE  v[n] \in G /\ Place(v[n], G) = IF n < p THEN n ELSE n - 1
  <2>1. v[n] \in F /\ Place(v[n], F) = n
    BY <1>1, <1>4, OrderedAt
  <2>2. v[n] # m
    BY <1>5, <1>10, <2>1
  <2>3. v[n] < m <=> n < p
    <3>1. v[n] \in Nat /\ m \in Nat
      BY <2>1
    <3>2. v[n] < m => n < p
      BY <1>5, <2>1, PlaceLess
    <3>3. m < v[n] => p < n
      BY <1>5, <2>1, PlaceLess
    <3> QED
      BY <1>10, <2>2, <3>1, <3>2, <3>3
  <2>4. Place(v[n], F \ {m}) = IF v[n] < m THEN Place(v[n], F) ELSE Place(v[n], F) - 1
    BY <2>1, <2>2, PlaceAfter
  <2> QED
    BY <1>2, <2>1, <2>2, <2>3, <2>4
<1>11. ASSUME NEW n \in 1..(c - 1) PROVE w[n] \in G /\ Place(w[n], G) = n
  <2>1. CASE n < p
    BY <1>8, <1>10, <2>1
  <2>2. CASE ~ (n < p)
    <3>1. n + 1 \in 1..c /\ n + 1 # p /\ ~ (n + 1 < p) /\ (n + 1) - 1 = n
      BY <2>2
    <3>2. v[n + 1] \in G /\ Place(v[n + 1], G) = (n + 1) - 1
      BY <1>10, <3>1
    <3> QED
      BY <1>8, <2>2, <3>1, <3>2
  <2> QED
    BY <2>1, <2>2
<1>12. w = Ordered(G)
  BY <1>3, <1>8, <1>9, <1>11, OrderedIs
<1> QED
  BY <1>2, <1>4, <1>5, <1>7, <1>12

\* A message above all others is listed after them.
LEMMA OrderedMore ==
  ASSUME NEW F \in SUBSET Nat, IsFiniteSet(F), NEW m \in Nat, \A k \in F : k < m
  PROVE  /\ Cardinality(F \union {m}) = Cardinality(F) + 1
         /\ \A n \in 1..Cardinality(F) : Ordered(F \union {m})[n] = Ordered(F)[n]
<1>1. PICK c \in Nat : c = Cardinality(F)
  BY FS_CardinalityType
<1>2. PICK G \in SUBSET Nat : G = F \union {m}
  OBVIOUS
<1>3. m \notin F
  OBVIOUS
<1>4. IsFiniteSet(G) /\ Cardinality(G) = c + 1
  BY <1>1, <1>2, <1>3, FS_AddElement
<1>5. ASSUME NEW n \in 1..c PROVE Ordered(G)[n] = Ordered(F)[n]
  <2>1. PICK k \in F : k = Ordered(F)[n] /\ Place(k, F) = n
    BY <1>1, OrderedAt
  <2>2. {x \in G : x <= k} = {x \in F : x <= k}
    BY <1>2
  <2>3. Place(k, G) = n
    BY <2>1, <2>2 DEF Place
  <2>4. Ordered(G)[n] \in G /\ Place(Ordered(G)[n], G) = n
    BY <1>4, OrderedAt
  <2>5. k \in G
    BY <1>2
  <2> QED
    BY <1>4, <2>1, <2>3, <2>4, <2>5, PlaceOne
<1> QED
  BY <1>1, <1>2, <1>4, <1>5

-----------------------------------------------------------------------------
(* Types: those of TypeOK, and what else an update or a handler keeps to:  *)
(* an EXISTS gives the keys it counts, only a removal in progress has      *)
(* numbers to announce, and only requests speak POP3.                      *)
Labels == Selected \union {"out", "join", "leave", "broken", "delete", "move", "count",
                           "mark", "purge", "push", "send"}
Planned == [id : Messages, num : 0..MaxMsg]

FolderTyped == /\ last \in 0..MaxMsg /\ folder \subseteq 1..last
               /\ trash \subseteq 1..last /\ folder \intersect trash = {}
SessTyped == /\ hub \subseteq Sessions /\ queue \in [Sessions -> Seq(Sound)]
             /\ token \in [Sessions -> BOOLEAN] /\ view \in [Sessions -> Seq(Messages)]
JobTyped == /\ plan \in [Procs -> Seq(Planned)] /\ gone \in [Procs -> Seq(0..MaxMsg)]
            /\ todo \in [Procs -> Seq(Sound)] /\ targets \in [Procs -> SUBSET Sessions]
PcTyped == /\ pc \in [Procs -> Labels]
           /\ \A p \in Procs : pc[p] \in {"push", "send"} <=> todo[p] # <<>>
           /\ \A p \in Procs : gone[p] # <<>> => pc[p] \in {"move", "purge"}
           /\ \A s \in Sessions : pc[s] \notin {"mark", "purge"}
DoubtTyped == doubt \subseteq Sessions \X Causes
TypeInv == FolderTyped /\ SessTyped /\ JobTyped /\ PcTyped /\ DoubtTyped

LEMMA TypeInvTypeOK == TypeInv => TypeOK
<1> SUFFICES ASSUME TypeInv PROVE TypeOK
  OBVIOUS
<1>1. Sound \subseteq Update
  BY DEF Sound
<1>2. \A us \in Seq(Sound) : us \in Seq(Update)
  BY <1>1, SeqMonotonic
<1>3. queue \in [Sessions -> Seq(Update)] /\ todo \in [Procs -> Seq(Update)]
  BY <1>2 DEF TypeInv, SessTyped, JobTyped
<1>4. folder \subseteq 1..MaxMsg /\ trash \subseteq 1..last /\ last \in 0..MaxMsg
      /\ folder \intersect trash = {}
  BY PushAssumption DEF TypeInv, FolderTyped
<1>5. pc \in [Procs -> Labels] /\ \A p \in Procs : pc[p] \in {"push", "send"} <=> todo[p] # <<>>
  BY DEF TypeInv, PcTyped
<1>6. /\ hub \subseteq Sessions /\ token \in [Sessions -> BOOLEAN]
      /\ view \in [Sessions -> Seq(1..MaxMsg)]
  BY DEF TypeInv, SessTyped, Messages
<1>7. /\ plan \in [Procs -> Seq([id : 1..MaxMsg, num : 0..MaxMsg])]
      /\ gone \in [Procs -> Seq(0..MaxMsg)] /\ targets \in [Procs -> SUBSET Sessions]
  BY DEF TypeInv, JobTyped, Planned, Messages
<1>8. doubt \subseteq Sessions \X Causes
  BY DEF TypeInv, DoubtTyped
<1> QED
  BY <1>3, <1>4, <1>5, <1>6, <1>7, <1>8 DEF TypeOK, Labels

LEMMA FolderFinite ==
  ASSUME FolderTyped
  PROVE  /\ folder \in SUBSET Nat /\ folder \subseteq Messages /\ IsFiniteSet(folder)
         /\ Cardinality(folder) \in 0..MaxMsg
<1>1. folder \subseteq 1..MaxMsg /\ MaxMsg \in Nat
  BY PushAssumption DEF FolderTyped
<1>2. IsFiniteSet(1..MaxMsg) /\ Cardinality(1..MaxMsg) = MaxMsg
  BY <1>1, FS_Interval
<1>3. IsFiniteSet(folder) /\ Cardinality(folder) <= MaxMsg
  BY <1>1, <1>2, FS_Subset
<1>4. Cardinality(folder) \in Nat
  BY <1>3, FS_CardinalityType
<1> QED
  BY <1>1, <1>3, <1>4 DEF Messages

LEMMA NumberTyped ==
  ASSUME FolderTyped, NEW m \in folder
  PROVE  Number(m) \in 1..Cardinality(folder) /\ Number(m) \in 0..MaxMsg
<1>1. folder \in SUBSET Nat /\ IsFiniteSet(folder) /\ Cardinality(folder) \in 0..MaxMsg
  BY FolderFinite
<1>2. Number(m) \in 1..Cardinality(folder)
  BY <1>1, PlaceIn DEF Number
<1> QED
  BY <1>1, <1>2, PushAssumption

LEMMA ListingTyped ==
  ASSUME FolderTyped
  PROVE  Listing \in Seq(Messages) /\ Len(Listing) = Cardinality(folder)
<1>1. Listing \in Seq(folder) /\ Len(Listing) = Cardinality(folder)
  BY FolderFinite, OrderedTyped DEF Listing
<1> QED
  BY <1>1, FolderFinite, SeqMonotonic

LEMMA SoundUpdates ==
  ASSUME FolderTyped
  PROVE  Exists \in Sound /\ Flags \in Sound /\ \A n \in 0..MaxMsg : Expunge(n) \in Sound
<1>1. <<>> \in Seq(1..MaxMsg)
  BY EmptySeq
<1>2. Listing \in Seq(1..MaxMsg) /\ Len(Listing) = Cardinality(folder)
      /\ Cardinality(folder) \in 0..MaxMsg
  BY ListingTyped, FolderFinite DEF Messages
<1>3. Exists \in Sound
  BY <1>2 DEF Exists, Sound, Update
<1>4. Flags \in Sound
  BY <1>1, PushAssumption DEF Flags, Sound, Update
<1>5. \A n \in 0..MaxMsg : Expunge(n) \in Sound
  BY <1>1 DEF Expunge, Sound, Update
<1> QED
  BY <1>3, <1>4, <1>5

\* The messages that a handler lists, with their numbers.
LEMMA PlanTyped ==
  ASSUME FolderTyped, NEW S \in SUBSET folder
  PROVE  /\ Plan(S) \in Seq(Planned) /\ Len(Plan(S)) = Cardinality(S)
         /\ \A k \in 1..Len(Plan(S)) :
              \E m \in S : Plan(S)[k] = [id |-> m, num |-> Number(m)]
<1>1. S \in SUBSET Nat /\ IsFiniteSet(S) /\ S \subseteq Messages
  BY FolderFinite, FS_Subset
<1>2. PICK c \in Nat : c = Cardinality(S)
  BY <1>1, FS_CardinalityType
<1>3. PICK ms : ms = Ordered(S)
  OBVIOUS
<1>4. DOMAIN ms = 1..c /\ \A k \in 1..c : ms[k] \in S
  BY <1>1, <1>2, <1>3, OrderedTyped, OrderedAt
<1>5. Plan(S) = [k \in 1..c |-> [id |-> ms[k], num |-> Number(ms[k])]]
  BY <1>3, <1>4 DEF Plan
<1>6. \A m \in S : [id |-> m, num |-> Number(m)] \in Planned
  BY <1>1, NumberTyped DEF Planned
<1>7. Plan(S) \in [1..c -> Planned]
  BY <1>4, <1>5, <1>6
<1>8. Plan(S) \in Seq(Planned) /\ Len(Plan(S)) = c
  BY <1>7, SeqOf
<1>9. \A k \in 1..c : ms[k] \in S /\ Plan(S)[k] = [id |-> ms[k], num |-> Number(ms[k])]
  BY <1>4, <1>5
<1> QED
  BY <1>2, <1>8, <1>9

LEMMA DoubtedTyped ==
  ASSUME DoubtTyped, NEW p, NEW why \in SUBSET Causes, Doubted(p, why)
  PROVE  DoubtTyped' /\ doubt \subseteq doubt'
BY DEF Doubted, DoubtTyped, Causes

\* What a removal announces.
Removals(nums) == [k \in DOMAIN nums |-> Expunge(nums[k])]
LEMMA RemovalsTyped ==
  ASSUME FolderTyped, NEW nums \in Seq(0..MaxMsg)
  PROVE  Removals(nums) \in Seq(Sound) /\ Len(Removals(nums)) = Len(nums)
<1>1. PICK c \in Nat : c = Len(nums)
  BY LenProperties
<1>2. DOMAIN nums = 1..c /\ \A k \in 1..c : nums[k] \in 0..MaxMsg
  BY <1>1, LenProperties, ElementOfSeq
<1>3. Removals(nums) \in [1..c -> Sound]
  BY <1>2, SoundUpdates DEF Removals
<1> QED
  BY <1>1, <1>3, SeqOf

LEMMA EmptyIff ==
  ASSUME NEW T, NEW v \in Seq(T)
  PROVE  v = <<>> <=> Len(v) = 0
BY EmptySeq

\* A process goes somewhere else.
LEMMA PcGoes ==
  ASSUME PcTyped, NEW p \in Procs, NEW l \in Labels, Goto(p, l),
         l \in {"push", "send"} <=> todo'[p] # <<>>,
         gone'[p] # <<>> => l \in {"move", "purge"},
         p \in Sessions => l \notin {"mark", "purge"},
         \A q \in Procs \ {p} : todo'[q] = todo[q] /\ gone'[q] = gone[q]
  PROVE  PcTyped'
<1>1. pc' \in [Procs -> Labels] /\ \A q \in Procs : pc'[q] = IF q = p THEN l ELSE pc[q]
  BY DEF PcTyped, Goto
<1>2. ASSUME NEW q \in Procs
      PROVE  /\ pc'[q] \in {"push", "send"} <=> todo'[q] # <<>>
             /\ gone'[q] # <<>> => pc'[q] \in {"move", "purge"}
             /\ q \in Sessions => pc'[q] \notin {"mark", "purge"}
  <2>1. CASE q = p
    BY <1>1, <2>1
  <2>2. CASE q # p
    BY <1>1, <2>2 DEF PcTyped
  <2> QED
    BY <2>1, <2>2
<1> QED
  BY <1>1, <1>2 DEF PcTyped, Procs

LEMMA AnnounceTyped ==
  ASSUME TypeInv, NEW p \in Procs, NEW nums \in Seq(0..MaxMsg), Announce(p, nums),
         gone'[p] = <<>>, \A q \in Procs \ {p} : gone'[q] = gone[q]
  PROVE  /\ todo' \in [Procs -> Seq(Sound)] /\ view' \in [Sessions -> Seq(Messages)] /\ PcTyped'
<1> USE DEF TypeInv
<1>1. Removals(nums) \in Seq(Sound)
  BY RemovalsTyped
<1>2. todo' = [todo EXCEPT ![p] = Removals(nums)]
  BY DEF Announce, Removals
<1>3. todo' \in [Procs -> Seq(Sound)] /\ todo'[p] = Removals(nums)
      /\ \A q \in Procs \ {p} : todo'[q] = todo[q]
  BY <1>1, <1>2 DEF JobTyped
<1>4. view' \in [Sessions -> Seq(Messages)]
  <2>1. CASE p \in Sessions
    <3>1. view' = [view EXCEPT ![p] = Hears(@, Removals(nums))]
      BY <2>1 DEF Announce, Removals
    <3>2. Hears(view[p], Removals(nums)) \in Seq(Messages)
      BY <1>1, <2>1, HearsTyped DEF SessTyped
    <3> QED
      BY <3>1, <3>2 DEF SessTyped
  <2>2. CASE p \notin Sessions
    BY <2>2 DEF Announce, SessTyped
  <2> QED
    BY <2>1, <2>2
<1>5. PICK l : /\ l = IF Removals(nums) = <<>> THEN Answer(p) ELSE "push"
               /\ Goto(p, l)
  BY DEF Announce, Removals
<1>6. l \in Labels /\ l \notin {"mark", "purge"} /\ (l \in {"push", "send"} <=> todo'[p] # <<>>)
  BY <1>3, <1>5 DEF Answer, Labels, Selected
<1>7. PcTyped'
  BY <1>3, <1>5, <1>6, PcGoes
<1> QED
  BY <1>3, <1>4, <1>7

LEMMA BreaksTyped ==
  ASSUME TypeInv, NEW p \in Procs, NEW nums, Breaks(p, nums), pc[p] \notin {"push", "send"},
         gone'[p] = <<>>, \A q \in Procs \ {p} : gone'[q] = gone[q]
  PROVE  /\ todo' \in [Procs -> Seq(Sound)] /\ view' \in [Sessions -> Seq(Messages)] /\ PcTyped'
         /\ DoubtTyped'
<1> USE DEF TypeInv
<1>1. todo' = todo /\ view' = view /\ Goto(p, "broken") /\ todo[p] = <<>>
  BY DEF Breaks, PcTyped
<1>2. todo' \in [Procs -> Seq(Sound)] /\ view' \in [Sessions -> Seq(Messages)]
  BY <1>1 DEF SessTyped, JobTyped
<1>3. "broken" \in Labels
  BY DEF Labels
<1>4. PcTyped'
  BY <1>1, <1>3, PcGoes
<1>5. PICK why \in SUBSET Causes : Doubted(p, why)
  BY DEF Breaks, Causes
<1> QED
  BY <1>2, <1>4, <1>5, DoubtedTyped

\* The actions that leave the messages and the jobs alone.
PlainStep ==
  \/ \E s \in Sessions : SelectRead(s) \/ SelectJoin(s) \/ UnselectClear(s) \/ UnselectLeave(s)
  \/ \E s \in Sessions : Noop(s) \/ Fetch(s) \/ Idle(s) \/ IdleWait(s) \/ IdleWake(s) \/ IdleDone(s)

LEMMA PlainKept ==
  ASSUME TypeInv, NEW s \in Sessions, NEW l \in Selected \union {"join", "leave", "out"},
         pc[s] \notin {"push", "send", "move", "purge"}, Goto(s, l),
         UNCHANGED <<dbVars, jobVars>>,
         hub' \in {hub, hub \union {s}, hub \ {s}},
         queue' \in {queue, [queue EXCEPT ![s] = <<>>]},
         token' \in {token, [token EXCEPT ![s] = FALSE]},
         view' \in {view, [view EXCEPT ![s] = Listing], [view EXCEPT ![s] = <<>>]},
         doubt' \subseteq doubt \union (Sessions \X Causes)
  PROVE  TypeInv'
<1> USE DEF TypeInv
<1>2. FolderTyped' /\ JobTyped'
  BY DEF FolderTyped, JobTyped, dbVars, jobVars
<1>3. SessTyped'
  <2>1. Listing \in Seq(Messages) /\ <<>> \in Seq(Messages) /\ <<>> \in Seq(Sound)
    BY ListingTyped, EmptySeq
  <2>2. hub' \subseteq Sessions
    BY DEF SessTyped
  <2>3. queue' \in [Sessions -> Seq(Sound)]
    BY <2>1 DEF SessTyped
  <2>4. token' \in [Sessions -> BOOLEAN]
    BY DEF SessTyped
  <2>5. view' \in [Sessions -> Seq(Messages)]
    BY <2>1 DEF SessTyped
  <2> QED
    BY <2>2, <2>3, <2>4, <2>5 DEF SessTyped
<1>4. PcTyped'
  <2>1. s \in Procs /\ todo[s] = <<>> /\ gone[s] = <<>> /\ todo' = todo /\ gone' = gone
    BY DEF PcTyped, Procs, jobVars
  <2>2. l \in Labels /\ l \notin {"push", "send", "mark", "purge"}
    BY DEF Labels, Selected
  <2> QED
    BY <2>1, <2>2, PcGoes
<1>5. DoubtTyped'
  BY DEF DoubtTyped
<1> QED
  BY <1>2, <1>3, <1>4, <1>5

LEMMA PlainTyped ==
  ASSUME TypeInv, PlainStep
  PROVE  TypeInv'
<1>1. ASSUME NEW s \in Sessions, SelectRead(s) PROVE TypeInv'
  <2>1. /\ pc[s] = "out" /\ Goto(s, "join") /\ UNCHANGED <<dbVars, jobVars, hub, queue, token>>
        /\ view' = [view EXCEPT ![s] = Listing]
        /\ doubt' \subseteq doubt \union (Sessions \X Causes)
    BY <1>1 DEF SelectRead, Causes
  <2> QED
    BY <2>1, PlainKept
<1>2. ASSUME NEW s \in Sessions, SelectJoin(s) \/ UnselectClear(s) \/ UnselectLeave(s)
      PROVE  TypeInv'
  <2>1. PICK l \in {"poll", "leave", "out"} :
          /\ pc[s] \in {"join", "ready", "leave"} /\ Goto(s, l)
          /\ UNCHANGED <<dbVars, jobVars, token, doubt>>
          /\ hub' \in {hub, hub \union {s}, hub \ {s}}
          /\ queue' \in {queue, [queue EXCEPT ![s] = <<>>]}
          /\ view' \in {view, [view EXCEPT ![s] = <<>>]}
    BY <1>2 DEF SelectJoin, UnselectClear, UnselectLeave
  <2>2. l \in Selected \union {"join", "leave", "out"}
    BY DEF Selected
  <2> QED
    BY <2>1, <2>2, PlainKept
<1>3. ASSUME NEW s \in Sessions, Noop(s) \/ Fetch(s) \/ Idle(s) PROVE TypeInv'
  <2>1. PICK l \in Selected : /\ pc[s] = "ready" /\ Goto(s, l)
                              /\ UNCHANGED <<dbVars, sessVars, jobVars, doubt>>
    BY <1>3 DEF Noop, Fetch, Idle, Starts, Selected
  <2>2. UNCHANGED <<hub, queue, token, view>>
    BY <2>1 DEF sessVars
  <2> QED
    BY <2>1, <2>2, PlainKept
<1>4. ASSUME NEW s \in Sessions, IdleWait(s) \/ IdleWake(s) \/ IdleDone(s) PROVE TypeInv'
  <2>1. PICK l \in Selected : /\ pc[s] \in {"wrote", "wait"} /\ Goto(s, l)
                              /\ UNCHANGED <<dbVars, jobVars, hub, queue, view, doubt>>
                              /\ token' \in {token, [token EXCEPT ![s] = FALSE]}
    BY <1>4 DEF IdleWait, IdleWake, IdleDone, Selected, sessVars
  <2> QED
    BY <2>1, PlainKept
<1> QED
  BY <1>1, <1>2, <1>3, <1>4 DEF PlainStep

LEMMA CloseTyped ==
  ASSUME TypeInv, NEW s \in Sessions, Close(s)
  PROVE  TypeInv'
<1> USE DEF TypeInv, Close
<1>1. FolderTyped' /\ DoubtTyped'
  BY DEF FolderTyped, DoubtTyped, dbVars
<1>2. SessTyped'
  <2>1. <<>> \in Seq(Messages) /\ <<>> \in Seq(Sound)
    BY EmptySeq
  <2> QED
    BY <2>1 DEF SessTyped
<1>3. JobTyped'
  BY DEF JobTyped
<1>4. PcTyped'
  <2>1. s \in Procs /\ todo[s] = <<>> /\ gone[s] = <<>> /\ todo' = todo /\ gone' = gone
    BY DEF PcTyped, Procs
  <2>2. "out" \in Labels
    BY DEF Labels
  <2> QED
    BY <2>1, <2>2, PcGoes
<1> QED
  BY <1>1, <1>2, <1>3, <1>4

\* A part of a queue is written.
LEMMA WritesTyped ==
  ASSUME TypeInv, NEW s \in Sessions, NEW n \in 0..Len(queue[s]), Writes(s, n), UNCHANGED token,
         NEW l \in {"ready", "wrote"}, pc[s] \in {"answer", "poll", "idle"}, Goto(s, l)
  PROVE  TypeInv'
<1> USE DEF TypeInv
<1>1. UNCHANGED <<dbVars, hub, jobVars, doubt>>
  BY DEF Writes
<1>2. FolderTyped' /\ DoubtTyped' /\ JobTyped'
  BY <1>1 DEF FolderTyped, DoubtTyped, JobTyped, dbVars, jobVars
<1>3. SessTyped'
  <2>1. queue[s] \in Seq(Sound) /\ view[s] \in Seq(Messages)
    BY DEF SessTyped
  <2>2. SubSeq(queue[s], n + 1, Len(queue[s])) \in Seq(Sound)
    BY <2>1, PartRest
  <2>3. SubSeq(queue[s], 1, n) \in Seq(Sound)
    <3>1. n \in Int /\ \A k \in 1..n : queue[s][k] \in Sound
      BY <2>1, LenProperties, ElementOfSeq
    <3> QED
      BY <3>1, SubSeqProperties
  <2>4. Hears(view[s], SubSeq(queue[s], 1, n)) \in Seq(Messages)
    BY <2>1, <2>3, HearsTyped
  <2> QED
    BY <1>1, <2>2, <2>4 DEF SessTyped, Writes
<1>4. PcTyped'
  <2>1. s \in Procs /\ todo[s] = <<>> /\ gone[s] = <<>> /\ todo' = todo /\ gone' = gone
    BY <1>1 DEF PcTyped, Procs, jobVars
  <2>2. l \in Labels /\ l \notin {"push", "send", "mark", "purge"}
    BY DEF Labels, Selected
  <2> QED
    BY <2>1, <2>2, PcGoes
<1> QED
  BY <1>2, <1>3, <1>4

\* How many updates are written.
LEMMA UnnumberedFirst ==
  ASSUME NEW q \in Seq(Sound)
  PROVE  /\ Unnumbered(q) \in 0..Len(q)
         /\ \A k \in 1..Unnumbered(q) : q[k].kind # "expunge"
<1> DEFINE U == {k \in DOMAIN q : \A j \in 1..k : q[j].kind # "expunge"}
<1>1. Len(q) \in Nat /\ DOMAIN q = 1..Len(q)
  BY LenProperties
<1>2. IsFiniteSet(1..Len(q)) /\ Cardinality(1..Len(q)) = Len(q)
  BY <1>1, FS_Interval
<1>3. U \in SUBSET (1..Len(q))
  BY <1>1
<1>4. PICK c \in Nat : c = Cardinality(U)
  BY <1>2, <1>3, FS_Subset, FS_CardinalityType
<1>5. c <= Len(q)
  BY <1>2, <1>3, <1>4, FS_Subset
<1>6. Unnumbered(q) = c
  BY <1>4 DEF Unnumbered
<1>7. ASSUME NEW k \in 1..c, q[k].kind = "expunge" PROVE FALSE
  <2>1. U \in SUBSET (1..k - 1)
    <3>1. ASSUME NEW j \in U PROVE j \in 1..k - 1
      <4>1. j \in 1..Len(q) /\ \A i \in 1..j : q[i].kind # "expunge"
        BY <1>1
      <4>2. k \notin 1..j
        BY <1>7, <4>1
      <4> QED
        BY <4>1, <4>2
    <3> QED
      BY <3>1
  <2>2. IsFiniteSet(1..k - 1) /\ Cardinality(1..k - 1) = k - 1
    BY FS_Interval
  <2>3. Cardinality(U) <= k - 1
    BY <2>1, <2>2, FS_Subset
  <2> QED
    BY <1>4, <2>3
<1> QED
  BY <1>1, <1>5, <1>6, <1>7

\* A handler goes on: only its own job and place change.
LEMMA FlagsTyped ==
  ASSUME TypeInv, NEW p \in Procs, Store(p) \/ MarkRead(p), p \in Sessions \/ MarkRead(p)
  PROVE  TypeInv'
<1> USE DEF TypeInv
<1>1. PICK l \in {"push", "answer"} :
        /\ pc[p] \in {"ready", "out"} /\ Goto(p, l)
        /\ todo' = IF l = "push" THEN [todo EXCEPT ![p] = <<Flags>>] ELSE todo
        /\ UNCHANGED <<dbVars, sessVars, plan, gone, targets, doubt>>
  BY DEF Store, MarkRead, Starts
<1>2. FolderTyped' /\ DoubtTyped' /\ SessTyped'
  BY <1>1 DEF FolderTyped, DoubtTyped, SessTyped, dbVars, sessVars
<1>3. <<Flags>> \in Seq(Sound) /\ <<Flags>> # <<>>
  BY SoundUpdates
<1>4. JobTyped'
  BY <1>1, <1>3 DEF JobTyped
<1>5. PcTyped'
  <2>1. todo[p] = <<>> /\ gone[p] = <<>>
    BY <1>1 DEF PcTyped
  <2>2. todo'[p] # <<>> <=> l = "push"
    BY <1>1, <1>3, <2>1 DEF JobTyped
  <2>3. \A q \in Procs \ {p} : todo'[q] = todo[q]
    BY <1>1 DEF JobTyped
  <2>4. l \in Labels /\ l \notin {"mark", "purge", "send"}
    BY DEF Labels, Selected
  <2> QED
    BY <1>1, <2>1, <2>2, <2>3, <2>4, PcGoes
<1> QED
  BY <1>2, <1>4, <1>5

\* A message is added, or none.
LEMMA AddedTyped ==
  ASSUME TypeInv, NEW p \in Procs, Add(p) \/ Restore(p) \/ CopyNone(p)
  PROVE  TypeInv'
<1> USE DEF TypeInv
<1>1. pc[p] \in {"ready", "out", "count"} /\ Goto(p, "count") /\ UNCHANGED <<sessVars, jobVars>>
  BY DEF Add, Restore, CopyNone, Starts
<1>2. FolderTyped'
  <2>1. CASE Add(p)
    BY <2>1, PushAssumption DEF Add, FolderTyped
  <2>2. CASE Restore(p)
    BY <2>2, PushAssumption DEF Restore, FolderTyped
  <2>3. CASE CopyNone(p)
    BY <2>3 DEF CopyNone, FolderTyped, dbVars
  <2> QED
    BY <2>1, <2>2, <2>3
<1>3. SessTyped' /\ JobTyped'
  BY <1>1 DEF SessTyped, JobTyped, sessVars, jobVars
<1>4. PcTyped'
  <2>1. todo[p] = <<>> /\ gone[p] = <<>> /\ todo' = todo /\ gone' = gone
    BY <1>1 DEF PcTyped, jobVars
  <2>2. "count" \in Labels
    BY DEF Labels
  <2> QED
    BY <1>1, <2>1, <2>2, PcGoes
<1>5. DoubtTyped'
  <2>1. PICK why \in SUBSET Causes : Doubted(p, why)
    BY DEF Add, Restore, CopyNone, Causes
  <2> QED
    BY <2>1, DoubtedTyped
<1> QED
  BY <1>2, <1>3, <1>4, <1>5

LEMMA CountTyped ==
  ASSUME TypeInv, NEW p \in Procs, Count(p)
  PROVE  TypeInv'
<1> USE DEF TypeInv
<1>1. PICK l \in {"push", Answer(p)} :
        /\ pc[p] = "count" /\ Goto(p, l)
        /\ todo' = IF l = "push" THEN [todo EXCEPT ![p] = <<Exists>>] ELSE todo
        /\ UNCHANGED <<dbVars, sessVars, plan, gone, targets>>
        /\ (UNCHANGED doubt \/ Doubted(p, {"failure"}))
  BY DEF Count, Answer
<1>2. FolderTyped' /\ SessTyped'
  BY <1>1 DEF FolderTyped, SessTyped, dbVars, sessVars
<1>3. <<Exists>> \in Seq(Sound) /\ <<Exists>> # <<>>
  BY SoundUpdates
<1>4. JobTyped'
  BY <1>1, <1>3 DEF JobTyped
<1>5. PcTyped'
  <2>1. todo[p] = <<>> /\ gone[p] = <<>>
    BY <1>1 DEF PcTyped
  <2>2. todo'[p] # <<>> <=> l = "push"
    BY <1>1, <1>3, <2>1 DEF JobTyped
  <2>3. \A q \in Procs \ {p} : todo'[q] = todo[q]
    BY <1>1 DEF JobTyped
  <2>4. l \in Labels /\ l \notin {"mark", "purge", "send"}
    BY DEF Labels, Selected, Answer
  <2> QED
    BY <1>1, <2>1, <2>2, <2>3, <2>4, PcGoes
<1>6. DoubtTyped'
  <2>1. {"failure"} \in SUBSET Causes
    BY DEF Causes
  <2>2. CASE UNCHANGED doubt
    BY <2>2 DEF DoubtTyped
  <2>3. CASE Doubted(p, {"failure"})
    BY <2>1, <2>3, DoubtedTyped
  <2> QED
    BY <1>1, <2>2, <2>3
<1> QED
  BY <1>2, <1>4, <1>5, <1>6

\* Messages are listed for removal, by their numbers unless a query failed.
ListsAs(p, planned, next, why) ==
  /\ Starts(p) /\ Lists(p, planned, next, why) /\ planned \in Seq(Planned)
  /\ next \in {"delete", "move"} /\ why \in {{}, {"failure"}}
  /\ why = {} => \E S \in SUBSET folder : planned = Plan(S)
ListsStep(p) == \E planned, next, why : ListsAs(p, planned, next, why)

LEMMA ListsSteps ==
  ASSUME FolderTyped, NEW p, ExpungeRead(p) \/ MoveRead(p) \/ WebDelete(p) \/ EmptyFolder(p)
  PROVE  ListsStep(p)
<1>1. Starts(p)
  BY DEF ExpungeRead, MoveRead, WebDelete, EmptyFolder
<1>2. ASSUME NEW S \in SUBSET folder, NEW next \in {"delete", "move"}, Lists(p, Plan(S), next, {})
      PROVE  ListsStep(p)
  <2>1. Plan(S) \in Seq(Planned)
    BY PlanTyped
  <2>2. ListsAs(p, Plan(S), next, {})
    BY <1>1, <1>2, <2>1 DEF ListsAs
  <2> QED
    BY <2>2 DEF ListsStep
<1>3. CASE ExpungeRead(p)
  <2>1. PICK S \in SUBSET folder : Lists(p, Plan(S), "delete", {})
    BY <1>3 DEF ExpungeRead
  <2> QED
    BY <1>2, <2>1
<1>4. CASE MoveRead(p)
  <2>1. PICK S \in SUBSET folder : Lists(p, Plan(S), "move", {})
    BY <1>4 DEF MoveRead
  <2> QED
    BY <1>2, <2>1
<1>5. CASE EmptyFolder(p)
  BY <1>2, <1>5 DEF EmptyFolder
<1>6. CASE WebDelete(p)
  <2>1. PICK m \in folder, next \in {"move", "delete"} :
          \/ Lists(p, Plan({m}), next, {})
          \/ MayFail /\ Lists(p, <<[id |-> m, num |-> 0]>>, next, {"failure"})
    BY <1>6 DEF WebDelete
  <2>2. CASE Lists(p, Plan({m}), next, {})
    <3>1. {m} \in SUBSET folder
      OBVIOUS
    <3> QED
      BY <1>2, <2>2, <3>1
  <2>3. CASE Lists(p, <<[id |-> m, num |-> 0]>>, next, {"failure"})
    <3>1. [id |-> m, num |-> 0] \in Planned
      BY FolderFinite, PushAssumption DEF Planned
    <3>2. <<[id |-> m, num |-> 0]>> \in Seq(Planned)
      BY <3>1
    <3>3. ListsAs(p, <<[id |-> m, num |-> 0]>>, next, {"failure"})
      BY <1>1, <2>3, <3>2 DEF ListsAs
    <3> QED
      BY <3>3 DEF ListsStep
  <2> QED
    BY <2>1, <2>2, <2>3
<1> QED
  BY <1>3, <1>4, <1>5, <1>6

LEMMA ListsTyped ==
  ASSUME TypeInv, NEW p \in Procs, ListsStep(p)
  PROVE  TypeInv'
<1> USE DEF TypeInv
<1>1. PICK planned, next, why :
        /\ Starts(p) /\ Lists(p, planned, next, why) /\ planned \in Seq(Planned)
        /\ next \in {"delete", "move"} /\ why \in {{}, {"failure"}}
  BY DEF ListsStep, ListsAs
<1>2. /\ plan' = [plan EXCEPT ![p] = planned] /\ Goto(p, next)
      /\ Doubted(p, why \union {c \in {"several"} : Len(planned) > 1})
      /\ UNCHANGED <<dbVars, sessVars, gone, todo, targets>>
  BY <1>1 DEF Lists
<1>3. FolderTyped' /\ SessTyped'
  BY <1>2 DEF FolderTyped, SessTyped, dbVars, sessVars
<1>4. JobTyped'
  BY <1>1, <1>2 DEF JobTyped
<1>5. PcTyped'
  <2>1. todo[p] = <<>> /\ gone[p] = <<>>
    BY <1>1 DEF PcTyped, Starts
  <2>2. next \in Labels /\ next \notin {"push", "send", "mark", "purge"}
    BY <1>1 DEF Labels
  <2> QED
    BY <1>2, <2>1, <2>2, PcGoes
<1>6. DoubtTyped'
  <2>1. (why \union {c \in {"several"} : Len(planned) > 1}) \in SUBSET Causes
    BY <1>1 DEF Causes
  <2> QED
    BY <1>2, <2>1, DoubtedTyped
<1> QED
  BY <1>3, <1>4, <1>5, <1>6

\* What a handler has listed is removed.
LEMMA PlanRest ==
  ASSUME JobTyped, NEW p \in Procs
  PROVE  /\ <<>> \in Seq(Planned)
         /\ \A k \in DOMAIN plan[p] : /\ plan[p][k] \in Planned
                                      /\ Without(plan[p], k) \in Seq(Planned)
         /\ plan[p] # <<>> => Head(plan[p]) \in Planned /\ Tail(plan[p]) \in Seq(Planned)
<1>1. plan[p] \in Seq(Planned) /\ DOMAIN plan[p] = 1..Len(plan[p])
  BY LenProperties DEF JobTyped
<1>2. \A k \in DOMAIN plan[p] : plan[p][k] \in Planned /\ Without(plan[p], k) \in Seq(Planned)
  BY <1>1, ElementOfSeq, WithoutTyped
<1>3. plan[p] # <<>> => Head(plan[p]) \in Planned /\ Tail(plan[p]) \in Seq(Planned)
  BY <1>1, HeadTailProperties
<1> QED
  BY <1>2, <1>3, EmptySeq

LEMMA DeleteManyTyped ==
  ASSUME TypeInv, NEW p \in Procs, DeleteMany(p)
  PROVE  TypeInv'
<1> USE DEF TypeInv
<1>1. /\ pc[p] = "delete" /\ plan' = [plan EXCEPT ![p] = <<>>]
      /\ UNCHANGED <<trash, last, hub, queue, token, gone, targets>>
  BY DEF DeleteMany
<1>2. \/ Breaks(p, plan[p])
      \/ \E nums \in {[k \in DOMAIN plan[p] |-> plan[p][k].num], <<>>} : Announce(p, nums)
  BY DEF DeleteMany
<1>3. \A nums \in {[k \in DOMAIN plan[p] |-> plan[p][k].num], <<>>} : nums \in Seq(0..MaxMsg)
  <2>1. plan[p] \in Seq(Planned)
    BY DEF JobTyped
  <2>2. PICK c \in Nat : c = Len(plan[p]) /\ DOMAIN plan[p] = 1..c
    BY <2>1, LenProperties
  <2>3. \A k \in 1..c : plan[p][k].num \in 0..MaxMsg
    BY <2>2, PlanRest DEF Planned
  <2>4. [k \in DOMAIN plan[p] |-> plan[p][k].num] \in [1..c -> 0..MaxMsg]
    BY <2>2, <2>3
  <2>5. [k \in DOMAIN plan[p] |-> plan[p][k].num] \in Seq(0..MaxMsg)
    BY <2>4, SeqOf
  <2>6. <<>> \in Seq(0..MaxMsg)
    BY EmptySeq
  <2> QED
    BY <2>5, <2>6
<1>4. gone[p] = <<>> /\ gone' = gone
  BY <1>1 DEF PcTyped
<1>5. /\ todo' \in [Procs -> Seq(Sound)] /\ view' \in [Sessions -> Seq(Messages)] /\ PcTyped'
  <2>1. CASE Breaks(p, plan[p])
    BY <1>1, <1>4, <2>1, BreaksTyped
  <2>2. ASSUME NEW nums \in Seq(0..MaxMsg), Announce(p, nums)
        PROVE  /\ todo' \in [Procs -> Seq(Sound)] /\ view' \in [Sessions -> Seq(Messages)]
               /\ PcTyped'
    BY <1>4, <2>2, AnnounceTyped
  <2> QED
    BY <1>2, <1>3, <2>1, <2>2
<1>6. SessTyped' /\ JobTyped'
  BY <1>1, <1>5, PlanRest DEF SessTyped, JobTyped
<1>7. FolderTyped'
  <2>1. folder' \subseteq folder
    BY DEF DeleteMany
  <2> QED
    BY <1>1, <2>1 DEF FolderTyped
<1>8. DoubtTyped'
  <2>1. CASE doubt' = doubt \union ({p} \X Overtakes(p, plan[p]))
    BY <2>1 DEF DoubtTyped, Overtakes, Causes
  <2>2. CASE UNCHANGED doubt
    BY <2>2 DEF DoubtTyped
  <2>3. CASE Doubted(p, {"failure"})
    <3>1. {"failure"} \in SUBSET Causes
      BY DEF Causes
    <3> QED
      BY <2>3, <3>1, DoubtedTyped
  <2>4. CASE Breaks(p, plan[p])
    BY <1>1, <1>4, <2>4, BreaksTyped
  <2> QED
    BY <2>1, <2>2, <2>3, <2>4 DEF DeleteMany
<1> QED
  BY <1>5, <1>6, <1>7, <1>8

LEMMA RemoveOneTyped ==
  ASSUME TypeInv, NEW p \in Procs, MoveOne(p) \/ Pop3Delete(p)
  PROVE  TypeInv'
<1> USE DEF TypeInv
<1>1. PICK m \in Planned, rest \in Seq(Planned) :
        /\ pc[p] \in {"move", "purge"} /\ plan' = [plan EXCEPT ![p] = rest]
        /\ gone' \in {gone, [gone EXCEPT ![p] = Append(@, m.num)]}
        /\ folder' \in {folder, folder \ {m.id}}
        /\ trash' \in {trash, trash \union ({m.id} \intersect folder)}
        /\ (trash' # trash => folder' = folder \ {m.id})
        /\ UNCHANGED <<last, sessVars, pc, todo, targets, doubt>>
  <2>1. CASE MoveOne(p)
    <3>1. Head(plan[p]) \in Planned /\ Tail(plan[p]) \in Seq(Planned)
      BY <2>1, PlanRest DEF MoveOne
    <3> QED
      BY <2>1, <3>1 DEF MoveOne
  <2>2. CASE Pop3Delete(p)
    <3>1. PICK k \in DOMAIN plan[p] :
            /\ plan' = [plan EXCEPT ![p] = Without(@, k)]
            /\ \/ /\ folder' = folder \ {plan[p][k].id}
                  /\ gone' = [gone EXCEPT ![p] = Append(@, plan[p][k].num)]
               \/ UNCHANGED <<folder, gone>>
      BY <2>2 DEF Pop3Delete
    <3>2. plan[p][k] \in Planned /\ Without(plan[p], k) \in Seq(Planned)
      BY PlanRest
    <3> QED
      BY <2>2, <3>1, <3>2 DEF Pop3Delete, JobTyped
  <2> QED
    BY <2>1, <2>2
<1>2. m.num \in 0..MaxMsg
  BY DEF Planned
<1>3. FolderTyped'
  BY <1>1 DEF FolderTyped
<1>4. SessTyped' /\ DoubtTyped'
  <2>1. UNCHANGED sessVars /\ UNCHANGED doubt
    BY <1>1
  <2>2. SessTyped'
    BY <2>1 DEF SessTyped, sessVars
  <2>3. DoubtTyped'
    BY <2>1 DEF DoubtTyped
  <2> QED
    BY <2>2, <2>3
<1>5. JobTyped'
  <2>1. plan' \in [Procs -> Seq(Planned)]
    BY <1>1 DEF JobTyped
  <2>2. Append(gone[p], m.num) \in Seq(0..MaxMsg)
    BY <1>2, AppendProperties DEF JobTyped
  <2> QED
    BY <1>1, <2>1, <2>2 DEF JobTyped
<1>6. PcTyped'
  BY <1>1 DEF PcTyped, JobTyped
<1> QED
  BY <1>3, <1>4, <1>5, <1>6

LEMMA EndTyped ==
  ASSUME TypeInv, NEW p \in Procs, MoveEnd(p) \/ Pop3End(p)
  PROVE  TypeInv'
<1> USE DEF TypeInv
<1>1. /\ plan[p] = <<>> /\ gone' = [gone EXCEPT ![p] = <<>>]
      /\ UNCHANGED <<dbVars, hub, queue, token, plan, targets>> /\ pc[p] \in {"move", "purge"}
  BY DEF MoveEnd, Pop3End
<1>2. Breaks(p, gone[p]) \/ \E nums \in {gone[p], <<>>} : Announce(p, nums)
  BY DEF MoveEnd, Pop3End
<1>3. gone[p] \in Seq(0..MaxMsg) /\ <<>> \in Seq(0..MaxMsg)
  BY EmptySeq DEF JobTyped
<1>4. gone' \in [Procs -> Seq(0..MaxMsg)] /\ gone'[p] = <<>>
      /\ \A q \in Procs \ {p} : gone'[q] = gone[q]
  BY <1>1, <1>3 DEF JobTyped
<1>5. /\ todo' \in [Procs -> Seq(Sound)] /\ view' \in [Sessions -> Seq(Messages)] /\ PcTyped'
  <2>1. CASE Breaks(p, gone[p])
    BY <1>1, <1>4, <2>1, BreaksTyped
  <2>2. ASSUME NEW nums \in Seq(0..MaxMsg), Announce(p, nums)
        PROVE  /\ todo' \in [Procs -> Seq(Sound)] /\ view' \in [Sessions -> Seq(Messages)]
               /\ PcTyped'
    BY <1>4, <2>2, AnnounceTyped
  <2> QED
    BY <1>2, <1>3, <2>1, <2>2
<1>6. FolderTyped' /\ SessTyped' /\ JobTyped'
  BY <1>1, <1>4, <1>5 DEF FolderTyped, SessTyped, JobTyped, dbVars
<1>7. DoubtTyped'
  <2>1. CASE doubt' = doubt \union ({p} \X Overtakes(p, gone[p]))
    BY <2>1 DEF DoubtTyped, Overtakes, Causes
  <2>2. CASE UNCHANGED doubt
    BY <2>2 DEF DoubtTyped
  <2>3. CASE Doubted(p, {c \in {"bare"} : gone[p] # <<>>})
    <3>1. {c \in {"bare"} : gone[p] # <<>>} \in SUBSET Causes
      BY DEF Causes
    <3> QED
      BY <2>3, <3>1, DoubtedTyped
  <2>4. CASE Breaks(p, gone[p])
    BY <1>1, <1>4, <2>4, BreaksTyped
  <2> QED
    BY <2>1, <2>2, <2>3, <2>4 DEF MoveEnd, Pop3End
<1> QED
  BY <1>5, <1>6, <1>7

LEMMA Pop3Typed ==
  ASSUME TypeInv, NEW p \in Requests, Pop3Mark(p) \/ Pop3Drop(p) \/ Pop3Quit(p)
  PROVE  TypeInv'
<1> USE DEF TypeInv
<1>1. p \in Procs /\ p \notin Sessions
  BY PushAssumption DEF Procs
<1>2. PICK l \in {"mark", "out", "purge"} : Goto(p, l)
  BY DEF Pop3Mark, Pop3Drop, Pop3Quit
<1>3. pc[p] \in {"out", "mark"} /\ UNCHANGED <<dbVars, sessVars, gone, todo, targets>>
  BY <1>1 DEF Pop3Mark, Pop3Drop, Pop3Quit, Starts, jobVars
<1>4. \E planned \in Seq(Planned) : plan' = [plan EXCEPT ![p] = planned]
  <2>1. CASE Pop3Mark(p)
    BY <2>1, PlanTyped DEF Pop3Mark
  <2>2. CASE Pop3Drop(p)
    BY <1>1, <2>2, PlanRest DEF Pop3Drop
  <2>3. CASE Pop3Quit(p)
    BY <1>1, <2>3 DEF Pop3Quit, jobVars, JobTyped
  <2> QED
    BY <2>1, <2>2, <2>3
<1>5. FolderTyped' /\ SessTyped' /\ JobTyped'
  BY <1>3, <1>4 DEF FolderTyped, SessTyped, JobTyped, dbVars, sessVars
<1>6. PcTyped'
  <2>1. todo[p] = <<>> /\ gone[p] = <<>>
    BY <1>1, <1>3 DEF PcTyped
  <2>2. l \in Labels /\ l \notin {"push", "send"}
    BY DEF Labels
  <2> QED
    BY <1>1, <1>2, <1>3, <2>1, <2>2, PcGoes
<1>7. DoubtTyped'
  <2>1. CASE UNCHANGED doubt
    BY <2>1 DEF DoubtTyped
  <2>2. CASE Pop3Quit(p)
    <3>1. PICK why \in SUBSET Causes : Doubted(p, why)
      BY <2>2 DEF Pop3Quit, Causes
    <3> QED
      BY <3>1, DoubtedTyped
  <2> QED
    BY <2>1, <2>2 DEF Pop3Mark, Pop3Drop
<1> QED
  BY <1>5, <1>6, <1>7

\* An update is pushed.
LEMMA PushTyped ==
  ASSUME TypeInv, NEW p \in Procs, Snapshot(p) \/ Sent(p) \/ \E s \in Sessions : Send(p, s)
  PROVE  TypeInv'
<1> USE DEF TypeInv
<1>1. UNCHANGED <<dbVars, hub, view, plan, gone, doubt>> /\ pc[p] \in {"push", "send"}
  BY DEF Snapshot, Sent, Send, sessVars
<1>2. FolderTyped' /\ DoubtTyped'
  BY <1>1 DEF FolderTyped, DoubtTyped, dbVars
<1>3. todo[p] \in Seq(Sound) /\ todo[p] # <<>> /\ gone[p] = <<>>
  BY <1>1 DEF JobTyped, PcTyped
<1>4. Head(todo[p]) \in Sound /\ Tail(todo[p]) \in Seq(Sound)
  BY <1>3, HeadTailProperties
<1>5. SessTyped'
  <2>1. CASE UNCHANGED sessVars
    BY <2>1 DEF SessTyped, sessVars
  <2>2. ASSUME NEW s \in Sessions, Send(p, s) PROVE SessTyped'
    BY <1>1, <1>4, <2>2, AppendProperties DEF Send, Notify, SessTyped
  <2> QED
    BY <2>1, <2>2 DEF Snapshot, Sent
<1>6. JobTyped'
  <2>1. CASE Snapshot(p)
    <3>1. Audience(p, Head(todo[p])) \in SUBSET Sessions
      BY DEF Audience, SessTyped
    <3> QED
      BY <2>1, <3>1 DEF Snapshot, JobTyped
  <2>2. CASE Sent(p)
    BY <1>4, <2>2 DEF Sent, JobTyped
  <2>3. ASSUME NEW s \in Sessions, Send(p, s) PROVE JobTyped'
    BY <2>3 DEF Send, JobTyped
  <2> QED
    BY <2>1, <2>2, <2>3
<1>7. PcTyped'
  <2>1. CASE Snapshot(p)
    <3>1. Goto(p, "send") /\ UNCHANGED <<todo, gone>> /\ "send" \in Labels
      BY <2>1 DEF Snapshot, Labels
    <3> QED
      BY <1>3, <3>1, PcGoes
  <2>2. CASE Sent(p)
    <3>1. todo' = [todo EXCEPT ![p] = Tail(todo[p])] /\ gone' = gone
      BY <2>2 DEF Sent
    <3>2. todo'[p] = Tail(todo[p]) /\ \A q \in Procs \ {p} : todo'[q] = todo[q]
      BY <3>1 DEF JobTyped
    <3>3. PICK l \in Labels : /\ Goto(p, l) /\ l \notin {"mark", "purge"}
                              /\ l \in {"push", "send"} <=> Tail(todo[p]) # <<>>
      BY <2>2 DEF Sent, Answer, Labels, Selected
    <3> QED
      BY <1>3, <3>1, <3>2, <3>3, PcGoes
  <2>3. ASSUME NEW s \in Sessions, Send(p, s) PROVE PcTyped'
    BY <2>3 DEF Send, PcTyped
  <2> QED
    BY <2>1, <2>2, <2>3
<1> QED
  BY <1>2, <1>5, <1>6, <1>7

LEMMA TypeStep ==
  ASSUME TypeInv, [Next]_vars
  PROVE  TypeInv'
<1>1. CASE UNCHANGED vars
  BY <1>1 DEF TypeInv, FolderTyped, SessTyped, JobTyped, PcTyped, DoubtTyped,
              vars, dbVars, sessVars, jobVars
<1>2. FolderTyped
  BY DEF TypeInv
<1>3. ASSUME NEW s \in Sessions, Command(s) \/ Session(s) PROVE TypeInv'
  <2>1. s \in Procs
    BY DEF Procs
  <2>2. CASE PlainStep
    BY <2>2, PlainTyped
  <2>3. CASE Close(s)
    BY <2>3, CloseTyped
  <2>4. CASE Store(s)
    BY <2>1, <2>4, FlagsTyped
  <2>5. CASE ExpungeRead(s) \/ MoveRead(s)
    BY <1>2, <2>1, <2>5, ListsSteps, ListsTyped
  <2>6. CASE PollNoExpunge(s)
    <3>1. Unnumbered(queue[s]) \in 0..Len(queue[s])
      BY UnnumberedFirst DEF TypeInv, SessTyped
    <3> QED
      BY <2>6, <3>1, WritesTyped DEF PollNoExpunge
  <2>7. CASE Poll(s) \/ IdleWrite(s)
    <3>1. Len(queue[s]) \in 0..Len(queue[s])
      BY LenProperties DEF TypeInv, SessTyped
    <3> QED
      BY <2>7, <3>1, WritesTyped DEF Poll, IdleWrite
  <2> QED
    BY <1>3, <2>2, <2>3, <2>4, <2>5, <2>6, <2>7 DEF Command, Session, PlainStep
<1>4. ASSUME NEW p \in Requests, Request(p) PROVE TypeInv'
  <2>1. p \in Procs
    BY DEF Procs
  <2>2. CASE MarkRead(p)
    BY <2>1, <2>2, FlagsTyped
  <2>3. CASE Restore(p)
    BY <2>1, <2>3, AddedTyped
  <2>4. CASE WebDelete(p) \/ EmptyFolder(p)
    BY <1>2, <2>1, <2>4, ListsSteps, ListsTyped
  <2>5. CASE Pop3Mark(p) \/ Pop3Drop(p) \/ Pop3Quit(p)
    BY <2>5, Pop3Typed
  <2> QED
    BY <1>4, <2>2, <2>3, <2>4, <2>5 DEF Request
<1>5. ASSUME NEW p \in Procs, Add(p) \/ CopyNone(p) \/ Handler(p) PROVE TypeInv'
  BY <1>5, AddedTyped, CountTyped, DeleteManyTyped, RemoveOneTyped, EndTyped, PushTyped DEF Handler
<1> QED
  BY <1>1, <1>3, <1>4, <1>5 DEF Next

-----------------------------------------------------------------------------
(* The hub.  A session joins it after it has read the folder and leaves it *)
(* when it stops to have it selected.                                      *)

\* A process goes from one place inside to another, or is none of the sessions.
LEMMA HubStays ==
  ASSUME HubExact, pc \in [Procs -> Labels], NEW p \in Procs, NEW l, Goto(p, l), UNCHANGED hub,
         p \in Sessions => pc[p] \notin {"out", "join"} /\ l \notin {"out", "join"}
  PROVE  HubExact'
<1>1. \A s \in Sessions : pc'[s] = IF s = p THEN l ELSE pc[s]
  BY DEF Goto, Procs
<1> QED
  BY <1>1 DEF HubExact

LEMMA HubStep ==
  ASSUME TypeInv, HubExact, [Next]_vars
  PROVE  HubExact'
<1>1. pc \in [Procs -> Labels] /\ \A s \in Sessions : pc[s] \notin {"mark", "purge"}
  BY DEF TypeInv, PcTyped
<1>2. CASE UNCHANGED <<hub, pc>>
  BY <1>2 DEF HubExact
<1>3. ASSUME NEW s \in Sessions, Command(s) \/ Session(s) PROVE HubExact'
  <2>1. s \in Procs
    BY DEF Procs
  <2>2. CASE SelectRead(s)
    BY <1>1, <2>1, <2>2 DEF SelectRead, Goto, HubExact, Procs
  <2>3. CASE SelectJoin(s)
    BY <1>1, <2>1, <2>3 DEF SelectJoin, Goto, HubExact, Procs
  <2>4. CASE UnselectLeave(s)
    BY <1>1, <2>1, <2>4 DEF UnselectLeave, Goto, HubExact, Procs
  <2>5. CASE Close(s)
    BY <1>1, <2>1, <2>5 DEF Close, Goto, HubExact, Procs
  <2>6. CASE UnselectClear(s) \/ Noop(s) \/ Fetch(s) \/ Store(s) \/ Idle(s) \/ IdleDone(s)
    <3>1. PICK l : /\ Goto(s, l) /\ UNCHANGED hub /\ l \notin {"out", "join"}
                   /\ pc[s] \notin {"out", "join"}
      BY <2>6 DEF UnselectClear, Noop, Fetch, Store, Idle, IdleDone, Starts, sessVars
    <3> QED
      BY <1>1, <2>1, <3>1, HubStays
  <2>7. CASE PollNoExpunge(s) \/ Poll(s) \/ IdleWrite(s) \/ IdleWait(s) \/ IdleWake(s)
    <3>1. PICK l : /\ Goto(s, l) /\ UNCHANGED hub /\ l \notin {"out", "join"}
                   /\ pc[s] \notin {"out", "join"}
      BY <2>7 DEF PollNoExpunge, Poll, IdleWrite, IdleWait, IdleWake, Writes, sessVars
    <3> QED
      BY <1>1, <2>1, <3>1, HubStays
  <2>8. CASE ExpungeRead(s) \/ MoveRead(s)
    <3>1. PICK l : /\ Goto(s, l) /\ UNCHANGED hub /\ l \notin {"out", "join"}
                   /\ pc[s] \notin {"out", "join"}
      BY <2>8 DEF ExpungeRead, MoveRead, Starts, Lists, sessVars
    <3> QED
      BY <1>1, <2>1, <3>1, HubStays
  <2> QED
    BY <1>3, <2>2, <2>3, <2>4, <2>5, <2>6, <2>7, <2>8 DEF Command, Session
<1>4. ASSUME NEW p \in Requests, Request(p) PROVE HubExact'
  <2>1. p \in Procs /\ p \notin Sessions
    BY PushAssumption DEF Procs
  <2>2. CASE MarkRead(p) \/ Restore(p) \/ Pop3Mark(p) \/ Pop3Drop(p) \/ Pop3Quit(p)
    <3>1. PICK l : Goto(p, l) /\ UNCHANGED hub
      BY <2>2 DEF MarkRead, Restore, Pop3Mark, Pop3Drop, Pop3Quit, sessVars
    <3> QED
      BY <1>1, <2>1, <3>1, HubStays
  <2>3. CASE WebDelete(p) \/ EmptyFolder(p)
    <3>1. PICK l : Goto(p, l) /\ UNCHANGED hub
      BY <2>3 DEF WebDelete, EmptyFolder, Lists, sessVars
    <3> QED
      BY <1>1, <2>1, <3>1, HubStays
  <2> QED
    BY <1>4, <2>2, <2>3 DEF Request
<1>5. ASSUME NEW p \in Procs, Add(p) \/ CopyNone(p) \/ Handler(p) PROVE HubExact'
  <2>1. CASE Add(p) \/ CopyNone(p) \/ Count(p)
    <3>1. PICK l : /\ Goto(p, l) /\ UNCHANGED hub
                   /\ p \in Sessions => pc[p] \notin {"out", "join"} /\ l \notin {"out", "join"}
      BY <2>1 DEF Add, CopyNone, Count, Starts, Answer, sessVars
    <3> QED
      BY <1>1, <3>1, HubStays
  <2>2. CASE DeleteMany(p) \/ MoveEnd(p) \/ Pop3End(p)
    <3>1. \E nums : Announce(p, nums) \/ Breaks(p, nums)
      BY <2>2 DEF DeleteMany, MoveEnd, Pop3End
    <3>2. PICK l : Goto(p, l) /\ (p \in Sessions => l \notin {"out", "join"})
      BY <3>1 DEF Announce, Breaks, Answer
    <3>3. UNCHANGED hub /\ (p \in Sessions => pc[p] \notin {"out", "join"})
      BY <2>2 DEF DeleteMany, MoveEnd, Pop3End
    <3> QED
      BY <1>1, <3>2, <3>3, HubStays
  <2>3. CASE MoveOne(p) \/ Pop3Delete(p) \/ \E s \in Sessions : Send(p, s)
    BY <1>2, <2>3 DEF MoveOne, Pop3Delete, Send, sessVars
  <2>4. CASE Snapshot(p) \/ Sent(p)
    <3>1. PICK l : /\ Goto(p, l) /\ UNCHANGED hub
                   /\ p \in Sessions => pc[p] \notin {"out", "join"} /\ l \notin {"out", "join"}
      BY <2>4 DEF Snapshot, Sent, Answer, sessVars
    <3> QED
      BY <1>1, <3>1, HubStays
  <2> QED
    BY <1>5, <2>1, <2>2, <2>3, <2>4 DEF Handler
<1> QED
  BY <1>2, <1>3, <1>4, <1>5 DEF Next, vars, sessVars

-----------------------------------------------------------------------------
(* What a client will know once it has heard all that is queued for it.    *)
Heard(s) == Hears(view[s], queue[s])

\* No EXISTS that is queued counts fewer messages than the client will then see.
Growing(s) ==
  \A k \in 1..Len(queue[s]) :
    Grows(Hears(view[s], SubSeq(queue[s], 1, k - 1)), queue[s][k])

\* One more update will make it right.
Due(s, u) == Told(Heard(s), u) = Listing /\ Grows(Heard(s), u)

\* A handler that changes the folder removes one message, or pushes one update.
Removing(p) == \E m \in folder : plan[p] = <<[id |-> m, num |-> Number(m)]>>
Shape(p) ==
  /\ pc[p] = "delete" => Removing(p)
  /\ pc[p] \in {"move", "purge"} => \/ Removing(p) /\ gone[p] = <<>>
                                    \/ plan[p] = <<>> /\ Len(gone[p]) <= 1
  /\ pc[p] \in {"push", "send"} => Len(todo[p]) = 1

\* What client s has yet to hear from handler p, which has changed the folder or will.
Awaits(p, s) ==
  /\ pc[p] = "count" => Due(s, Exists)
  /\ pc[p] = "delete" => Heard(s) = Listing
  /\ pc[p] \in {"move", "purge"} =>
       IF gone[p] = <<>> THEN Heard(s) = Listing ELSE Due(s, Expunge(gone[p][1]))
  /\ pc[p] = "push" =>
       IF s = p /\ todo[p][1].kind # "exists" THEN Heard(s) = Listing ELSE Due(s, todo[p][1])
  /\ pc[p] = "send" => IF s \in targets[p] THEN Due(s, todo[p][1]) ELSE Heard(s) = Listing

\* A client in step: one handler at most changes the folder, and the client knows the
\* folder but for what it has yet to hear from this handler.
InStep(s) ==
  /\ \A p, q \in Procs : Changing(p) /\ Changing(q) => p = q
  /\ \A p \in Procs : Changing(p) => Shape(p)
  /\ pc[s] = "join" => \A p \in Procs : ~Changing(p)
  /\ pc[s] \notin {"out", "leave"} =>
       /\ Growing(s)
       /\ \A p \in Procs : Changing(p) => Awaits(p, s)
       /\ (\A p \in Procs : ~Changing(p)) => Heard(s) = Listing

Synced == \A s \in Informed : InStep(s)

PushIInv == TypeInv /\ HubExact /\ Synced

-----------------------------------------------------------------------------
\* Process q stays where it is, with the same job.
SameJob(q) == pc'[q] = pc[q] /\ plan'[q] = plan[q] /\ gone'[q] = gone[q] /\ todo'[q] = todo[q]

LEMMA SameChanging ==
  ASSUME NEW q, SameJob(q)
  PROVE  Changing(q)' <=> Changing(q)
BY DEF SameJob, Changing, Membership

LEMMA StillHeard ==
  ASSUME NEW s, view'[s] = view[s], queue'[s] = queue[s]
  PROVE  Heard(s)' = Heard(s) /\ (Growing(s)' <=> Growing(s))
BY DEF Heard, Growing

LEMMA SameShape ==
  ASSUME NEW q, SameJob(q), UNCHANGED folder, Shape(q)
  PROVE  Shape(q)'
BY DEF SameJob, Shape, Removing, Number

LEMMA SameAwaits ==
  ASSUME NEW q, SameJob(q), UNCHANGED folder, NEW s, s \in targets'[q] <=> s \in targets[q],
         Heard(s)' = Heard(s), Awaits(q, s)
  PROVE  Awaits(q, s)'
<1>1. Listing' = Listing /\ Exists' = Exists
  BY DEF Listing, Exists
<1>2. \A u : Due(s, u) => Due(s, u)'
  BY <1>1 DEF Due
<1> QED
  BY <1>1, <1>2 DEF SameJob, Awaits

\* A step of a process that does not change the folder, neither before nor after.
LEMMA Aside ==
  ASSUME NEW s \in Sessions, InStep(s), NEW p \in Procs, UNCHANGED folder,
         ~Changing(p), ~Changing(p)', \A q \in Procs \ {p} : SameJob(q),
         pc'[s] = "join" => pc[s] = "join",
         pc'[s] \notin {"out", "leave"} =>
           /\ pc[s] \notin {"out", "leave"}
           /\ Heard(s)' = Heard(s) /\ Growing(s)'
           /\ \A q \in Procs \ {p} : s \in targets'[q] <=> s \in targets[q]
  PROVE  InStep(s)'
<1>1. ASSUME NEW q \in Procs PROVE Changing(q)' <=> Changing(q)
  BY SameChanging
<1>2. \A q, r \in Procs : Changing(q)' /\ Changing(r)' => q = r
  BY <1>1 DEF InStep
<1>3. ASSUME NEW q \in Procs, Changing(q)' PROVE Shape(q)'
  <2>1. Changing(q) /\ q # p
    BY <1>1, <1>3
  <2> QED
    BY <2>1, SameShape DEF InStep
<1>4. pc'[s] = "join" => \A q \in Procs : ~Changing(q)'
  BY <1>1 DEF InStep
<1>5. ASSUME pc'[s] \notin {"out", "leave"}
      PROVE  /\ Growing(s)'
             /\ \A q \in Procs : Changing(q)' => Awaits(q, s)'
             /\ (\A q \in Procs : ~Changing(q)') => Heard(s)' = Listing'
  <2>1. /\ pc[s] \notin {"out", "leave"} /\ Heard(s)' = Heard(s) /\ Growing(s)'
    BY <1>5
  <2>2. ASSUME NEW q \in Procs, Changing(q)' PROVE Awaits(q, s)'
    <3>1. Changing(q) /\ q # p
      BY <1>1, <2>2
    <3>2. Awaits(q, s)
      BY <2>1, <3>1 DEF InStep
    <3>3. SameJob(q) /\ (s \in targets'[q] <=> s \in targets[q])
      BY <1>5, <3>1
    <3> QED
      BY <2>1, <3>2, <3>3, SameAwaits
  <2>3. ASSUME \A q \in Procs : ~Changing(q)' PROVE Heard(s)' = Listing'
    <3>1. \A q \in Procs : ~Changing(q)
      BY <1>1, <2>3
    <3>2. Heard(s) = Listing
      BY <2>1, <3>1 DEF InStep
    <3> QED
      BY <2>1, <3>2 DEF Listing
  <2> QED
    BY <2>1, <2>2, <2>3
<1> QED
  BY <1>2, <1>3, <1>4, <1>5 DEF InStep

\* A step after which no process but p changes the folder.
LEMMA OnlyOne ==
  ASSUME NEW s \in Sessions, NEW p \in Procs, \A q \in Procs \ {p} : ~Changing(q)',
         Changing(p)' => Shape(p)', pc'[s] # "join",
         pc'[s] \notin {"out", "leave"} =>
           /\ Growing(s)'
           /\ IF Changing(p)' THEN Awaits(p, s)' ELSE Heard(s)' = Listing'
  PROVE  InStep(s)'
<1>1. \A q \in Procs : Changing(q)' => q = p
  OBVIOUS
<1>2. \A q, r \in Procs : Changing(q)' /\ Changing(r)' => q = r
  BY <1>1
<1>3. \A q \in Procs : Changing(q)' => Shape(q)'
  BY <1>1
<1>4. ASSUME pc'[s] \notin {"out", "leave"}
      PROVE  /\ Growing(s)'
             /\ \A q \in Procs : Changing(q)' => Awaits(q, s)'
             /\ (\A q \in Procs : ~Changing(q)') => Heard(s)' = Listing'
  BY <1>1, <1>4
<1> QED
  BY <1>2, <1>3, <1>4 DEF InStep

\* Before it, if p changes the folder.
LEMMA OnlyBefore ==
  ASSUME NEW s \in Sessions, InStep(s), NEW p \in Procs, Changing(p),
         \A q \in Procs \ {p} : SameJob(q)
  PROVE  /\ \A q \in Procs \ {p} : ~Changing(q)'
         /\ Shape(p) /\ pc[s] # "join"
         /\ pc[s] \notin {"out", "leave"} => Growing(s) /\ Awaits(p, s)
<1>1. \A q \in Procs \ {p} : ~Changing(q)
  BY DEF InStep
<1>2. \A q \in Procs \ {p} : ~Changing(q)'
  BY <1>1, SameChanging
<1> QED
  BY <1>2 DEF InStep

\* Whom a change of the folder leaves informed.
LEMMA StillInformed ==
  ASSUME doubt \subseteq doubt', NEW s, s \in Informed'
  PROVE  s \in Informed
BY DEF Informed

LEMMA DoubtedInformed ==
  ASSUME NEW p, NEW why \in SUBSET Causes, Doubted(p, why), NEW s, s \in Informed'
  PROVE  /\ s \in Informed /\ why = {} /\ \A q \in Procs \ {p} : ~Changing(q)
         /\ pc[s] \notin {"join", "leave"}
<1>1. s \in Sessions /\ \A c \in Causes : <<s, c>> \notin doubt'
  BY DEF Informed
<1>2. s \in Informed
  BY StillInformed DEF Doubted
<1>3. \A c \in why : FALSE
  BY <1>1 DEF Doubted
<1>4. ASSUME NEW q \in Procs \ {p}, Changing(q) PROVE FALSE
  <2>1. <<s, "overlap">> \in doubt'
    BY <1>1, <1>4 DEF Doubted
  <2> QED
    BY <1>1, <2>1 DEF Causes
<1>5. ASSUME pc[s] \in {"join", "leave"} PROVE FALSE
  <2>1. <<s, "select">> \in doubt'
    BY <1>1, <1>5 DEF Doubted
  <2> QED
    BY <1>1, <2>1 DEF Causes
<1> QED
  BY <1>2, <1>3, <1>4, <1>5

-----------------------------------------------------------------------------
(* The steps that do not change the folder.                                *)
Busy == {"delete", "move", "count", "purge", "push", "send"}

LEMMA Resting ==
  ASSUME PcTyped, NEW p \in Procs, pc[p] \notin Busy
  PROVE  ~Changing(p)
<1>1. todo[p] = <<>>
  BY DEF PcTyped, Busy
<1> QED
  BY <1>1 DEF Changing, Membership, Busy

LEMMA RestingNext ==
  ASSUME PcTyped', NEW p \in Procs, pc'[p] \notin Busy
  PROVE  ~Changing(p)'
<1>1. todo'[p] = <<>>
  BY DEF PcTyped, Busy
<1> QED
  BY <1>1 DEF Changing, Membership, Busy

LEMMA Goes ==
  ASSUME PcTyped, NEW p \in Procs, NEW l, Goto(p, l)
  PROVE  \A q \in Procs : pc'[q] = IF q = p THEN l ELSE pc[q]
BY DEF PcTyped, Goto

LEMMA RestingAside ==
  ASSUME PcTyped, PcTyped', NEW p \in Procs, NEW l, Goto(p, l),
         pc[p] \notin Busy, l \notin Busy, UNCHANGED folder,
         \A q \in Procs \ {p} : plan'[q] = plan[q] /\ gone'[q] = gone[q] /\ todo'[q] = todo[q],
         NEW s \in Sessions, InStep(s),
         s = p => l # "join" /\ (l \in {"out", "leave"} \/ pc[s] \notin {"out", "leave"}),
         s # p \/ l \notin {"out", "leave"} =>
           /\ Heard(s)' = Heard(s) /\ (Growing(s) => Growing(s)')
           /\ \A q \in Procs \ {p} : s \in targets'[q] <=> s \in targets[q]
  PROVE  InStep(s)'
<1>1. ~Changing(p)
  BY Resting
<1>2. \A q \in Procs : pc'[q] = IF q = p THEN l ELSE pc[q]
  BY Goes
<1>3. ~Changing(p)'
  BY <1>2, RestingNext
<1>4. \A q \in Procs \ {p} : SameJob(q)
  BY <1>2 DEF SameJob
<1>5. pc'[s] = IF s = p THEN l ELSE pc[s]
  BY <1>2 DEF Procs
<1>6. pc'[s] = "join" => pc[s] = "join"
  BY <1>5
<1>7. ASSUME pc'[s] \notin {"out", "leave"}
      PROVE  /\ pc[s] \notin {"out", "leave"}
             /\ Heard(s)' = Heard(s) /\ Growing(s)'
             /\ \A q \in Procs \ {p} : s \in targets'[q] <=> s \in targets[q]
  <2>1. s # p \/ l \notin {"out", "leave"}
    BY <1>5, <1>7
  <2>2. pc[s] \notin {"out", "leave"}
    BY <1>5, <1>7
  <2>3. Growing(s)
    BY <2>2 DEF InStep
  <2> QED
    BY <2>1, <2>2, <2>3
<1> QED
  BY <1>1, <1>3, <1>4, <1>6, <1>7, Aside

\* The data of SELECT are read: the session starts afresh.
LEMMA SelectReadInStep ==
  ASSUME TypeInv, TypeInv', Synced, NEW t \in Sessions, SelectRead(t), NEW s \in Informed'
  PROVE  InStep(s)'
<1> USE DEF TypeInv
<1>1. /\ pc[t] = "out" /\ Goto(t, "join") /\ t \in Procs /\ s \in Sessions
      /\ view' = [view EXCEPT ![t] = Listing]
      /\ UNCHANGED <<dbVars, hub, queue, token, jobVars>>
  BY DEF SelectRead, Procs, Informed
<1>2. UNCHANGED <<folder, plan, gone, todo, targets>>
  BY <1>1 DEF dbVars, jobVars
<1>3. CASE s # t
  <2>1. \A c \in Causes : <<s, c>> \in doubt => <<s, c>> \in doubt'
    BY <1>3 DEF SelectRead
  <2>2. InStep(s)
    BY <2>1 DEF Synced, Informed
  <2>3. Heard(s)' = Heard(s) /\ (Growing(s)' <=> Growing(s))
    BY <1>1, <1>3, StillHeard DEF SessTyped
  <2>4. pc[t] \notin Busy /\ "join" \notin Busy
    BY <1>1 DEF Busy
  <2> QED
    BY <1>1, <1>2, <1>3, <2>2, <2>3, <2>4, RestingAside
<1>4. CASE s = t
  <2>1. <<t, "select">> \notin doubt'
    BY <1>4 DEF Informed, Causes
  <2>2. ~Membership(queue[t]) /\ \A q \in Procs \ {t} : ~Changing(q)
    BY <2>1 DEF SelectRead
  <2>3. \A q \in Procs : pc'[q] = IF q = t THEN "join" ELSE pc[q]
    BY <1>1, Goes
  <2>4. \A q \in Procs \ {t} : ~Changing(q)'
    <3>1. \A q \in Procs \ {t} : SameJob(q)
      BY <1>2, <2>3 DEF SameJob
    <3> QED
      BY <2>2, <3>1, SameChanging
  <2>5. ~Changing(t)'
    BY <1>1, <2>3, RestingNext DEF Busy
  <2>6. view'[t] = Listing /\ queue'[t] = queue[t] /\ Listing' = Listing
    BY <1>1, <1>2 DEF SessTyped, Listing
  <2>7. Heard(s)' = Listing'
    <3>1. Hears(Listing, queue[t]) = Listing
      BY <2>2, HearsFlags DEF SessTyped
    <3> QED
      BY <1>4, <2>6, <3>1 DEF Heard
  <2>8. Growing(s)'
    <3>1. \A k \in 1..Len(queue[t]) : queue[t][k].kind = "fetch"
      BY <2>2, LenProperties DEF Membership, SessTyped
    <3> QED
      BY <1>4, <2>6, <3>1 DEF Growing, Grows
  <2> QED
    BY <1>1, <2>4, <2>5, <2>7, <2>8 DEF InStep
<1> QED
  BY <1>3, <1>4

\* The other steps of a session that is selecting, idling or leaving.
LEMMA SessionInStep ==
  ASSUME TypeInv, TypeInv', NEW t \in Sessions, NEW s \in Sessions, InStep(s),
         \/ SelectJoin(t) \/ UnselectClear(t) \/ UnselectLeave(t) \/ Close(t)
         \/ Noop(t) \/ Fetch(t) \/ Idle(t) \/ IdleWait(t) \/ IdleWake(t) \/ IdleDone(t)
  PROVE  InStep(s)'
<1> USE DEF TypeInv
<1>1. t \in Procs
  BY DEF Procs
<1>2. CASE SelectJoin(t) \/ UnselectClear(t) \/ UnselectLeave(t) \/ Close(t)
  <2>1. PICK l \in {"poll", "leave", "out"} :
          /\ Goto(t, l) /\ pc[t] \in {"join", "ready", "leave", "idle", "wait", "broken"}
          /\ (l = "poll" => pc[t] = "join")
          /\ UNCHANGED <<folder, plan, gone, todo>>
          /\ \A q \in Procs : s # t => (s \in targets'[q] <=> s \in targets[q])
          /\ (l = "poll" => UNCHANGED targets)
          /\ (s # t \/ l = "poll" => view'[s] = view[s] /\ queue'[s] = queue[s])
    BY <1>2 DEF SelectJoin, UnselectClear, UnselectLeave, Close, dbVars, jobVars, SessTyped
  <2>2. pc[t] \notin Busy /\ l \notin Busy
    BY <2>1 DEF Busy
  <2>3. s # t \/ l = "poll" => Heard(s)' = Heard(s) /\ (Growing(s)' <=> Growing(s))
    BY <2>1, StillHeard
  <2>4. CASE l = "leave"
    BY <1>1, <2>1, <2>2, <2>3, <2>4, RestingAside
  <2>5. CASE l # "leave"
    BY <1>1, <2>1, <2>2, <2>3, <2>5, RestingAside
  <2> QED
    BY <2>4, <2>5
<1>3. CASE \/ Noop(t) \/ Fetch(t) \/ Idle(t) \/ IdleWait(t) \/ IdleWake(t) \/ IdleDone(t)
  <2>1. PICK l \in Selected :
          /\ Goto(t, l) /\ pc[t] \in {"ready", "wrote", "wait"}
          /\ UNCHANGED <<folder, plan, gone, todo, targets, view, queue>>
    BY <1>3 DEF Noop, Fetch, Idle, IdleWait, IdleWake, IdleDone, Starts, Selected,
                dbVars, jobVars, sessVars
  <2>2. pc[t] \notin Busy /\ l \notin Busy /\ l \notin {"out", "leave", "join"}
    BY <2>1 DEF Busy, Selected
  <2>3. Heard(s)' = Heard(s) /\ (Growing(s)' <=> Growing(s))
    BY <2>1, StillHeard
  <2> QED
    BY <1>1, <2>1, <2>2, <2>3, RestingAside
<1> QED
  BY <1>2, <1>3

\* A part of a queue is written.
LEMMA WritesHeard ==
  ASSUME SessTyped, NEW t \in Sessions, NEW n \in 0..Len(queue[t]), Writes(t, n),
         NEW s \in Sessions
  PROVE  Heard(s)' = Heard(s) /\ (Growing(s) => Growing(s)')
<1>1. CASE s # t
  <2>1. view'[s] = view[s] /\ queue'[s] = queue[s]
    BY <1>1 DEF Writes, SessTyped
  <2> QED
    BY <2>1, StillHeard
<1>2. CASE s = t
  <2>1. PICK q \in Seq(Sound) : q = queue[s]
    BY DEF SessTyped
  <2>2. PICK v : v = view[s]
    OBVIOUS
  <2>3. view'[s] = Hears(v, SubSeq(q, 1, n)) /\ queue'[s] = SubSeq(q, n + 1, Len(q))
    BY <1>2, <2>1, <2>2 DEF Writes, SessTyped
  <2>4. n \in 0..Len(q) /\ n \in Nat /\ Len(q) \in Nat
    BY <1>2, <2>1, LenProperties
  <2>5. Heard(s)' = Heard(s)
    BY <2>1, <2>2, <2>3, <2>4, HearsRest DEF Heard
  <2>6. ASSUME Growing(s) PROVE Growing(s)'
    <3>1. PICK z \in Seq(Sound) : z = SubSeq(q, n + 1, Len(q)) /\ Part(z, q, n, Len(q))
      BY <2>4, PartRest
    <3>2. Len(z) = Len(q) - n
      BY <2>4, <3>1 DEF Part
    <3>3. ASSUME NEW k \in 1..Len(z)
          PROVE  Grows(Hears(Hears(v, SubSeq(q, 1, n)), SubSeq(z, 1, k - 1)), z[k])
      <4>1. PICK l \in 0..(Len(q) - n), m \in Nat : l = k - 1 /\ m = n + l /\ n + k \in 1..Len(q)
        BY <2>4, <3>2
      <4>2. z[k] = q[n + k]
        BY <3>1 DEF Part
      <4>3. Hears(Hears(v, SubSeq(q, 1, n)), SubSeq(z, 1, l)) = Hears(v, SubSeq(q, 1, m))
        <5>1. m \in 0..Len(q) /\ l \in 0..Len(z)
          BY <2>4, <3>2, <4>1
        <5>2. Part(SubSeq(q, 1, n), q, 0, n) /\ Part(SubSeq(q, 1, m), q, 0, m)
          BY <2>4, <5>1, PartFirst
        <5>3. Part(SubSeq(z, 1, l), z, 0, l)
          BY <5>1, PartFirst
        <5>4. Part(SubSeq(z, 1, l), q, n, m)
          BY <2>4, <3>1, <4>1, <5>3, PartOfRest
        <5> QED
          BY <2>4, <5>2, <5>4, HearsParts
      <4>4. m = (n + k) - 1
        BY <2>4, <4>1
      <4>5. Grows(Hears(v, SubSeq(q, 1, (n + k) - 1)), q[n + k])
        BY <2>1, <2>2, <2>6, <4>1 DEF Growing
      <4> QED
        BY <4>1, <4>2, <4>3, <4>4, <4>5
    <3> QED
      BY <2>3, <3>1, <3>3 DEF Growing
  <2> QED
    BY <2>5, <2>6
<1> QED
  BY <1>1, <1>2

LEMMA WritesInStep ==
  ASSUME TypeInv, TypeInv', NEW t \in Sessions, NEW s \in Sessions, InStep(s),
         PollNoExpunge(t) \/ Poll(t) \/ IdleWrite(t)
  PROVE  InStep(s)'
<1> USE DEF TypeInv
<1>1. t \in Procs /\ queue[t] \in Seq(Sound)
  BY DEF Procs, SessTyped
<1>2. Unnumbered(queue[t]) \in 0..Len(queue[t]) /\ Len(queue[t]) \in 0..Len(queue[t])
  BY <1>1, UnnumberedFirst, LenProperties
<1>3. PICK l \in {"ready", "wrote"}, n \in 0..Len(queue[t]) :
        Goto(t, l) /\ pc[t] \in {"answer", "poll", "idle"} /\ Writes(t, n)
  BY <1>2 DEF PollNoExpunge, Poll, IdleWrite
<1>4. UNCHANGED <<folder, plan, gone, todo, targets>>
  BY <1>3 DEF Writes, dbVars, jobVars
<1>5. Heard(s)' = Heard(s) /\ (Growing(s) => Growing(s)')
  BY <1>3, WritesHeard
<1>6. pc[t] \notin Busy /\ l \notin Busy /\ l \notin {"join", "out", "leave"}
      /\ pc[t] \notin {"out", "leave"}
  BY <1>3 DEF Busy
<1> QED
  BY <1>1, <1>3, <1>4, <1>5, <1>6, RestingAside

\* POP3 until QUIT.
LEMMA Pop3InStep ==
  ASSUME TypeInv, TypeInv', NEW p \in Requests, NEW s \in Sessions, InStep(s),
         Pop3Mark(p) \/ Pop3Drop(p)
  PROVE  InStep(s)'
<1> USE DEF TypeInv
<1>1. p \in Procs /\ p # s /\ p \notin Sessions
  BY PushAssumption DEF Procs
<1>2. PICK l \in {"mark", "out"} : Goto(p, l) /\ pc[p] \in {"mark", "out"}
  BY <1>1 DEF Pop3Mark, Pop3Drop, Starts
<1>3. UNCHANGED <<folder, gone, todo, targets, view, queue>>
  BY DEF Pop3Mark, Pop3Drop, dbVars, sessVars
<1>4. \A q \in Procs \ {p} : plan'[q] = plan[q]
  BY DEF Pop3Mark, Pop3Drop, JobTyped
<1>5. Heard(s)' = Heard(s) /\ (Growing(s)' <=> Growing(s))
  BY <1>3, StillHeard
<1>6. pc[p] \notin Busy /\ l \notin Busy
  BY <1>2 DEF Busy
<1> QED
  BY <1>1, <1>2, <1>3, <1>4, <1>5, <1>6, RestingAside

\* Flags are changed: the handler is going to push, but no change of the folder.
LEMMA FlagsInStep ==
  ASSUME TypeInv, TypeInv', NEW p \in Procs, NEW s \in Sessions, InStep(s),
         Store(p) \/ MarkRead(p)
  PROVE  InStep(s)'
<1> USE DEF TypeInv
<1>1. PICK l \in {"push", "answer"} :
        /\ Goto(p, l) /\ pc[p] = (IF p \in Sessions THEN "ready" ELSE "out")
        /\ todo' \in {todo, [todo EXCEPT ![p] = <<Flags>>]}
        /\ UNCHANGED <<dbVars, sessVars, plan, gone, targets>>
  BY DEF Store, MarkRead, Starts
<1>2. UNCHANGED <<folder, view, queue>>
  BY <1>1 DEF dbVars, sessVars
<1>3. ~Changing(p) /\ todo[p] = <<>>
  BY <1>1, Resting DEF Busy, PcTyped
<1>4. \A q \in Procs : pc'[q] = IF q = p THEN l ELSE pc[q]
  BY <1>1, Goes
<1>5. \A q \in Procs \ {p} : SameJob(q)
  BY <1>1, <1>4 DEF SameJob, JobTyped
<1>6. ~Changing(p)'
  <2>1. pc'[p] \notin {"delete", "move", "count", "purge"}
    BY <1>4
  <2>2. todo'[p] \in {<<>>, <<Flags>>}
    BY <1>1, <1>3 DEF JobTyped
  <2>3. ~Membership(todo'[p])
    BY <2>2 DEF Membership, Flags
  <2> QED
    BY <2>1, <2>3 DEF Changing
<1>7. Heard(s)' = Heard(s) /\ (Growing(s)' <=> Growing(s))
  BY <1>2, StillHeard
<1>8. pc'[s] = (IF s = p THEN l ELSE pc[s]) /\ (s = p => pc[s] = "ready")
  BY <1>1, <1>4 DEF Procs
<1>9. pc'[s] # "join" \/ pc[s] = "join"
  BY <1>8
<1>10. pc'[s] \notin {"out", "leave"} => pc[s] \notin {"out", "leave"} /\ Growing(s)
  BY <1>8 DEF InStep
<1> QED
  BY <1>1, <1>2, <1>3, <1>5, <1>6, <1>7, <1>9, <1>10, Aside

-----------------------------------------------------------------------------
(* The steps of a handler that changes the folder.                         *)

\* A client that knows the first messages of the folder learns the rest from an EXISTS.
LEMMA ToldMore ==
  ASSUME NEW G \in SUBSET Nat, IsFiniteSet(G), NEW v \in Seq(Messages), Prefix(v, Ordered(G)),
         NEW u, u.kind = "exists", u.num = Cardinality(G), u.ids = Ordered(G)
  PROVE  Told(v, u) = Ordered(G) /\ Grows(v, u)
<1>1. PICK c \in Nat : c = Cardinality(G)
  BY FS_CardinalityType
<1>2. PICK n \in Nat : n = Len(v) /\ DOMAIN v = 1..n
  BY LenProperties
<1>3. Len(Ordered(G)) = c
  BY <1>1, OrderedTyped
<1>4. n <= c /\ \A k \in 1..n : Ordered(G)[k] = v[k]
  BY <1>2, <1>3 DEF Prefix
<1>5. Ordered(G) = [k \in 1..c |-> Ordered(G)[k]]
  BY <1>1 DEF Ordered
<1>6. Told(v, u) = [k \in 1..c |-> IF k <= n THEN v[k] ELSE Ordered(G)[k]]
  BY <1>1, <1>2 DEF Told
<1>7. \A k \in 1..c : (IF k <= n THEN v[k] ELSE Ordered(G)[k]) = Ordered(G)[k]
  BY <1>4
<1>8. Told(v, u) = [k \in 1..c |-> Ordered(G)[k]]
  BY <1>6, <1>7
<1> QED
  BY <1>1, <1>2, <1>4, <1>5, <1>8 DEF Grows

\* To whom an EXISTS is due knows the first messages.
LEMMA ToldFirst ==
  ASSUME NEW F \in SUBSET Nat, IsFiniteSet(F), NEW v \in Seq(Messages),
         NEW u, u.kind = "exists", u.num = Cardinality(F), u.ids = Ordered(F),
         Told(v, u) = Ordered(F), Grows(v, u)
  PROVE  Prefix(v, Ordered(F))
<1>1. PICK c \in Nat : c = Cardinality(F)
  BY FS_CardinalityType
<1>2. PICK n \in Nat : n = Len(v) /\ DOMAIN v = 1..n
  BY LenProperties
<1>3. Len(Ordered(F)) = c
  BY <1>1, OrderedTyped
<1>4. n <= c
  BY <1>1, <1>2 DEF Grows
<1>5. Told(v, u) = [k \in 1..c |-> IF k <= n THEN v[k] ELSE Ordered(F)[k]]
  BY <1>1, <1>2 DEF Told
<1>6. ASSUME NEW k \in 1..n PROVE Ordered(F)[k] = v[k]
  <2>1. k \in 1..c /\ k <= n
    BY <1>4
  <2> QED
    BY <1>5, <2>1
<1> QED
  BY <1>2, <1>3, <1>4, <1>6 DEF Prefix

\* A message above all others is added behind the first messages.
LEMMA PrefixMore ==
  ASSUME NEW F \in SUBSET Nat, IsFiniteSet(F), NEW m \in Nat, \A k \in F : k < m,
         NEW v \in Seq(Messages), Prefix(v, Ordered(F))
  PROVE  Prefix(v, Ordered(F \union {m}))
<1>1. PICK c \in Nat : c = Cardinality(F)
  BY FS_CardinalityType
<1>2. PICK n \in Nat : n = Len(v) /\ DOMAIN v = 1..n
  BY LenProperties
<1>3. Len(Ordered(F)) = c
  BY <1>1, OrderedTyped
<1>4. n <= c /\ \A k \in 1..n : Ordered(F)[k] = v[k]
  BY <1>2, <1>3 DEF Prefix
<1>5. PICK G \in SUBSET Nat : G = F \union {m} /\ IsFiniteSet(G)
  <2>1. IsFiniteSet(F \union {m}) /\ F \union {m} \in SUBSET Nat
    BY FS_AddElement
  <2> QED
    BY <2>1
<1>6. Cardinality(G) = c + 1 /\ \A k \in 1..c : Ordered(G)[k] = Ordered(F)[k]
  BY <1>1, <1>5, OrderedMore
<1>7. Len(Ordered(G)) = c + 1
  BY <1>5, <1>6, OrderedTyped
<1>8. \A k \in 1..n : Ordered(G)[k] = v[k]
  BY <1>4, <1>6
<1>9. n <= c + 1
  BY <1>4
<1> QED
  BY <1>2, <1>5, <1>7, <1>8, <1>9 DEF Prefix

LEMMA ToldLess ==
  ASSUME NEW F \in SUBSET Nat, IsFiniteSet(F), NEW m \in F, NEW n, n = Place(m, F)
  PROVE  Told(Ordered(F), Expunge(n)) = Ordered(F \ {m})
<1>1. n \in 1..Len(Ordered(F))
  BY PlaceIn, OrderedTyped
<1>2. Told(Ordered(F), Expunge(n)) = Without(Ordered(F), n)
  BY <1>1 DEF Told, Expunge
<1> QED
  BY <1>2, OrderedLess

LEMMA DueKept ==
  ASSUME UNCHANGED folder, NEW s, Heard(s)' = Heard(s), NEW u, Due(s, u)
  PROVE  Due(s, u)'
<1>1. Listing' = Listing
  BY DEF Listing
<1> QED
  BY <1>1 DEF Due

LEMMA ListingPrefix ==
  ASSUME FolderTyped
  PROVE  Prefix(Listing, Ordered(folder))
<1>1. Listing = Ordered(folder) /\ Len(Listing) \in Nat
  BY ListingTyped, LenProperties DEF Listing
<1> QED
  BY <1>1 DEF Prefix

\* What a message that is added, or none, is to a client in step.
LEMMA AddedLast ==
  ASSUME FolderTyped, NEW p \in Procs, Add(p) \/ Restore(p) \/ CopyNone(p), NEW s \in Informed'
  PROVE  /\ pc[s] \notin {"join", "leave"} /\ \A q \in Procs \ {p} : ~Changing(q)
         /\ \/ UNCHANGED folder
            \/ \E m \in Nat : folder' = folder \union {m} /\ \A k \in folder : k < m
<1>1. CASE Add(p)
  <2>1. Doubted(p, {}) /\ {} \in SUBSET Causes
    BY <1>1 DEF Add
  <2>2. last' = last + 1 /\ folder' = folder \union {last'}
    BY <1>1 DEF Add
  <2>3. last' \in Nat /\ \A k \in folder : k < last'
    BY <2>2 DEF FolderTyped
  <2>4. pc[s] \notin {"join", "leave"} /\ \A q \in Procs \ {p} : ~Changing(q)
    BY <2>1, DoubtedInformed
  <2> QED
    BY <2>2, <2>3, <2>4
<1>2. CASE Restore(p)
  <2>1. PICK m \in trash : /\ folder' = folder \union {m}
                           /\ Doubted(p, {c \in {"middle"} : \E k \in folder : k > m})
    BY <1>2 DEF Restore
  <2>2. {c \in {"middle"} : \E k \in folder : k > m} \in SUBSET Causes
    BY DEF Causes
  <2>3. {c \in {"middle"} : \E k \in folder : k > m} = {} /\ pc[s] \notin {"join", "leave"}
        /\ \A q \in Procs \ {p} : ~Changing(q)
    BY <2>1, <2>2, DoubtedInformed
  <2>4. m \in Nat /\ m \notin folder /\ \A k \in folder : k \in Nat
    BY <2>1 DEF FolderTyped
  <2>5. \A k \in folder : k < m
    BY <2>3, <2>4
  <2> QED
    BY <2>1, <2>3, <2>4, <2>5
<1>3. CASE CopyNone(p)
  <2>1. Doubted(p, {}) /\ {} \in SUBSET Causes /\ UNCHANGED folder
    BY <1>3 DEF CopyNone, dbVars
  <2> QED
    BY <2>1, DoubtedInformed
<1> QED
  BY <1>1, <1>2, <1>3

\* A message is added, or none: the first one of a command, or one more.
LEMMA AddedInStep ==
  ASSUME TypeInv, NEW p \in Procs, Add(p) \/ Restore(p) \/ CopyNone(p),
         NEW s \in Informed', InStep(s)
  PROVE  InStep(s)'
<1> USE DEF TypeInv
<1>1. /\ pc[p] = (IF p \in Sessions THEN "ready" ELSE "out") \/ pc[p] = "count"
      /\ Goto(p, "count") /\ UNCHANGED <<sessVars, jobVars>>
      /\ s \in Sessions /\ s \in Procs
  BY DEF Add, Restore, CopyNone, Starts, Informed, Procs
<1>2. /\ pc[s] \notin {"join", "leave"} /\ \A q \in Procs \ {p} : ~Changing(q)
      /\ \/ UNCHANGED folder
         \/ \E m \in Nat : folder' = folder \union {m} /\ \A k \in folder : k < m
  BY AddedLast
<1>3. s = p => pc[s] \in {"ready", "count"}
  BY <1>1
<1>4. \A q \in Procs : pc'[q] = IF q = p THEN "count" ELSE pc[q]
  BY <1>1, Goes
<1>5. \A q \in Procs \ {p} : ~Changing(q)'
  <2>1. \A q \in Procs \ {p} : SameJob(q)
    BY <1>1, <1>4 DEF SameJob, jobVars
  <2> QED
    BY <1>2, <2>1, SameChanging
<1>6. pc'[p] = "count" /\ Changing(p)' /\ Shape(p)'
  BY <1>4 DEF Changing, Shape
<1>7. pc'[s] # "join" /\ (pc'[s] \notin {"out", "leave"} => pc[s] \notin {"out", "leave"})
  BY <1>1, <1>2, <1>3, <1>4
<1>8. folder \in SUBSET Nat /\ IsFiniteSet(folder)
  BY FolderFinite
<1>9. ASSUME pc[s] \notin {"out", "leave"} PROVE Growing(s)' /\ Awaits(p, s)'
  <2>1. Heard(s)' = Heard(s) /\ (Growing(s)' <=> Growing(s))
    BY <1>1, StillHeard DEF sessVars
  <2>2. Growing(s)
    BY <1>9 DEF InStep
  <2>3. PICK v \in Seq(Messages) : v = Heard(s)
    BY <1>1, HearsTyped DEF Heard, SessTyped
  <2>4. Prefix(v, Ordered(folder))
    <3>1. CASE pc[p] = "count"
      <4>1. Changing(p)
        BY <3>1 DEF Changing
      <4>2. Due(s, Exists)
        BY <1>9, <3>1, <4>1 DEF InStep, Awaits
      <4>3. PICK u : u = Exists
        OBVIOUS
      <4>4. u.kind = "exists" /\ u.num = Cardinality(folder) /\ u.ids = Ordered(folder)
        BY <4>3 DEF Exists, Listing
      <4>5. Told(v, u) = Ordered(folder) /\ Grows(v, u)
        BY <2>3, <4>2, <4>3 DEF Due, Listing
      <4> QED
        BY <1>8, <4>4, <4>5, ToldFirst
    <3>2. CASE pc[p] # "count"
      <4>1. ~Changing(p)
        BY <1>1, <3>2, Resting DEF Busy
      <4>2. Heard(s) = Listing
        BY <1>2, <1>9, <4>1 DEF InStep
      <4> QED
        BY <2>3, <4>2, ListingPrefix
    <3> QED
      BY <3>1, <3>2
  <2>5. PICK G \in SUBSET Nat : G = folder' /\ IsFiniteSet(G)
    BY <1>2, <1>8, FS_AddElement
  <2>6. Prefix(v, Ordered(G))
    BY <1>2, <1>8, <2>4, <2>5, PrefixMore
  <2>7. PICK u : u = Exists'
    OBVIOUS
  <2>8. u.kind = "exists" /\ u.num = Cardinality(G) /\ u.ids = Ordered(G)
    BY <2>5, <2>7 DEF Exists, Listing
  <2>9. Told(v, u) = Ordered(G) /\ Grows(v, u)
    BY <2>5, <2>6, <2>8, ToldMore
  <2>10. Due(s, Exists)'
    BY <2>1, <2>3, <2>5, <2>7, <2>9 DEF Due, Listing
  <2> QED
    BY <1>6, <2>1, <2>2, <2>10 DEF Awaits
<1> QED
  BY <1>1, <1>5, <1>6, <1>7, <1>9, OnlyOne

\* The messages are counted.
LEMMA CountInStep ==
  ASSUME TypeInv, NEW p \in Procs, Count(p), NEW s \in Informed', InStep(s)
  PROVE  InStep(s)'
<1> USE DEF TypeInv
<1>1. pc[p] = "count" /\ UNCHANGED <<dbVars, sessVars, plan, gone, targets>> /\ s \in Sessions
      /\ s \in Procs
  BY DEF Count, Informed, Procs
<1>2. todo' = [todo EXCEPT ![p] = <<Exists>>] /\ Goto(p, "push")
  <2>1. ~ Doubted(p, {"failure"})
    <3>1. {"failure"} \in SUBSET Causes /\ {"failure"} # {}
      BY DEF Causes
    <3> QED
      BY <3>1, DoubtedInformed
  <2> QED
    BY <2>1 DEF Count
<1>3. \A q \in Procs : pc'[q] = IF q = p THEN "push" ELSE pc[q]
  BY <1>2, Goes
<1>4. todo'[p] = <<Exists>> /\ \A q \in Procs \ {p} : SameJob(q)
  BY <1>1, <1>2, <1>3 DEF SameJob, JobTyped
<1>5. Changing(p)
  BY <1>1 DEF Changing
<1>6. /\ \A q \in Procs \ {p} : ~Changing(q)'
      /\ pc[s] # "join"
      /\ pc[s] \notin {"out", "leave"} => Growing(s) /\ Awaits(p, s)
  BY <1>1, <1>4, <1>5, OnlyBefore
<1>7. todo'[p][1] = Exists /\ Exists.kind = "exists" /\ Len(todo'[p]) = 1
  BY <1>4 DEF Exists
<1>8. Shape(p)' /\ Changing(p)'
  <2>1. Membership(todo'[p])
    BY <1>4, <1>7 DEF Membership
  <2> QED
    BY <1>3, <1>7, <2>1 DEF Shape, Changing
<1>9. pc'[s] # "join" /\ (pc'[s] \notin {"out", "leave"} => pc[s] \notin {"out", "leave"})
  BY <1>1, <1>3, <1>6
<1>10. ASSUME pc[s] \notin {"out", "leave"} PROVE Growing(s)' /\ Awaits(p, s)'
  <2>1. Heard(s)' = Heard(s) /\ (Growing(s)' <=> Growing(s))
    BY <1>1, StillHeard DEF sessVars
  <2>2. Due(s, Exists)
    BY <1>1, <1>6, <1>10 DEF Awaits
  <2>3. UNCHANGED folder
    BY <1>1 DEF dbVars
  <2>4. PICK u : u = Exists
    OBVIOUS
  <2>5. Due(s, u)'
    BY <2>1, <2>2, <2>3, <2>4, DueKept
  <2>6. pc'[p] = "push" /\ todo'[p][1] = u /\ u.kind = "exists"
    BY <1>3, <1>7, <2>4
  <2> QED
    BY <1>6, <1>10, <2>1, <2>5, <2>6 DEF Awaits
<1> QED
  BY <1>1, <1>6, <1>8, <1>9, <1>10, OnlyOne

\* A removal begins: nothing is due, nothing else is going on.
LEMMA BeginsInStep ==
  ASSUME TypeInv, NEW p \in Procs, pc[p] \notin Busy, NEW l \in {"delete", "move", "purge"},
         Goto(p, l), UNCHANGED <<dbVars, sessVars, gone, todo, targets>>,
         \A q \in Procs \ {p} : plan'[q] = plan[q] /\ ~Changing(q),
         \/ \E m \in folder : plan'[p] = <<[id |-> m, num |-> Number(m)]>>
         \/ plan'[p] = <<>> /\ l # "delete",
         NEW s \in Sessions, InStep(s), pc[s] \notin {"join", "leave"}, s = p => pc[s] # "out"
  PROVE  InStep(s)'
<1> USE DEF TypeInv
<1>1. \A q \in Procs : pc'[q] = IF q = p THEN l ELSE pc[q]
  BY Goes
<1>2. ~Changing(p) /\ gone[p] = <<>> /\ gone'[p] = <<>>
  BY Resting DEF PcTyped, Busy
<1>3. UNCHANGED folder /\ UNCHANGED <<view, queue>>
  BY DEF dbVars, sessVars
<1>4. \A q \in Procs \ {p} : ~Changing(q)'
  <2>1. \A q \in Procs \ {p} : SameJob(q)
    BY <1>1 DEF SameJob
  <2> QED
    BY <2>1, SameChanging
<1>5. pc'[p] = l
  BY <1>1
<1>6. Changing(p)' <=> l \in {"delete", "move", "purge"}
  BY <1>5 DEF Changing
<1>7. Shape(p)'
  <2>1. Len(gone'[p]) <= 1
    BY <1>2
  <2>2. Removing(p)' \/ (plan'[p] = <<>> /\ l # "delete")
    BY <1>3 DEF Removing, Number
  <2> QED
    BY <1>2, <1>5, <2>1, <2>2 DEF Shape
<1>8. pc'[s] # "join" /\ (pc'[s] \notin {"out", "leave"} => pc[s] \notin {"out", "leave"})
  BY <1>1 DEF Procs
<1>9. ASSUME pc[s] \notin {"out", "leave"} PROVE Growing(s)' /\ Awaits(p, s)'
  <2>1. Heard(s)' = Heard(s) /\ (Growing(s)' <=> Growing(s))
    BY <1>3, StillHeard
  <2>2. Growing(s) /\ Heard(s) = Listing
    BY <1>2, <1>9 DEF InStep
  <2>3. Heard(s)' = Listing'
    BY <1>3, <2>1, <2>2 DEF Listing
  <2> QED
    BY <1>2, <1>5, <2>1, <2>2, <2>3 DEF Awaits
<1> QED
  BY <1>4, <1>6, <1>7, <1>8, <1>9, OnlyOne

LEMMA ListsInStep ==
  ASSUME TypeInv, NEW p \in Procs, ListsStep(p), NEW s \in Informed', InStep(s)
  PROVE  InStep(s)'
<1> USE DEF TypeInv
<1>1. PICK planned, next, why : ListsAs(p, planned, next, why)
  BY DEF ListsStep
<1>2. /\ Starts(p) /\ Lists(p, planned, next, why) /\ next \in {"delete", "move"}
      /\ why \in {{}, {"failure"}}
  BY <1>1 DEF ListsAs
<1>3. PICK all : all = why \union {c \in {"several"} : Len(planned) > 1}
  OBVIOUS
<1>4. all \in SUBSET Causes
  BY <1>2, <1>3 DEF Causes
<1>5. /\ planned # <<>> /\ plan' = [plan EXCEPT ![p] = planned] /\ Goto(p, next)
      /\ Doubted(p, all) /\ UNCHANGED <<dbVars, sessVars, gone, todo, targets>>
  BY <1>2, <1>3 DEF Lists
<1>6. all = {} /\ pc[s] \notin {"join", "leave"} /\ \A q \in Procs \ {p} : ~Changing(q)
  BY <1>4, <1>5, DoubtedInformed
<1>7. PICK S \in SUBSET folder : planned = Plan(S)
  BY <1>1, <1>3, <1>6 DEF ListsAs
<1>8. planned \in Seq(Planned)
  BY <1>1 DEF ListsAs
<1>9. Len(planned) = 1
  <2>1. ~ (Len(planned) > 1)
    BY <1>3, <1>6
  <2>2. PICK c \in Nat : c = Len(planned)
    BY <1>8, LenProperties
  <2>3. planned = <<>> <=> Len(planned) = 0
    BY <1>8, EmptyIff
  <2>4. c # 0
    BY <1>5, <2>2, <2>3
  <2>5. c <= 1
    BY <2>1, <2>2
  <2>6. c = 1
    BY <2>4, <2>5
  <2> QED
    BY <2>2, <2>6
<1>10. \E m \in folder : planned = <<[id |-> m, num |-> Number(m)]>>
  <2>1. \A k \in 1..Len(planned) : \E m \in S : planned[k] = [id |-> m, num |-> Number(m)]
    BY <1>7, PlanTyped
  <2>2. 1 \in 1..Len(planned)
    BY <1>9
  <2>3. PICK m \in S : planned[1] = [id |-> m, num |-> Number(m)]
    BY <2>1, <2>2
  <2>4. planned = <<planned[1]>>
    BY <1>8, <1>9
  <2> QED
    BY <2>3, <2>4
<1>11. plan'[p] = planned /\ \A q \in Procs \ {p} : plan'[q] = plan[q]
  BY <1>5 DEF JobTyped
<1>12. s \in Sessions /\ pc[p] \notin Busy /\ (s = p => pc[s] # "out")
  BY <1>2 DEF Starts, Busy, Informed
<1>13. next \in {"delete", "move", "purge"}
  BY <1>2
<1> QED
  BY <1>5, <1>6, <1>10, <1>11, <1>12, <1>13, BeginsInStep

LEMMA QuitInStep ==
  ASSUME TypeInv, NEW p \in Requests, Pop3Quit(p), NEW s \in Informed', InStep(s)
  PROVE  InStep(s)'
<1> USE DEF TypeInv
<1>1. p \in Procs /\ p \notin Sessions /\ s \in Sessions
  BY PushAssumption DEF Procs, Informed
<1>2. PICK all : all = {c \in {"several"} : Len(plan[p]) > 1}
                     \union {c \in {"snapshot"} : Stale(plan[p])}
  OBVIOUS
<1>3. /\ pc[p] = "mark" /\ Goto(p, "purge") /\ Doubted(p, all)
      /\ UNCHANGED <<dbVars, sessVars, jobVars>> /\ all \in SUBSET Causes
  BY <1>2 DEF Pop3Quit, Causes
<1>4. all = {} /\ pc[s] \notin {"join", "leave"} /\ \A q \in Procs \ {p} : ~Changing(q)
  BY <1>3, DoubtedInformed
<1>5. ~ Stale(plan[p])
  BY <1>2, <1>4
<1>6. PICK c \in Nat : c = Len(plan[p]) /\ c <= 1
  <2>1. Len(plan[p]) \in Nat
    BY <1>1, LenProperties DEF JobTyped
  <2>2. ~ (Len(plan[p]) > 1)
    BY <1>2, <1>4
  <2> QED
    BY <2>1, <2>2
<1>7. plan'[p] = <<>> \/ \E m \in folder : plan'[p] = <<[id |-> m, num |-> Number(m)]>>
  <2>1. plan[p] \in Seq(Planned) /\ plan' = plan /\ DOMAIN plan[p] = 1..c
    BY <1>1, <1>3, <1>6, LenProperties DEF JobTyped, jobVars
  <2>2. CASE c = 0
    BY <1>6, <2>1, <2>2, EmptyIff
  <2>3. CASE c # 0
    <3>1. c = 1
      <4>1. c <= 1
        BY <1>6
      <4> QED
        BY <2>3, <4>1
    <3>2. PICK r \in Planned : r = plan[p][1]
      BY <1>6, <2>1, <3>1, ElementOfSeq
    <3>3. plan[p] = <<r>>
      BY <1>6, <2>1, <3>1, <3>2
    <3>4. r.id \in folder /\ r.num = Number(r.id)
      BY <1>5, <2>1, <3>1, <3>2 DEF Stale
    <3>5. r = [id |-> r.id, num |-> r.num]
      BY DEF Planned
    <3> QED
      BY <2>1, <3>3, <3>4, <3>5
  <2> QED
    BY <2>2, <2>3
<1>8. UNCHANGED <<plan, gone, todo, targets>> /\ pc[p] \notin Busy
  BY <1>3 DEF jobVars, Busy
<1> QED
  BY <1>1, <1>3, <1>4, <1>7, <1>8, BeginsInStep

\* Without a message, its EXPUNGE is due.
LEMMA RemovedDue ==
  ASSUME FolderTyped, NEW m \in folder, folder' = folder \ {m}, NEW n, n = Number(m)
  PROVE  Told(Listing, Expunge(n)) = Listing'
<1>1. Told(Ordered(folder), Expunge(n)) = Ordered(folder \ {m})
  BY FolderFinite, ToldLess DEF Number
<1> QED
  BY <1>1 DEF Listing

LEMMA ExpungeGrows ==
  ASSUME NEW v, NEW n
  PROVE  Grows(v, Expunge(n))
BY DEF Grows, Expunge

\* One message of a removal is gone, or none.
LEMMA RemoveOneInStep ==
  ASSUME TypeInv, NEW p \in Procs, MoveOne(p) \/ Pop3Delete(p), NEW s \in Sessions, InStep(s)
  PROVE  InStep(s)'
<1> USE DEF TypeInv
<1>1. /\ pc[p] \in {"move", "purge"} /\ UNCHANGED <<sessVars, pc, todo, targets>> /\ s \in Procs
      /\ \A q \in Procs \ {p} : plan'[q] = plan[q] /\ gone'[q] = gone[q]
  BY DEF MoveOne, Pop3Delete, JobTyped, Procs
<1>2. Changing(p) /\ pc'[p] = pc[p]
  BY <1>1 DEF Changing
<1>3. \A q \in Procs \ {p} : SameJob(q)
  BY <1>1 DEF SameJob
<1>4. /\ \A q \in Procs \ {p} : ~Changing(q)'
      /\ Shape(p) /\ pc[s] # "join"
      /\ pc[s] \notin {"out", "leave"} => Growing(s) /\ Awaits(p, s)
  BY <1>2, <1>3, OnlyBefore
<1>5. plan[p] # <<>>
  BY LenProperties DEF MoveOne, Pop3Delete
<1>6. PICK m \in folder, n \in Nat :
        /\ plan[p] = <<[id |-> m, num |-> n]>> /\ n = Number(m) /\ gone[p] = <<>>
  <2>1. Removing(p) /\ gone[p] = <<>>
    BY <1>1, <1>4, <1>5 DEF Shape
  <2> QED
    BY <2>1, NumberTyped DEF Removing
<1>7. /\ plan'[p] = <<>>
      /\ \/ folder' = folder \ {m} /\ gone'[p] = <<n>>
         \/ UNCHANGED <<folder, gone>>
  <2>1. CASE MoveOne(p)
    <3>1. Tail(plan[p]) = <<>> /\ Head(plan[p]).id = m /\ Head(plan[p]).num = n
      BY <1>6
    <3>2. plan'[p] = <<>>
      BY <2>1, <3>1 DEF MoveOne, JobTyped
    <3>3. \/ folder' = folder \ {m} /\ gone' = [gone EXCEPT ![p] = Append(@, n)]
          \/ UNCHANGED <<folder, gone>>
      BY <2>1, <3>1 DEF MoveOne
    <3> QED
      BY <1>6, <3>2, <3>3 DEF JobTyped
  <2>2. CASE Pop3Delete(p)
    <3>1. DOMAIN plan[p] = {1} /\ plan[p][1].id = m /\ plan[p][1].num = n
      BY <1>6
    <3>2. /\ plan' = [plan EXCEPT ![p] = Without(@, 1)]
          /\ \/ folder' = folder \ {m} /\ gone' = [gone EXCEPT ![p] = Append(@, n)]
             \/ UNCHANGED <<folder, gone>>
      BY <2>2, <3>1 DEF Pop3Delete
    <3>3. Without(plan[p], 1) = <<>>
      <4>1. PICK v \in Seq(Planned) : v = plan[p]
        BY DEF JobTyped
      <4>2. Len(v) = 1
        BY <1>6, <4>1
      <4>3. PICK k \in 1..Len(v) : k = 1
        BY <4>2
      <4>4. Without(v, k) \in Seq(Planned) /\ Len(Without(v, k)) = Len(v) - 1
        BY WithoutTyped
      <4>5. Len(Without(v, k)) = 0
        BY <4>2, <4>4
      <4> QED
        BY <4>1, <4>3, <4>4, <4>5, EmptyIff
    <3> QED
      BY <1>6, <3>2, <3>3 DEF JobTyped
  <2> QED
    BY <2>1, <2>2
<1>8. Changing(p)' /\ Shape(p)'
  <2>1. gone'[p] = <<n>> \/ gone'[p] = <<>>
    BY <1>6, <1>7
  <2>2. Len(gone'[p]) <= 1
    <3>1. CASE gone'[p] = <<n>>
      BY <3>1
    <3>2. CASE gone'[p] = <<>>
      BY <3>2
    <3> QED
      BY <2>1, <3>1, <3>2
  <2> QED
    BY <1>1, <1>2, <1>7, <2>2 DEF Changing, Shape
<1>9. ASSUME pc[s] \notin {"out", "leave"} PROVE Growing(s)' /\ Awaits(p, s)'
  <2>1. Heard(s)' = Heard(s) /\ (Growing(s)' <=> Growing(s))
    BY <1>1, StillHeard DEF sessVars
  <2>2. Growing(s) /\ Heard(s) = Listing
    BY <1>1, <1>4, <1>6, <1>9 DEF Awaits
  <2>3. CASE folder' = folder \ {m} /\ gone'[p] = <<n>>
    <3>1. Told(Listing, Expunge(n)) = Listing'
      BY <1>6, <2>3, RemovedDue
    <3>2. Due(s, Expunge(n))'
      BY <2>1, <2>2, <3>1, ExpungeGrows DEF Due, Expunge
    <3>3. gone'[p][1] = n /\ gone'[p] # <<>>
      BY <2>3
    <3> QED
      BY <1>1, <1>2, <2>1, <2>2, <3>2, <3>3 DEF Awaits, Expunge
  <2>4. CASE UNCHANGED <<folder, gone>>
    <3>1. Heard(s)' = Listing' /\ gone'[p] = <<>>
      BY <1>6, <2>1, <2>2, <2>4 DEF Listing
    <3> QED
      BY <1>1, <1>2, <2>1, <2>2, <3>1 DEF Awaits
  <2> QED
    BY <1>7, <2>3, <2>4
<1> QED
  BY <1>1, <1>4, <1>8, <1>9, OnlyOne

\* A client is told at once of what its own command has removed.
LEMMA AnnouncedOwn ==
  ASSUME SessTyped, NEW s \in Sessions, ~Membership(queue[s]), NEW u,
         view'[s] = Told(view[s], u), queue'[s] = queue[s]
  PROVE  Heard(s)' = Told(Heard(s), u) /\ Growing(s)'
<1>1. PICK q \in Seq(Sound) : q = queue[s]
  BY DEF SessTyped
<1>2. Hears(view[s], q) = view[s] /\ Hears(Told(view[s], u), q) = Told(view[s], u)
  BY <1>1, HearsFlags
<1>3. Heard(s)' = Told(Heard(s), u)
  BY <1>1, <1>2 DEF Heard
<1>4. \A k \in 1..Len(q) : q[k].kind = "fetch"
  BY <1>1, LenProperties DEF Membership
<1>5. Growing(s)'
  BY <1>1, <1>4 DEF Growing, Grows
<1> QED
  BY <1>3, <1>5

\* One removal is announced.
LEMMA AnnouncedOne ==
  ASSUME TypeInv, NEW p \in Procs, NEW n, Announce(p, <<n>>), UNCHANGED queue,
         \A q \in Procs \ {p} : ~Changing(q)', NEW s \in Sessions, pc[s] # "join",
         s = p => ~Membership(queue[s]) /\ pc[s] \notin {"out", "leave"},
         pc[s] \notin {"out", "leave"} => Growing(s) /\ Told(Heard(s), Expunge(n)) = Listing'
  PROVE  InStep(s)'
<1> USE DEF TypeInv
<1>1. PICK u : u = Expunge(n)
  OBVIOUS
<1>2. PICK us : us = [k \in DOMAIN <<n>> |-> Expunge(<<n>>[k])]
  OBVIOUS
<1>3. us = <<u>>
  BY <1>1, <1>2
<1>4. us # <<>> /\ Len(us) = 1 /\ us[1] = u /\ u.kind = "expunge"
  BY <1>1, <1>3 DEF Expunge
<1>5. /\ todo' = [todo EXCEPT ![p] = us]
      /\ view' = IF p \in Sessions THEN [view EXCEPT ![p] = Hears(@, us)] ELSE view
      /\ Goto(p, "push")
  BY <1>2, <1>4 DEF Announce
<1>6. todo'[p] = us
  BY <1>5 DEF JobTyped
<1>7. \A q \in Procs : pc'[q] = IF q = p THEN "push" ELSE pc[q]
  BY <1>5, Goes
<1>8. Changing(p)' /\ Shape(p)'
  <2>1. Membership(todo'[p])
    BY <1>3, <1>4, <1>6 DEF Membership
  <2> QED
    BY <1>4, <1>6, <1>7, <2>1 DEF Changing, Shape
<1>9. s \in Procs
  BY DEF Procs
<1>10. pc'[s] # "join" /\ (pc'[s] \notin {"out", "leave"} => pc[s] \notin {"out", "leave"})
  BY <1>7, <1>9
<1>11. ASSUME pc[s] \notin {"out", "leave"} PROVE Growing(s)' /\ Awaits(p, s)'
  <2>1. CASE s = p
    <3>1. view'[s] = Told(view[s], u)
      <4>1. view'[s] = Hears(view[s], us)
        BY <1>5, <2>1 DEF SessTyped
      <4> QED
        BY <1>3, <4>1, HearsOne
    <3>2. Heard(s)' = Told(Heard(s), u) /\ Growing(s)'
      BY <2>1, <3>1, AnnouncedOwn
    <3>3. Heard(s)' = Listing'
      BY <1>1, <1>11, <3>2
    <3> QED
      BY <1>4, <1>6, <1>7, <2>1, <3>2, <3>3 DEF Awaits
  <2>2. CASE s # p
    <3>1. view'[s] = view[s] /\ queue'[s] = queue[s]
      BY <1>5, <2>2 DEF SessTyped
    <3>2. Heard(s)' = Heard(s) /\ Growing(s)'
      BY <1>11, <3>1, StillHeard
    <3>3. Due(s, u)'
      BY <1>1, <1>11, <3>2, ExpungeGrows DEF Due
    <3> QED
      BY <1>4, <1>6, <1>7, <2>2, <3>2, <3>3 DEF Awaits
  <2> QED
    BY <2>1, <2>2
<1> QED
  BY <1>8, <1>10, <1>11, OnlyOne

\* A removal ends with nothing to push, and nothing has been removed.
LEMMA EndedNone ==
  ASSUME PcTyped, NEW p \in Procs, NEW l \in {"poll", "out", "broken"}, Goto(p, l),
         todo'[p] = <<>>, \A q \in Procs \ {p} : ~Changing(q)',
         NEW s \in Sessions, pc[s] # "join", view'[s] = view[s], queue'[s] = queue[s],
         s = p => pc[s] \notin {"out", "leave"},
         pc[s] \notin {"out", "leave"} => Growing(s) /\ Heard(s) = Listing'
  PROVE  InStep(s)'
<1>1. \A q \in Procs : pc'[q] = IF q = p THEN l ELSE pc[q]
  BY Goes
<1>2. ~Changing(p)'
  <2>1. pc'[p] \notin {"delete", "move", "count", "purge"}
    BY <1>1
  <2> QED
    BY <2>1 DEF Changing, Membership
<1>3. s \in Procs
  BY DEF Procs
<1>4. pc'[s] # "join" /\ (pc'[s] \notin {"out", "leave"} => pc[s] \notin {"out", "leave"})
  BY <1>1, <1>3
<1>5. Heard(s)' = Heard(s) /\ (Growing(s)' <=> Growing(s))
  BY StillHeard
<1> QED
  BY <1>2, <1>4, <1>5, OnlyOne

LEMMA AnnouncedNone ==
  ASSUME TypeInv, NEW p \in Procs, Announce(p, <<>>), UNCHANGED queue,
         \A q \in Procs \ {p} : ~Changing(q)', NEW s \in Sessions, pc[s] # "join",
         s = p => pc[s] \notin {"out", "leave"},
         pc[s] \notin {"out", "leave"} => Growing(s) /\ Heard(s) = Listing'
  PROVE  InStep(s)'
<1> USE DEF TypeInv
<1>1. PICK us : us = [k \in DOMAIN <<>> |-> Expunge(<<>>[k])]
  OBVIOUS
<1>2. us = <<>>
  BY <1>1
<1>3. PICK l \in {"poll", "out", "broken"} : l = Answer(p)
  BY DEF Answer
<1>4. /\ todo' = [todo EXCEPT ![p] = us]
      /\ view' = IF p \in Sessions THEN [view EXCEPT ![p] = Hears(@, us)] ELSE view
      /\ Goto(p, l)
  BY <1>1, <1>2, <1>3 DEF Announce
<1>5. todo'[p] = <<>>
  BY <1>2, <1>4 DEF JobTyped
<1>6. view'[s] = view[s]
  <2>1. Hears(view[s], us) = view[s]
    BY <1>2, HearsNone
  <2> QED
    BY <1>4, <2>1 DEF SessTyped
<1> QED
  BY <1>4, <1>5, <1>6, EndedNone

\* A handler that returns because it cannot write to its own client misleads no client
\* only if it has removed nothing.
LEMMA BrokenNone ==
  ASSUME TypeInv, NEW p \in Procs, NEW nums, Breaks(p, nums), UNCHANGED queue,
         pc[p] \notin {"push", "send"},
         \A q \in Procs \ {p} : ~Changing(q)', NEW s \in Informed', pc[s] # "join",
         s = p => pc[s] \notin {"out", "leave"},
         nums = <<>> => (pc[s] \notin {"out", "leave"} => Growing(s) /\ Heard(s) = Listing')
  PROVE  InStep(s)'
<1> USE DEF TypeInv
<1>1. PICK why : why = {c \in {"broken"} : nums # <<>>}
  OBVIOUS
<1>2. why \in SUBSET Causes /\ Doubted(p, why)
  BY <1>1 DEF Breaks, Causes
<1>3. why = {}
  BY <1>2, DoubtedInformed
<1>4. nums = <<>>
  BY <1>1, <1>3
<1>5. Goto(p, "broken") /\ todo'[p] = <<>> /\ view'[s] = view[s] /\ queue'[s] = queue[s]
      /\ s \in Sessions
  BY DEF Breaks, PcTyped, Informed
<1> QED
  BY <1>4, <1>5, EndedNone

LEMMA AnnounceSame ==
  ASSUME TypeInv, NEW p \in Procs, NEW nums, Announce(p, nums),
         \A q \in Procs \ {p} : plan'[q] = plan[q] /\ gone'[q] = gone[q]
  PROVE  \A q \in Procs \ {p} : SameJob(q)
<1>1. PICK l : Goto(p, l)
  BY DEF Announce
<1>2. \A q \in Procs : pc'[q] = IF q = p THEN l ELSE pc[q]
  BY <1>1, Goes DEF TypeInv
<1>3. \A q \in Procs \ {p} : todo'[q] = todo[q]
  BY DEF Announce, TypeInv, JobTyped
<1> QED
  BY <1>2, <1>3 DEF SameJob

LEMMA BreaksSame ==
  ASSUME TypeInv, NEW p \in Procs, NEW nums, Breaks(p, nums),
         \A q \in Procs \ {p} : plan'[q] = plan[q] /\ gone'[q] = gone[q]
  PROVE  \A q \in Procs \ {p} : SameJob(q)
<1>1. \A q \in Procs : pc'[q] = IF q = p THEN "broken" ELSE pc[q]
  BY Goes DEF Breaks, TypeInv
<1> QED
  BY <1>1 DEF Breaks, SameJob

\* A handler whose client is not misled overtakes nothing.
LEMMA OrderInformed ==
  ASSUME NEW p, NEW nums, nums # <<>>, doubt' = doubt \union ({p} \X Overtakes(p, nums)),
         NEW s \in Informed', s = p
  PROVE  ~Membership(queue[s])
<1>1. SUFFICES ASSUME Membership(queue[s]) PROVE FALSE
  OBVIOUS
<1>2. s \in Sessions /\ "order" \in Causes
  BY DEF Informed, Causes
<1>3. "order" \in Overtakes(p, nums)
  BY <1>1, <1>2 DEF Overtakes
<1>4. <<s, "order">> \in doubt'
  BY <1>3
<1> QED
  BY <1>2, <1>4 DEF Informed

LEMMA DeleteManyInStep ==
  ASSUME TypeInv, NEW p \in Procs, DeleteMany(p), NEW s \in Informed', InStep(s)
  PROVE  InStep(s)'
<1> USE DEF TypeInv
<1>1. /\ pc[p] = "delete" /\ plan' = [plan EXCEPT ![p] = <<>>]
      /\ UNCHANGED <<trash, last, hub, queue, token, gone, targets>>
      /\ s \in Sessions /\ s \in Procs
  BY DEF DeleteMany, Informed, Procs
<1>2. \A q \in Procs \ {p} : plan'[q] = plan[q] /\ gone'[q] = gone[q]
  BY <1>1 DEF JobTyped
<1>3. \A q \in Procs \ {p} : SameJob(q)
  <2>1. \E nums : Announce(p, nums) \/ Breaks(p, nums)
    BY DEF DeleteMany
  <2> QED
    BY <1>2, <2>1, AnnounceSame, BreaksSame
<1>4. Changing(p)
  BY <1>1 DEF Changing
<1>5. /\ \A q \in Procs \ {p} : ~Changing(q)'
      /\ Shape(p) /\ pc[s] # "join"
      /\ pc[s] \notin {"out", "leave"} => Growing(s) /\ Awaits(p, s)
  BY <1>1, <1>3, <1>4, OnlyBefore
<1>6. PICK m \in folder, n \in Nat : n = Number(m) /\ plan[p] = <<[id |-> m, num |-> n]>>
  <2>1. Removing(p)
    BY <1>1, <1>5 DEF Shape
  <2> QED
    BY <2>1, NumberTyped DEF Removing
<1>7. /\ {plan[p][k].id : k \in DOMAIN plan[p]} = {m}
      /\ [k \in DOMAIN plan[p] |-> plan[p][k].num] = <<n>>
      /\ plan[p] # <<>>
  <2>1. DOMAIN plan[p] = 1..1 /\ plan[p][1].id = m /\ plan[p][1].num = n /\ plan[p] # <<>>
    BY <1>6
  <2> QED
    BY <2>1
<1>8. pc[s] \notin {"out", "leave"} => Growing(s) /\ Heard(s) = Listing
  BY <1>1, <1>5 DEF Awaits
<1>9. CASE /\ folder' = folder \ {m} /\ Announce(p, <<n>>)
           /\ doubt' = doubt \union ({p} \X Overtakes(p, plan[p]))
  <2>1. Told(Listing, Expunge(n)) = Listing'
    BY <1>6, <1>9, RemovedDue
  <2>2. s = p => ~Membership(queue[s])
    BY <1>7, <1>9, OrderInformed
  <2>3. s = p => pc[s] \notin {"out", "leave"}
    BY <1>1
  <2> QED
    BY <1>1, <1>5, <1>8, <1>9, <2>1, <2>2, <2>3, AnnouncedOne
<1>10. CASE Announce(p, <<>>) /\ UNCHANGED <<folder, doubt>>
  <2>1. Listing' = Listing
    BY <1>10 DEF Listing
  <2>2. s = p => pc[s] \notin {"out", "leave"}
    BY <1>1
  <2> QED
    BY <1>1, <1>5, <1>8, <1>10, <2>1, <2>2, AnnouncedNone
<1>11. CASE Doubted(p, {"failure"})
  <2>1. {"failure"} \in SUBSET Causes /\ {"failure"} # {}
    BY DEF Causes
  <2> QED
    BY <1>11, <2>1, DoubtedInformed
<1>12. CASE Breaks(p, plan[p])
  <2>1. s = p => pc[s] \notin {"out", "leave"}
    BY <1>1
  <2>2. pc[p] \notin {"push", "send"} /\ UNCHANGED queue
    BY <1>1
  <2> QED
    BY <1>5, <1>7, <1>12, <2>1, <2>2, BrokenNone
<1> QED
  BY <1>7, <1>9, <1>10, <1>11, <1>12 DEF DeleteMany

\* The end of a removal, one by one.
LEMMA EndInStep ==
  ASSUME TypeInv, NEW p \in Procs, MoveEnd(p) \/ (p \in Requests /\ Pop3End(p)),
         NEW s \in Informed', InStep(s)
  PROVE  InStep(s)'
<1> USE DEF TypeInv
<1>1. /\ pc[p] \in {"move", "purge"} /\ plan[p] = <<>> /\ gone' = [gone EXCEPT ![p] = <<>>]
      /\ UNCHANGED <<dbVars, hub, queue, token, plan, targets>>
      /\ s \in Sessions /\ s \in Procs
  BY DEF MoveEnd, Pop3End, Informed, Procs
<1>2. \A q \in Procs \ {p} : plan'[q] = plan[q] /\ gone'[q] = gone[q]
  BY <1>1 DEF JobTyped
<1>3. \A q \in Procs \ {p} : SameJob(q)
  <2>1. \E nums : Announce(p, nums) \/ Breaks(p, nums)
    BY DEF MoveEnd, Pop3End
  <2> QED
    BY <1>2, <2>1, AnnounceSame, BreaksSame
<1>4. Changing(p)
  BY <1>1 DEF Changing
<1>5. /\ \A q \in Procs \ {p} : ~Changing(q)'
      /\ Shape(p) /\ pc[s] # "join"
      /\ pc[s] \notin {"out", "leave"} => Growing(s) /\ Awaits(p, s)
  BY <1>1, <1>3, <1>4, OnlyBefore
<1>6. Len(gone[p]) <= 1
  <2>1. ~Removing(p)
    BY <1>1 DEF Removing
  <2> QED
    BY <1>1, <1>5, <2>1 DEF Shape
<1>7. s = p => pc[s] \notin {"out", "leave"}
  BY <1>1
<1>8. Listing' = Listing
  BY <1>1 DEF Listing, dbVars
<1>9. ASSUME Breaks(p, gone[p]) PROVE InStep(s)'
  <2>1. pc[p] \notin {"push", "send"} /\ UNCHANGED queue
    BY <1>1
  <2>2. gone[p] = <<>> => (pc[s] \notin {"out", "leave"} => Growing(s) /\ Heard(s) = Listing')
    BY <1>1, <1>5, <1>8 DEF Awaits
  <2> QED
    BY <1>5, <1>7, <1>9, <2>1, <2>2, BrokenNone
<1>10. CASE gone[p] = <<>> /\ ~Breaks(p, gone[p])
  <2>1. Announce(p, <<>>)
    BY <1>10 DEF MoveEnd, Pop3End
  <2>2. pc[s] \notin {"out", "leave"} => Growing(s) /\ Heard(s) = Listing
    BY <1>1, <1>5, <1>10 DEF Awaits
  <2> QED
    BY <1>1, <1>5, <1>7, <1>8, <2>1, <2>2, AnnouncedNone
<1>11. CASE gone[p] # <<>> /\ ~Breaks(p, gone[p])
  <2>1. PICK n : gone[p] = <<n>> /\ gone[p][1] = n
    <3>1. PICK v \in Seq(0..MaxMsg) : v = gone[p]
      BY DEF JobTyped
    <3>2. PICK c \in Nat : c = Len(v)
      BY <3>1, LenProperties
    <3>3. c # 0
      BY <1>11, <3>1, <3>2, EmptyIff
    <3>4. c <= 1
      BY <1>6, <3>1, <3>2
    <3>5. c = 1
      BY <3>3, <3>4
    <3>6. Len(v) = 1 /\ v \in Seq(0..MaxMsg)
      BY <3>2, <3>5
    <3>7. v = <<v[1]>>
      BY <3>6
    <3> QED
      BY <3>1, <3>7
  <2>2. /\ Announce(p, gone[p])
        /\ p \in Sessions => doubt' = doubt \union ({p} \X Overtakes(p, gone[p]))
    <3>1. CASE MoveEnd(p)
      BY <1>11, <3>1 DEF MoveEnd
    <3>2. CASE p \in Requests /\ Pop3End(p)
      <4>1. p \notin Sessions
        BY <3>2, PushAssumption
      <4>2. ~ Doubted(p, {c \in {"bare"} : gone[p] # <<>>})
        <5>1. {c \in {"bare"} : gone[p] # <<>>} = {"bare"}
          BY <1>11
        <5>2. {"bare"} \in SUBSET Causes /\ {"bare"} # {}
          BY DEF Causes
        <5>3. ~ Doubted(p, {"bare"})
          BY <5>2, DoubtedInformed
        <5> QED
          BY <5>1, <5>3
      <4> QED
        BY <3>2, <4>1, <4>2 DEF Pop3End
    <3> QED
      BY <3>1, <3>2
  <2>3. pc[s] \notin {"out", "leave"} => Growing(s) /\ Told(Heard(s), Expunge(n)) = Listing'
    BY <1>1, <1>5, <1>8, <1>11, <2>1 DEF Awaits, Due
  <2>4. s = p => ~Membership(queue[s])
    BY <1>1, <1>11, <2>2, OrderInformed
  <2>5. Announce(p, <<n>>)
    BY <2>1, <2>2
  <2> QED
    BY <1>1, <1>5, <1>7, <2>3, <2>4, <2>5, AnnouncedOne
<1> QED
  BY <1>10, <1>11, <1>9

\* One more update is queued for a client.
LEMMA QueuedMore ==
  ASSUME SessTyped, NEW s \in Sessions, NEW u \in Sound,
         view'[s] = view[s], queue'[s] = Append(queue[s], u), Growing(s), Grows(Heard(s), u)
  PROVE  Heard(s)' = Told(Heard(s), u) /\ Growing(s)'
<1>1. PICK q \in Seq(Sound) : q = queue[s]
  BY DEF SessTyped
<1>2. PICK v : v = view[s]
  OBVIOUS
<1>3. Heard(s)' = Told(Heard(s), u)
  BY <1>1, HearsMore DEF Heard
<1>4. PICK n \in Nat : n = Len(q)
  BY <1>1, LenProperties
<1>5. PICK z \in Seq(Sound) : z = Append(q, u)
  BY <1>1, AppendProperties
<1>6. Len(z) = n + 1 /\ z[n + 1] = u /\ \A k \in 1..n : z[k] = q[k]
  BY <1>1, <1>4, <1>5, AppendProperties
<1>7. ASSUME NEW k \in 1..(n + 1) PROVE Grows(Hears(v, SubSeq(z, 1, k - 1)), z[k])
  <2>1. PICK l \in 0..n : l = k - 1
    OBVIOUS
  <2>2. SubSeq(z, 1, l) = SubSeq(q, 1, l)
    BY <1>4, <1>6
  <2>3. CASE k = n + 1
    <3>1. l = n
      BY <2>1, <2>3
    <3>2. SubSeq(q, 1, n) = q
      BY <1>1, <1>4
    <3>3. Heard(s) = Hears(v, q)
      BY <1>1, <1>2 DEF Heard
    <3> QED
      BY <1>6, <2>1, <2>2, <2>3, <3>1, <3>2, <3>3
  <2>4. CASE k # n + 1
    <3>1. k \in 1..n
      BY <2>4
    <3>2. Grows(Hears(v, SubSeq(q, 1, k - 1)), q[k])
      BY <1>1, <1>2, <1>4, <3>1 DEF Growing
    <3> QED
      BY <1>6, <2>1, <2>2, <3>1, <3>2
  <2> QED
    BY <2>3, <2>4
<1>8. queue'[s] = z /\ view'[s] = v /\ Len(z) = n + 1
  BY <1>1, <1>2, <1>5, <1>6
<1>9. Growing(s)'
  BY <1>7, <1>8 DEF Growing
<1> QED
  BY <1>3, <1>9

\* What a handler that pushes has to push.
LEMMA Pushing ==
  ASSUME TypeInv, NEW p \in Procs, pc[p] \in {"push", "send"}
  PROVE  /\ todo[p] \in Seq(Sound) /\ todo[p] # <<>> /\ Head(todo[p]) = todo[p][1]
         /\ Head(todo[p]) \in Sound /\ 1 \in DOMAIN todo[p]
         /\ ~Changing(p) => Head(todo[p]).kind = "fetch" /\ ~Membership(Tail(todo[p]))
         /\ Changing(p) /\ Shape(p) => Tail(todo[p]) = <<>>
<1>1. PICK us \in Seq(Sound) : us = todo[p] /\ us # <<>>
  BY DEF TypeInv, JobTyped, PcTyped
<1>2. Head(us) = us[1] /\ Head(us) \in Sound /\ Tail(us) \in Seq(Sound)
  BY <1>1, HeadTailProperties
<1>3. PICK n \in Nat : n = Len(us) /\ n # 0 /\ DOMAIN us = 1..n
  BY <1>1, LenProperties, EmptyIff
<1>4. 1 \in DOMAIN us
  BY <1>3
<1>5. Len(Tail(us)) = n - 1 /\ \A k \in 1..(n - 1) : Tail(us)[k] = us[k + 1]
  BY <1>1, <1>3, HeadTailProperties
<1>6. ASSUME ~Changing(p) PROVE us[1].kind = "fetch" /\ ~Membership(Tail(us))
  <2>1. \A k \in 1..n : us[k].kind = "fetch"
    BY <1>1, <1>3, <1>6 DEF Changing, Membership
  <2>2. DOMAIN Tail(us) = 1..(n - 1)
    BY <1>2, <1>5, LenProperties
  <2>3. \A k \in 1..(n - 1) : Tail(us)[k].kind = "fetch"
    BY <1>5, <2>1
  <2>4. ~Membership(Tail(us))
    BY <2>2, <2>3 DEF Membership
  <2> QED
    BY <1>4, <1>3, <2>1, <2>4
<1>7. ASSUME Changing(p), Shape(p) PROVE Tail(us) = <<>>
  <2>1. Len(us) = 1
    BY <1>1, <1>7 DEF Shape
  <2>2. Len(Tail(us)) = 0
    BY <1>3, <1>5, <2>1
  <2> QED
    BY <1>2, <2>2, EmptyIff
<1> QED
  BY <1>1, <1>2, <1>4, <1>6, <1>7

LEMMA SnapshotInStep ==
  ASSUME TypeInv, HubExact, NEW p \in Procs, Snapshot(p), NEW s \in Sessions, InStep(s)
  PROVE  InStep(s)'
<1> USE DEF TypeInv
<1>1. /\ pc[p] = "push" /\ targets' = [targets EXCEPT ![p] = Audience(p, Head(todo[p]))]
      /\ Goto(p, "send") /\ UNCHANGED <<dbVars, sessVars, plan, gone, todo>> /\ s \in Procs
  BY DEF Snapshot, Procs
<1>2. UNCHANGED <<folder, view, queue>> /\ Listing' = Listing
  BY <1>1 DEF dbVars, sessVars, Listing
<1>3. \A q \in Procs : pc'[q] = IF q = p THEN "send" ELSE pc[q]
  BY <1>1, Goes
<1>4. \A q \in Procs \ {p} : SameJob(q)
  BY <1>1, <1>3 DEF SameJob
<1>5. Heard(s)' = Heard(s) /\ (Growing(s)' <=> Growing(s))
  BY <1>2, StillHeard
<1>6. (pc'[s] = "join" => pc[s] = "join")
      /\ (pc'[s] \notin {"out", "leave"} => pc[s] \notin {"out", "leave"})
  BY <1>1, <1>3
<1>7. Changing(p)' <=> Changing(p)
  BY <1>1, <1>3 DEF Changing
<1>8. CASE ~Changing(p)
  <2>1. \A q \in Procs \ {p} : s \in targets'[q] <=> s \in targets[q]
    BY <1>1 DEF JobTyped
  <2>2. pc'[s] \notin {"out", "leave"} => Growing(s)
    BY <1>6 DEF InStep
  <2> QED
    BY <1>2, <1>4, <1>5, <1>6, <1>7, <1>8, <2>1, <2>2, Aside
<1>9. CASE Changing(p)
  <2>1. /\ \A q \in Procs \ {p} : ~Changing(q)'
        /\ Shape(p) /\ pc[s] # "join"
        /\ pc[s] \notin {"out", "leave"} => Growing(s) /\ Awaits(p, s)
    BY <1>4, <1>9, OnlyBefore
  <2>2. PICK u : u = todo[p][1] /\ u = Head(todo[p]) /\ todo'[p][1] = u
    BY <1>1, Pushing
  <2>3. Shape(p)'
    BY <1>1, <1>3, <2>1 DEF Shape
  <2>4. ASSUME pc[s] \notin {"out", "leave"} PROVE Growing(s)' /\ Awaits(p, s)'
    <3>1. s \in hub
      BY <2>1, <2>4 DEF HubExact
    <3>2. s \in targets'[p] <=> s \in Audience(p, u)
      BY <1>1, <2>2 DEF JobTyped
    <3>3. s \in targets'[p] <=> ~ (s = p /\ u.kind # "exists")
      BY <3>1, <3>2 DEF Audience
    <3>4. IF s \in targets'[p] THEN Due(s, u) ELSE Heard(s) = Listing
      BY <1>1, <2>1, <2>2, <2>4, <3>3 DEF Awaits
    <3>5. IF s \in targets'[p] THEN Due(s, u)' ELSE Heard(s)' = Listing'
      BY <1>2, <1>5, <3>4, DueKept
    <3>6. pc'[p] = "send"
      BY <1>3
    <3> QED
      BY <1>5, <2>1, <2>2, <2>4, <3>5, <3>6 DEF Awaits
  <2> QED
    BY <1>6, <1>7, <1>9, <2>1, <2>3, <2>4, OnlyOne
<1> QED
  BY <1>8, <1>9

LEMMA SendInStep ==
  ASSUME TypeInv, NEW p \in Procs, NEW t \in Sessions, Send(p, t),
         NEW s \in Sessions, InStep(s)
  PROVE  InStep(s)'
<1> USE DEF TypeInv
<1>1. /\ pc[p] = "send" /\ t \in targets[p]
      /\ queue' = [queue EXCEPT ![t] = Append(@, Head(todo[p]))]
      /\ targets' = [targets EXCEPT ![p] = @ \ {t}]
      /\ UNCHANGED <<dbVars, hub, view, pc, plan, gone, todo>>
  BY DEF Send
<1>2. UNCHANGED <<folder, view>> /\ Listing' = Listing
  BY <1>1 DEF dbVars, Listing
<1>3. \A q \in Procs \ {p} : SameJob(q)
  BY <1>1 DEF SameJob
<1>4. Changing(p)' <=> Changing(p)
  BY <1>1 DEF Changing
<1>5. PICK u \in Sound : u = todo[p][1] /\ u = Head(todo[p]) /\ todo'[p][1] = u
                         /\ (~Changing(p) => u.kind = "fetch")
  BY <1>1, Pushing
<1>6. s # t => Heard(s)' = Heard(s) /\ (Growing(s)' <=> Growing(s))
  BY <1>1, StillHeard DEF SessTyped
<1>7. s = t => view'[s] = view[s] /\ queue'[s] = Append(queue[s], u)
  BY <1>1, <1>5 DEF SessTyped
<1>8. CASE ~Changing(p)
  <2>1. \A q \in Procs \ {p} : s \in targets'[q] <=> s \in targets[q]
    BY <1>1 DEF JobTyped
  <2>2. ASSUME pc[s] \notin {"out", "leave"} PROVE Heard(s)' = Heard(s) /\ Growing(s)'
    <3>1. Growing(s)
      BY <2>2 DEF InStep
    <3>2. CASE s = t
      <4>1. u.kind = "fetch"
        BY <1>5, <1>8
      <4>2. Told(Heard(s), u) = Heard(s) /\ Grows(Heard(s), u)
        BY <4>1, ToldFlags DEF Grows
      <4> QED
        BY <1>7, <3>1, <3>2, <4>2, QueuedMore
    <3> QED
      BY <1>6, <3>1, <3>2
  <2>3. pc'[s] = pc[s]
    BY <1>1
  <2> QED
    BY <1>2, <1>3, <1>4, <1>8, <2>1, <2>2, <2>3, Aside
<1>9. CASE Changing(p)
  <2>1. /\ \A q \in Procs \ {p} : ~Changing(q)'
        /\ Shape(p) /\ pc[s] # "join"
        /\ pc[s] \notin {"out", "leave"} => Growing(s) /\ Awaits(p, s)
    BY <1>3, <1>9, OnlyBefore
  <2>2. Shape(p)'
    BY <1>1, <2>1 DEF Shape
  <2>3. ASSUME pc[s] \notin {"out", "leave"} PROVE Growing(s)' /\ Awaits(p, s)'
    <3>1. Growing(s) /\ IF s \in targets[p] THEN Due(s, u) ELSE Heard(s) = Listing
      BY <1>1, <1>5, <2>1, <2>3 DEF Awaits
    <3>2. s \in targets'[p] <=> s \in targets[p] /\ s # t
      BY <1>1 DEF JobTyped
    <3>3. pc'[p] = "send" /\ todo'[p][1] = u
      BY <1>1, <1>5
    <3>4. CASE s = t
      <4>1. Due(s, u)
        BY <1>1, <3>1, <3>4
      <4>2. Heard(s)' = Told(Heard(s), u) /\ Growing(s)'
        BY <1>7, <3>1, <3>4, <4>1, QueuedMore DEF Due
      <4>3. Heard(s)' = Listing'
        BY <1>2, <4>1, <4>2 DEF Due
      <4> QED
        BY <3>2, <3>3, <3>4, <4>2, <4>3 DEF Awaits
    <3>5. CASE s # t
      <4>1. Heard(s)' = Heard(s) /\ Growing(s)'
        BY <1>6, <3>1, <3>5
      <4>2. IF s \in targets'[p] THEN Due(s, u)' ELSE Heard(s)' = Listing'
        BY <1>2, <3>1, <3>2, <3>5, <4>1, DueKept
      <4> QED
        BY <3>3, <4>1, <4>2 DEF Awaits
    <3> QED
      BY <3>4, <3>5
  <2>4. pc'[s] = pc[s]
    BY <1>1
  <2> QED
    BY <1>4, <1>9, <2>1, <2>2, <2>3, <2>4, OnlyOne
<1> QED
  BY <1>8, <1>9

LEMMA SentInStep ==
  ASSUME TypeInv, NEW p \in Procs, Sent(p), NEW s \in Sessions, InStep(s)
  PROVE  InStep(s)'
<1> USE DEF TypeInv
<1>1. PICK l \in {"push", "answer", "poll", "out"} :
        /\ Goto(p, l) /\ (Tail(todo[p]) = <<>> => l # "push")
        /\ (p \in Sessions => l # "out")
  BY DEF Sent, Answer
<1>2. /\ pc[p] = "send" /\ targets[p] = {} /\ todo' = [todo EXCEPT ![p] = Tail(@)]
      /\ UNCHANGED <<dbVars, sessVars, plan, gone, targets>> /\ s \in Procs
  BY DEF Sent, Procs
<1>3. UNCHANGED <<folder, view, queue>> /\ Listing' = Listing
  BY <1>2 DEF dbVars, sessVars, Listing
<1>4. \A q \in Procs : pc'[q] = IF q = p THEN l ELSE pc[q]
  BY <1>1, Goes
<1>5. todo'[p] = Tail(todo[p]) /\ \A q \in Procs \ {p} : SameJob(q)
  BY <1>2, <1>4 DEF SameJob, JobTyped
<1>6. Heard(s)' = Heard(s) /\ (Growing(s)' <=> Growing(s))
  BY <1>3, StillHeard
<1>7. (pc'[s] = "join" => pc[s] = "join")
      /\ (pc'[s] \notin {"out", "leave"} => pc[s] \notin {"out", "leave"})
  BY <1>1, <1>2, <1>4
<1>8. Changing(p)' <=> Membership(Tail(todo[p]))
  BY <1>4, <1>5 DEF Changing
<1>9. CASE ~Changing(p)
  <2>1. ~Changing(p)'
    BY <1>2, <1>8, <1>9, Pushing
  <2>2. pc'[s] \notin {"out", "leave"} => Growing(s)
    BY <1>7 DEF InStep
  <2> QED
    BY <1>2, <1>3, <1>5, <1>6, <1>7, <1>9, <2>1, <2>2, Aside
<1>10. CASE Changing(p)
  <2>1. /\ \A q \in Procs \ {p} : ~Changing(q)'
        /\ Shape(p) /\ pc[s] # "join"
        /\ pc[s] \notin {"out", "leave"} => Growing(s) /\ Awaits(p, s)
    BY <1>5, <1>10, OnlyBefore
  <2>2. ~Changing(p)'
    <3>1. Tail(todo[p]) = <<>>
      BY <1>2, <1>10, <2>1, Pushing
    <3> QED
      BY <1>8, <3>1 DEF Membership
  <2>3. ASSUME pc[s] \notin {"out", "leave"} PROVE Growing(s)' /\ Heard(s)' = Listing'
    BY <1>2, <1>3, <1>6, <2>1, <2>3 DEF Awaits
  <2> QED
    BY <1>7, <2>1, <2>2, <2>3, OnlyOne
<1> QED
  BY <1>9, <1>10

LEMMA StutterInStep ==
  ASSUME UNCHANGED vars, NEW s, InStep(s)
  PROVE  InStep(s)'
<1>1. /\ UNCHANGED <<folder, pc, plan, gone, todo, targets, view, queue>>
  BY DEF vars, dbVars, sessVars, jobVars
<1>2. Listing' = Listing /\ Heard(s)' = Heard(s) /\ (Growing(s)' <=> Growing(s))
  BY <1>1, StillHeard DEF Listing
<1>3. \A q : SameJob(q) /\ (Changing(q)' <=> Changing(q))
  BY <1>1 DEF SameJob, Changing
<1>4. \A q : Shape(q) => Shape(q)'
  BY <1>1, <1>3, SameShape
<1>5. \A q : Awaits(q, s) => Awaits(q, s)'
  BY <1>1, <1>2, <1>3, SameAwaits
<1> QED
  BY <1>1, <1>2, <1>3, <1>4, <1>5 DEF InStep

\* Every step keeps the clients in step that it does not mislead.
LEMMA SyncedStep ==
  ASSUME TypeInv, TypeInv', HubExact, Synced, [Next]_vars
  PROVE  Synced'
<1> SUFFICES ASSUME NEW s \in Informed' PROVE InStep(s)'
  BY DEF Synced
<1>1. s \in Sessions
  BY DEF Informed
<1>2. ASSUME NEW t \in Sessions, SelectRead(t) PROVE InStep(s)'
  BY <1>2, SelectReadInStep
<1>3. ASSUME doubt \subseteq doubt' PROVE InStep(s)
  BY <1>3, StillInformed DEF Synced
<1>4. CASE UNCHANGED vars
  BY <1>3, <1>4, StutterInStep DEF vars
<1>5. ASSUME NEW t \in Sessions, Command(t) \/ Session(t) PROVE InStep(s)'
  <2>1. t \in Procs
    BY DEF Procs
  <2>2. CASE \/ SelectJoin(t) \/ UnselectClear(t) \/ UnselectLeave(t) \/ Close(t)
             \/ Noop(t) \/ Fetch(t) \/ Idle(t) \/ IdleWait(t) \/ IdleWake(t) \/ IdleDone(t)
    <3>1. UNCHANGED doubt
      BY <2>2 DEF SelectJoin, UnselectClear, UnselectLeave, Close, Noop, Fetch, Idle,
                  IdleWait, IdleWake, IdleDone
    <3> QED
      BY <1>1, <1>3, <2>2, <3>1, SessionInStep
  <2>3. CASE PollNoExpunge(t) \/ Poll(t) \/ IdleWrite(t)
    <3>1. UNCHANGED doubt
      BY <2>3 DEF PollNoExpunge, Poll, IdleWrite, Writes
    <3> QED
      BY <1>1, <1>3, <2>3, <3>1, WritesInStep
  <2>4. CASE Store(t)
    <3>1. UNCHANGED doubt
      BY <2>4 DEF Store
    <3> QED
      BY <1>1, <1>3, <2>1, <2>4, <3>1, FlagsInStep
  <2>5. CASE ExpungeRead(t) \/ MoveRead(t)
    <3>1. ListsStep(t)
      BY <2>1, <2>5, ListsSteps DEF TypeInv
    <3>2. doubt \subseteq doubt'
      BY <2>5 DEF ExpungeRead, MoveRead, Lists, Doubted
    <3> QED
      BY <1>3, <2>1, <3>1, <3>2, ListsInStep
  <2> QED
    BY <1>2, <1>5, <2>2, <2>3, <2>4, <2>5 DEF Command, Session
<1>6. ASSUME NEW p \in Requests, Request(p) PROVE InStep(s)'
  <2>1. p \in Procs
    BY DEF Procs
  <2>2. CASE MarkRead(p)
    <3>1. UNCHANGED doubt
      BY <2>2 DEF MarkRead
    <3> QED
      BY <1>1, <1>3, <2>1, <2>2, <3>1, FlagsInStep
  <2>3. CASE Restore(p)
    <3>1. doubt \subseteq doubt'
      BY <2>3 DEF Restore, Doubted
    <3> QED
      BY <1>3, <2>1, <2>3, <3>1, AddedInStep
  <2>4. CASE WebDelete(p) \/ EmptyFolder(p)
    <3>1. ListsStep(p)
      BY <2>1, <2>4, ListsSteps DEF TypeInv
    <3>2. doubt \subseteq doubt'
      BY <2>4 DEF WebDelete, EmptyFolder, Lists, Doubted
    <3> QED
      BY <1>3, <2>1, <3>1, <3>2, ListsInStep
  <2>5. CASE Pop3Mark(p) \/ Pop3Drop(p)
    <3>1. UNCHANGED doubt
      BY <2>5 DEF Pop3Mark, Pop3Drop
    <3> QED
      BY <1>1, <1>3, <2>5, <3>1, Pop3InStep
  <2>6. CASE Pop3Quit(p)
    <3>1. doubt \subseteq doubt'
      BY <2>6 DEF Pop3Quit, Doubted
    <3> QED
      BY <1>3, <2>6, <3>1, QuitInStep
  <2> QED
    BY <1>6, <2>2, <2>3, <2>4, <2>5, <2>6 DEF Request
<1>7. ASSUME NEW p \in Procs, Add(p) \/ CopyNone(p) \/ Handler(p) PROVE InStep(s)'
  <2>1. CASE Add(p) \/ CopyNone(p)
    <3>1. doubt \subseteq doubt'
      BY <2>1 DEF Add, CopyNone, Doubted
    <3> QED
      BY <1>3, <2>1, <3>1, AddedInStep
  <2>2. CASE Count(p)
    <3>1. doubt \subseteq doubt'
      BY <2>2 DEF Count, Doubted
    <3> QED
      BY <1>3, <2>2, <3>1, CountInStep
  <2>3. CASE DeleteMany(p)
    <3>1. doubt \subseteq doubt'
      BY <2>3 DEF DeleteMany, Breaks, Doubted
    <3> QED
      BY <1>3, <2>3, <3>1, DeleteManyInStep
  <2>4. CASE MoveOne(p) \/ Pop3Delete(p)
    <3>1. UNCHANGED doubt
      BY <2>4 DEF MoveOne, Pop3Delete
    <3> QED
      BY <1>1, <1>3, <2>4, <3>1, RemoveOneInStep
  <2>5. CASE MoveEnd(p) \/ Pop3End(p)
    <3>1. doubt \subseteq doubt'
      BY <2>5 DEF MoveEnd, Pop3End, Breaks, Doubted
    <3>2. Pop3End(p) => p \in Requests
      BY DEF Pop3End, TypeInv, PcTyped, Procs
    <3> QED
      BY <1>3, <2>5, <3>1, <3>2, EndInStep
  <2>6. CASE Snapshot(p) \/ Sent(p)
    <3>1. UNCHANGED doubt
      BY <2>6 DEF Snapshot, Sent
    <3> QED
      BY <1>1, <1>3, <2>6, <3>1, SnapshotInStep, SentInStep
  <2>7. ASSUME NEW t \in Sessions, Send(p, t) PROVE InStep(s)'
    <3>1. UNCHANGED doubt
      BY <2>7 DEF Send
    <3> QED
      BY <1>1, <1>3, <2>7, <3>1, SendInStep
  <2> QED
    BY <1>7, <2>1, <2>2, <2>3, <2>4, <2>5, <2>6, <2>7 DEF Handler
<1> QED
  BY <1>4, <1>5, <1>6, <1>7 DEF Next

-----------------------------------------------------------------------------
(* At first no session has selected the folder, and nothing goes on.       *)
LEMMA InitTyped == Init => TypeInv
<1> SUFFICES ASSUME Init PROVE TypeInv
  OBVIOUS
<1>1. /\ <<>> \in Seq(Sound) /\ <<>> \in Seq(Messages) /\ <<>> \in Seq(Planned)
      /\ <<>> \in Seq(0..MaxMsg)
  BY EmptySeq
<1>2. FolderTyped
  BY PushAssumption DEF Init, FolderTyped
<1>3. SessTyped /\ DoubtTyped
  BY <1>1 DEF Init, SessTyped, DoubtTyped
<1>4. JobTyped
  BY <1>1 DEF Init, JobTyped
<1>5. PcTyped
  BY DEF Init, PcTyped, Labels, Procs
<1> QED
  BY <1>2, <1>3, <1>4, <1>5 DEF TypeInv

LEMMA PushInit == Init => PushIInv
<1> SUFFICES ASSUME Init PROVE PushIInv
  OBVIOUS
<1>1. TypeInv
  BY InitTyped
<1>2. \A p \in Procs : pc[p] = "out"
  BY DEF Init
<1>3. HubExact
  BY <1>2 DEF Init, HubExact, Procs
<1>4. \A p \in Procs : ~Changing(p)
  BY <1>1, <1>2, Resting DEF Busy, TypeInv
<1>5. \A s \in Sessions : pc[s] = "out"
  BY <1>2 DEF Procs
<1>6. Synced
  BY <1>4, <1>5 DEF Synced, InStep, Informed
<1> QED
  BY <1>1, <1>3, <1>6 DEF PushIInv

LEMMA PushStep ==
  ASSUME PushIInv, [Next]_vars
  PROVE  PushIInv'
<1>1. TypeInv'
  BY TypeStep DEF PushIInv
<1>2. HubExact'
  BY HubStep DEF PushIInv
<1>3. Synced'
  BY <1>1, SyncedStep DEF PushIInv
<1> QED
  BY <1>1, <1>2, <1>3 DEF PushIInv

LEMMA PushIInvInv == PushIInv => PushInv
<1> SUFFICES ASSUME PushIInv PROVE PushInv
  OBVIOUS
<1>1. ASSUME NEW s \in Informed PROVE Synchronised(s)
  BY DEF PushIInv, Synced, InStep, Synchronised, Heard, Selected
<1> QED
  BY <1>1, TypeInvTypeOK DEF PushIInv, PushInv, InSync

\* A client that nothing may have misled knows the folder as soon as no handler changes
\* it and the client has heard what is queued for it, whatever the sessions, the web
\* interface, SMTP and POP3 do at once; and the hub holds the sessions that have the folder
\* selected (enqueue, takeUpdates, PushNewMessage, PushExpunged, Select, Unselect, Close).
THEOREM PushInvCorrect == Spec => []PushInv
<1>1. Init => PushIInv
  BY PushInit
<1>2. PushIInv /\ [Next]_vars => PushIInv'
  BY PushStep
<1>3. PushIInv => PushInv
  BY PushIInvInv
<1> QED
  BY <1>1, <1>2, <1>3, PTL DEF Spec

-----------------------------------------------------------------------------
(* While a command is answered.                                            *)
LEMMA SamePrefix == \A v : Len(v) \in Nat => Prefix(v, v)
BY DEF Prefix

\* Only what is written to a client changes what it knows, and while it awaits the answer
\* to FETCH, STORE or SEARCH that is what the poll after the answer writes.
LEMMA Answering ==
  ASSUME TypeInv, [Next]_vars, NEW s \in Sessions, pc[s] = "answer", ~PollNoExpunge(s)
  PROVE  view'[s] = view[s]
<1> USE DEF TypeInv
<1>1. CASE UNCHANGED view
  BY <1>1
<1>2. ASSUME NEW t \in Sessions, Command(t) \/ Session(t) PROVE view'[s] = view[s]
  <2>1. CASE SelectRead(t) \/ UnselectLeave(t) \/ Close(t)
    BY <2>1 DEF SelectRead, UnselectLeave, Close, SessTyped
  <2>2. CASE Poll(t) \/ IdleWrite(t) \/ PollNoExpunge(t)
    BY <2>2 DEF Poll, IdleWrite, PollNoExpunge, Writes, SessTyped
  <2>3. CASE \/ SelectJoin(t) \/ UnselectClear(t) \/ Noop(t) \/ Fetch(t) \/ Store(t) \/ Idle(t)
             \/ IdleDone(t) \/ IdleWait(t) \/ IdleWake(t) \/ ExpungeRead(t) \/ MoveRead(t)
    BY <2>3 DEF SelectJoin, UnselectClear, Noop, Fetch, Store, Idle, IdleDone, IdleWait,
                IdleWake, ExpungeRead, MoveRead, Lists, sessVars
  <2> QED
    BY <1>2, <2>1, <2>2, <2>3 DEF Command, Session
<1>3. ASSUME NEW p \in Requests, Request(p) PROVE view'[s] = view[s]
  BY <1>3 DEF Request, MarkRead, Restore, WebDelete, EmptyFolder, Lists,
              Pop3Mark, Pop3Drop, Pop3Quit, sessVars
<1>4. ASSUME NEW p \in Procs, Add(p) \/ CopyNone(p) \/ Handler(p) PROVE view'[s] = view[s]
  <2>1. CASE DeleteMany(p) \/ MoveEnd(p) \/ Pop3End(p)
    <3>1. pc[p] # "answer" /\ \E nums : Announce(p, nums) \/ Breaks(p, nums)
      BY <2>1 DEF DeleteMany, MoveEnd, Pop3End
    <3> QED
      BY <3>1 DEF Announce, Breaks, SessTyped
  <2>2. CASE \/ Add(p) \/ CopyNone(p) \/ Count(p) \/ MoveOne(p) \/ Pop3Delete(p)
             \/ Snapshot(p) \/ Sent(p) \/ \E t \in Sessions : Send(p, t)
    BY <2>2 DEF Add, CopyNone, Count, MoveOne, Pop3Delete, Snapshot, Sent, Send, sessVars
  <2> QED
    BY <1>4, <2>1, <2>2 DEF Handler
<1> QED
  BY <1>1, <1>2, <1>3, <1>4 DEF Next, vars, sessVars

LEMMA AnswerStep ==
  ASSUME PushIInv, [Next]_vars, NEW s \in Informed, pc[s] = "answer"
  PROVE  Prefix(view[s], view'[s])
<1>1. s \in Sessions /\ TypeInv /\ Growing(s)
  BY DEF Informed, PushIInv, Synced, InStep
<1>2. view[s] \in Seq(Messages) /\ queue[s] \in Seq(Sound)
  BY <1>1 DEF TypeInv, SessTyped
<1>3. CASE ~PollNoExpunge(s)
  <2>1. view'[s] = view[s]
    BY <1>1, <1>3, Answering
  <2> QED
    BY <1>2, <2>1, LenProperties, SamePrefix
<1>4. CASE PollNoExpunge(s)
  <2>1. PICK q \in Seq(Sound), v \in Seq(Messages) : q = queue[s] /\ v = view[s]
    BY <1>2
  <2>2. PICK n \in 0..Len(q) : n = Unnumbered(q) /\ \A k \in 1..n : q[k].kind # "expunge"
    BY UnnumberedFirst
  <2>3. view'[s] = Hears(v, SubSeq(q, 1, n))
    BY <1>1, <1>4, <2>1, <2>2 DEF PollNoExpunge, Writes, TypeInv, SessTyped
  <2>4. Len(q) \in Nat /\ n \in Nat /\ n <= Len(q)
    <3>1. Len(q) \in Nat
      BY <2>1, LenProperties
    <3> QED
      BY <2>2, <3>1
  <2>5. PICK z \in Seq(Sound) : z = SubSeq(q, 1, n)
    <3>1. \A k \in 1..n : q[k] \in Sound
      <4>1. \A k \in 1..n : k \in 1..Len(q)
        BY <2>4
      <4> QED
        BY <4>1, ElementOfSeq
    <3>2. 1 \in Int /\ n \in Int
      BY <2>4
    <3> QED
      BY <3>1, <3>2, SubSeqProperties
  <2>6. Part(z, q, 0, n)
    BY <2>5, PartFirst
  <2>7. Len(z) = n /\ \A k \in 1..n : z[k] = q[k]
    BY <2>4, <2>6 DEF Part
  <2>8. ASSUME NEW k \in 1..Len(z) PROVE Grows(Hears(v, SubSeq(z, 1, k - 1)), z[k])
    <3>1. PICK l \in 0..n : l = k - 1
      BY <2>7
    <3>2. SubSeq(z, 1, l) = SubSeq(q, 1, l)
      BY <2>4, <2>7
    <3>3. k \in 1..Len(q) /\ z[k] = q[k]
      BY <2>4, <2>7
    <3>4. Grows(Hears(v, SubSeq(q, 1, k - 1)), q[k])
      BY <1>1, <2>1, <3>3 DEF Growing
    <3> QED
      BY <3>1, <3>2, <3>3, <3>4
  <2>9. \A k \in 1..Len(z) : z[k].kind # "expunge"
    BY <2>2, <2>7
  <2>10. Prefix(v, Hears(v, z))
    BY <2>8, <2>9, HearsPrefix
  <2> QED
    BY <2>1, <2>3, <2>5, <2>10
<1> QED
  BY <1>3, <1>4

\* While FETCH, STORE or SEARCH is answered, the messages that an informed client knows
\* keep their numbers: what the poll after the answer writes, the updates before the first
\* EXPUNGE, only adds messages behind them (takeUpdates, Poll, enqueue).
THEOREM NumbersStandCorrect == Spec => NumbersStand
<1>1. Init => PushIInv
  BY PushInit
<1>2. PushIInv /\ [Next]_vars => PushIInv'
  BY PushStep
<1>3. PushIInv /\ [Next]_vars =>
        [\A s \in Informed : pc[s] = "answer" => Prefix(view[s], view'[s])]_vars
  BY AnswerStep
<1> QED
  BY <1>1, <1>2, <1>3, PTL DEF Spec, NumbersStand
=============================================================================
