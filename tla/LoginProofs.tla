----------------------------- MODULE LoginProofs -----------------------------
(***************************************************************************)
(* Proofs about logins.  First the count of failed logins and the bans,    *)
(* for any clients behind the IP, any thresholds and either database: bans *)
(* and their tiers are earned, and a ban in force is kept.  Then the web   *)
(* interface's sessions and users: a logout holds, an OAuth2 state opens   *)
(* one session, there always is an administrator, who is deleted stays     *)
(* deleted, a row is what its last change said, a temporary password has   *)
(* to be changed, and every variable has its type.                         *)
(***************************************************************************)
EXTENDS BanGuardProperties, WebSessionProperties, FiniteSetTheorems, TLAPS

-----------------------------------------------------------------------------
(* The inductive invariant. An attempt that has read the entry saves it    *)
(* over whatever the row has become, so what is said of the row has to be  *)
(* said of every copy of it that an attempt holds.                         *)
Proven(e) == e.tier > 0 => failures >= MaxFail
Climbed(e) ==
  e.active \/ e.tier > 0 => hits > FreeTriggers /\ hits >= FreeTriggers + e.tier
Deserved(e) ==
  /\ e.ban <= hits
  /\ ~manual => Proven(e)
  /\ ~manual /\ ~guessed => Climbed(e)

RowInv == \A e \in row : e.fail <= failures /\ Deserved(e)
ClientInv ==
  \A c \in Clients :
    /\ count[c] <= failures
    /\ at[c] = "save" => count[c] >= MaxFail
    /\ ~guessed => known[c]
    /\ \A e \in entry[c] : ~e.active /\ Deserved(e)

\* Whoever is past the check of a ban in force was let in before it.
LateInv == Banned => Inside \subseteq admitted

GuardInv == BanTypeOK /\ RowInv /\ ClientInv /\ LateInv

-----------------------------------------------------------------------------
LEMMA GuardInit == BanInit => GuardInv
<1> SUFFICES ASSUME BanInit PROVE GuardInv
  OBVIOUS
<1> USE BanAssumption DEF BanInit
<1>1. BanTypeOK
  <2>1. known \in [Clients -> BOOLEAN] /\ entry \in [Clients -> SUBSET Entry]
    BY Zenon
  <2>2. at \in [Clients -> PC] /\ count \in [Clients -> 0..FailCap]
    BY DEF PC
  <2>3. row \in SUBSET Entry /\ (\A e, f \in row : e = f)
    OBVIOUS
  <2>4. \A c \in Clients : at[c] = "save" <=> entry[c] # {}
    OBVIOUS
  <2>5. failures \in 0..FailCap /\ hits \in 0..FailCap
    OBVIOUS
  <2>6. admitted \in SUBSET Clients
    OBVIOUS
  <2> QED
    BY <2>1, <2>2, <2>3, <2>4, <2>5, <2>6, Zenon DEF BanTypeOK
<1>2. RowInv /\ ClientInv /\ LateInv
  BY DEF RowInv, ClientInv, LateInv, Banned
<1> QED
  BY <1>1, <1>2 DEF GuardInv

\* Returning forgets what the attempt has read (the deferred end of a login handler).
LEMMA Returned ==
  ASSUME GuardInv, NEW c \in Clients, Return(c)
  PROVE  /\ at' \in [Clients -> PC] /\ known' \in [Clients -> BOOLEAN]
         /\ count' \in [Clients -> 0..FailCap] /\ entry' \in [Clients -> SUBSET Entry]
         /\ \A d \in Clients \ {c} :
              at'[d] = at[d] /\ known'[d] = known[d] /\ count'[d] = count[d] /\ entry'[d] = entry[d]
         /\ at'[c] = (IF c \in Sticky THEN "login" ELSE "out")
         /\ known'[c] /\ count'[c] = 0 /\ entry'[c] = {}
         /\ Inside' = IF c \in Sticky THEN Inside \union {c} ELSE Inside \ {c}
BY BanAssumption DEF GuardInv, BanTypeOK, Return, PC, Inside

\* A handler that returns without touching the row (StopHere, SaveFails, CountFails).
LEMMA JustReturns ==
  ASSUME GuardInv, NEW c \in Clients, at[c] # "out", Return(c), admitted' = StillIn(admitted, c),
         row' = {} \/ row' = row, UNCHANGED <<failures, hits, guessed, manual>>
  PROVE  GuardInv'
<1>1. BanTypeOK'
  BY Returned DEF GuardInv, BanTypeOK, StillIn
<1>2. RowInv'
  BY DEF GuardInv, RowInv, Deserved, Proven, Climbed
<1>3. ClientInv'
  BY Returned DEF GuardInv, BanTypeOK, ClientInv, Deserved, Proven, Climbed
<1>4. LateInv'
  <2>1. Banned' => Banned
    BY DEF Banned
  <2>2. c \in Inside
    BY DEF Inside
  <2> QED
    BY <2>1, <2>2, Returned DEF GuardInv, LateInv, StillIn
<1> QED
  BY <1>1, <1>2, <1>3, <1>4 DEF GuardInv

\* What one attempt does to itself only, before it has read the entry.
LEMMA MovesOn ==
  ASSUME GuardInv, NEW c \in Clients, NEW l \in PC \ {"out", "save"}, at[c] \notin {"out", "save"},
         at' = [at EXCEPT ![c] = l], UNCHANGED <<row, known, entry, histVars>>,
         count' \in [Clients -> 0..FailCap], \A d \in Clients : count'[d] <= failures,
         \A d \in Clients \ {c} : count'[d] = count[d]
  PROVE  GuardInv'
<1> USE DEF histVars
<1>1. BanTypeOK'
  BY DEF GuardInv, BanTypeOK
<1>2. RowInv'
  BY DEF GuardInv, RowInv, Deserved, Proven, Climbed
<1>3. ClientInv'
  BY DEF GuardInv, BanTypeOK, ClientInv, Deserved, Proven, Climbed
<1>4. LateInv'
  BY DEF GuardInv, BanTypeOK, LateInv, Inside, Banned
<1> QED
  BY <1>1, <1>2, <1>3, <1>4 DEF GuardInv

-----------------------------------------------------------------------------
LEMMA AdmitStep == ASSUME GuardInv, NEW c \in Clients, Admit(c) PROVE GuardInv'
<1> USE DEF Admit
<1>1. BanTypeOK'
  BY DEF GuardInv, BanTypeOK, PC
<1>2. RowInv'
  BY DEF GuardInv, RowInv, Deserved, Proven, Climbed
<1>3. ClientInv'
  BY DEF GuardInv, BanTypeOK, ClientInv, Deserved, Proven, Climbed
<1>4. LateInv'
  BY DEF GuardInv, BanTypeOK, LateInv, Inside, Banned
<1> QED
  BY <1>1, <1>2, <1>3, <1>4 DEF GuardInv

LEMMA LeaveStep == ASSUME GuardInv, NEW c \in Clients, Leave(c) PROVE GuardInv'
<1> USE DEF Leave
<1>1. BanTypeOK'
  BY DEF GuardInv, BanTypeOK, PC
<1>2. RowInv'
  BY DEF GuardInv, RowInv, Deserved, Proven, Climbed
<1>3. ClientInv'
  BY DEF GuardInv, BanTypeOK, ClientInv, Deserved, Proven, Climbed
<1>4. LateInv'
  BY DEF GuardInv, BanTypeOK, LateInv, Inside, Banned
<1> QED
  BY <1>1, <1>2, <1>3, <1>4 DEF GuardInv

LEMMA WrongPasswordStep == ASSUME GuardInv, NEW c \in Clients, WrongPassword(c) PROVE GuardInv'
<1> USE DEF WrongPassword
<1>1. PICK k \in BOOLEAN :
        known' = [known EXCEPT ![c] = k] /\ guessed' = (guessed \/ ~k)
  OBVIOUS
<1>2. BanTypeOK'
  BY <1>1 DEF GuardInv, BanTypeOK, PC
<1>3. RowInv'
  BY <1>1 DEF GuardInv, RowInv, Deserved, Proven, Climbed
<1>4. ClientInv'
  <2>1. ~guessed' => k /\ ~guessed
    BY <1>1
  <2>2. ~guessed' => \A d \in Clients : known'[d]
    BY <1>1, <2>1 DEF GuardInv, BanTypeOK, ClientInv
  <2>3. \A d \in Clients : at'[d] = "save" => at[d] = "save"
    BY DEF GuardInv, BanTypeOK
  <2> QED
    BY <2>1, <2>2, <2>3 DEF GuardInv, ClientInv, Deserved, Proven, Climbed
<1>5. LateInv'
  BY DEF GuardInv, BanTypeOK, LateInv, Inside, Banned
<1> QED
  BY <1>2, <1>3, <1>4, <1>5 DEF GuardInv

\* A failure is counted in the row, or in a new one.
LEMMA CountUpdateStep == ASSUME GuardInv, NEW c \in Clients, CountUpdate(c) PROVE GuardInv'
<1> USE DEF CountUpdate
<1>1. CASE row = {}
  <2>1. row' = row /\ failures' = failures /\ at' = [at EXCEPT ![c] = "insert"]
    BY <1>1
  <2>2. count \in [Clients -> 0..FailCap] /\ \A d \in Clients : count[d] <= failures
    BY DEF GuardInv, BanTypeOK, ClientInv
  <2> QED
    BY <2>1, <2>2, MovesOn DEF PC, histVars
<1>2. CASE row # {}
  <2>1. failures' = UpTo(failures + 1, FailCap)
    BY <1>2 DEF Counted
  <2>2. failures \in 0..FailCap /\ failures' \in 0..FailCap /\ failures' >= failures
    BY <2>1, BanAssumption DEF GuardInv, BanTypeOK, UpTo
  <2>3. ASSUME NEW e \in row
        PROVE  LET f == [e EXCEPT !.fail = UpTo(@ + 1, FailCap)]
               IN /\ f \in Entry /\ f.fail <= failures' /\ f.ban = e.ban /\ f.tier = e.tier
                  /\ f.active = e.active
    BY <2>1, <2>3, BanAssumption DEF GuardInv, BanTypeOK, RowInv, Entry, UpTo
  <2>4. BanTypeOK'
    <3>1. row' \in SUBSET Entry
      BY <2>3
    <3>2. \A e, f \in row' : e = f
      BY DEF GuardInv, BanTypeOK
    <3> QED
      BY <1>2, <2>2, <3>1, <3>2 DEF GuardInv, BanTypeOK, PC
  <2>5. RowInv'
    <3>1. hits' = hits /\ manual' = manual /\ guessed' = guessed
      OBVIOUS
    <3>2. ASSUME NEW e \in row, Deserved(e)
          PROVE  Deserved([e EXCEPT !.fail = UpTo(@ + 1, FailCap)])'
      BY <2>2, <2>3, <3>1, <3>2, BanAssumption DEF Deserved, Proven, Climbed
    <3> QED
      BY <2>3, <3>2 DEF GuardInv, RowInv
  <2>6. ClientInv'
    <3>1. \A d \in Clients : at'[d] = "save" => at[d] = "save"
      BY <1>2 DEF GuardInv, BanTypeOK
    <3>2. \A d \in Clients : count[d] \in 0..FailCap
      BY DEF GuardInv, BanTypeOK
    <3> QED
      BY <2>2, <3>1, <3>2, BanAssumption DEF GuardInv, ClientInv, Deserved, Proven, Climbed
  <2>7. LateInv'
    <3>1. Banned' => Banned
      BY <2>3 DEF Banned
    <3> QED
      BY <1>2, <3>1 DEF GuardInv, BanTypeOK, LateInv, Inside
  <2> QED
    BY <2>4, <2>5, <2>6, <2>7 DEF GuardInv
<1> QED
  BY <1>1, <1>2

LEMMA CountInsertStep == ASSUME GuardInv, NEW c \in Clients, CountInsert(c) PROVE GuardInv'
<1> USE DEF CountInsert
<1>1. failures' = UpTo(failures + 1, FailCap)
  BY DEF Counted
<1>2. /\ failures \in 0..FailCap /\ failures' \in 0..FailCap
      /\ failures' >= failures /\ failures' >= 1
  BY <1>1, BanAssumption DEF GuardInv, BanTypeOK, UpTo
<1>3. \/ row' = row
      \/ \E n \in Ids :
           row' = {[id |-> n, fail |-> 1, ban |-> 0, tier |-> 0, active |-> FALSE]}
  OBVIOUS
<1>4. ASSUME NEW e \in row' \ row
      PROVE  /\ e \in Entry /\ e.fail = 1 /\ e.ban = 0 /\ e.tier = 0 /\ ~e.active
             /\ row' = {e}
  <2>1. PICK n \in Ids :
          row' = {[id |-> n, fail |-> 1, ban |-> 0, tier |-> 0, active |-> FALSE]}
    BY <1>3, <1>4
  <2>2. e = [id |-> n, fail |-> 1, ban |-> 0, tier |-> 0, active |-> FALSE]
    BY <1>4, <2>1
  <2>3. 1 \in 0..FailCap /\ 0 \in 0..TierCap /\ 0 \in 0..MaxTier
    BY BanAssumption DEF TierCap
  <2> QED
    BY <2>1, <2>2, <2>3 DEF Entry
<1>5. BanTypeOK'
  <2>1. row' \in SUBSET Entry /\ \A e, f \in row' : e = f
    BY <1>3, <1>4 DEF GuardInv, BanTypeOK
  <2> QED
    BY <1>2, <2>1 DEF GuardInv, BanTypeOK, PC
<1>6. RowInv'
  <2>1. hits \in Nat
    BY DEF GuardInv, BanTypeOK
  <2>2. ASSUME NEW e \in row PROVE e.fail \in Nat /\ e.fail <= failures'
    BY <1>2 DEF GuardInv, BanTypeOK, RowInv, Entry
  <2>3. ASSUME NEW e \in row PROVE Deserved(e)'
    BY <1>2, BanAssumption DEF GuardInv, RowInv, Deserved, Proven, Climbed
  <2> QED
    BY <1>2, <1>4, <2>1, <2>2, <2>3 DEF RowInv, Deserved, Proven, Climbed
<1>7. ClientInv'
  <2>1. \A d \in Clients : at'[d] = "save" => at[d] = "save"
    BY DEF GuardInv, BanTypeOK
  <2>2. \A d \in Clients : count[d] \in 0..FailCap
    BY DEF GuardInv, BanTypeOK
  <2> QED
    BY <1>2, <2>1, <2>2, BanAssumption DEF GuardInv, ClientInv, Deserved, Proven, Climbed
<1>8. LateInv'
  <2>1. Banned' => Banned
    BY <1>3 DEF Banned
  <2> QED
    BY <2>1 DEF GuardInv, BanTypeOK, LateInv, Inside
<1> QED
  BY <1>5, <1>6, <1>7, <1>8 DEF GuardInv

LEMMA CountReadStep == ASSUME GuardInv, NEW c \in Clients, CountRead(c) PROVE GuardInv'
<1>1. PICK n \in 0..FailCap : n <= failures /\ count' = [count EXCEPT ![c] = n]
  BY BanAssumption DEF CountRead, GuardInv, BanTypeOK, RowInv, Entry
<1> QED
  BY <1>1, MovesOn DEF CountRead, PC, histVars, GuardInv, BanTypeOK, ClientInv

\* The entry as the attempt reads it is the row, which is not in force.
LEMMA ReadEntryStep == ASSUME GuardInv, NEW c \in Clients, ReadEntry(c) PROVE GuardInv'
<1> USE DEF ReadEntry, histVars
<1>1. BanTypeOK'
  BY DEF GuardInv, BanTypeOK, PC
<1>2. RowInv'
  BY DEF GuardInv, RowInv, Deserved, Proven, Climbed
<1>3. ClientInv'
  <2>1. count[c] >= MaxFail
    BY BanAssumption DEF BelowThreshold, GuardInv, BanTypeOK
  <2>2. \A e \in row : ~e.active /\ Deserved(e)
    BY DEF Banned, GuardInv, RowInv
  <2> QED
    BY <2>1, <2>2 DEF GuardInv, BanTypeOK, ClientInv, Deserved, Proven, Climbed
<1>4. LateInv'
  BY DEF GuardInv, BanTypeOK, LateInv, Banned
<1> QED
  BY <1>1, <1>2, <1>3, <1>4 DEF GuardInv

-----------------------------------------------------------------------------
\* What RecordAuthFailure saves is deserved if what it read was.
LEMMA RaisedIsDeserved ==
  ASSUME GuardInv, NEW c \in Clients, at[c] = "save", NEW e \in entry[c],
         hits' = UpTo(hits + 1, FailCap), UNCHANGED <<failures, guessed, manual>>
  PROVE  /\ Raised(c, e) \in Entry
         /\ Raised(c, e).fail <= failures'
         /\ Raised(c, e).ban <= hits'
         /\ ~manual' => (Raised(c, e).tier > 0 => failures' >= MaxFail)
         /\ ~manual' /\ ~guessed' =>
              (Raised(c, e).active \/ Raised(c, e).tier > 0 =>
                 hits' > FreeTriggers /\ hits' >= FreeTriggers + Raised(c, e).tier)
<1> DEFINE n == Effective(c, e.ban + 1)
           f == Raised(c, e)
<1>1. /\ e \in Entry /\ e.id \in Ids /\ e.fail \in 0..FailCap /\ e.ban \in 0..TierCap
      /\ e.tier \in 0..MaxTier /\ e.active \in BOOLEAN
  BY DEF GuardInv, BanTypeOK, Entry
<1>2. count[c] \in 0..FailCap /\ count[c] <= failures /\ count[c] >= MaxFail
  BY DEF GuardInv, BanTypeOK, ClientInv
<1>3. Deserved(e)
  BY DEF GuardInv, ClientInv
<1>4. TierCap \in Nat /\ TierCap = FreeTriggers + MaxTier /\ TierCap <= FailCap
  BY BanAssumption DEF TierCap
<1>5. hits \in 0..FailCap /\ failures \in 0..FailCap
  BY DEF GuardInv, BanTypeOK
<1>6. n \in Nat /\ (~guessed => n = e.ban + 1)
  BY <1>1, <1>4, BanAssumption DEF Effective, GuardInv, ClientInv
<1>7. f = [id |-> e.id, fail |-> count[c], ban |-> UpTo(e.ban + 1, TierCap),
           tier |-> IF Free(n) THEN e.tier ELSE Tier(n - FreeTriggers), active |-> ~Free(n)]
  <2> HIDE DEF n, f
  <2>1. f = [e EXCEPT !.fail = count[c], !.ban = UpTo(@ + 1, TierCap),
                      !.tier = IF Free(n) THEN @ ELSE Tier(n - FreeTriggers), !.active = ~Free(n)]
    BY DEF f, Raised, n
  <2> QED
    BY <1>1, <2>1 DEF Entry
<1> HIDE DEF n, f
<1>8. Free(n) <=> n <= FreeTriggers
  BY DEF Free
<1>9. ~Free(n) => f.tier = UpTo(n - FreeTriggers, MaxTier) /\ f.tier \in 0..MaxTier
                    /\ f.tier <= n - FreeTriggers
  BY <1>6, <1>7, <1>8, BanAssumption DEF Tier, UpTo
<1>10. Free(n) => f.tier = e.tier /\ ~f.active
  BY <1>7
<1>11. f.fail = count[c] /\ f.id = e.id /\ f.ban = UpTo(e.ban + 1, TierCap) /\ f.ban \in 0..TierCap
  BY <1>1, <1>4, <1>7 DEF UpTo
<1>12. f \in Entry
  <2>1. f.tier \in 0..MaxTier
    BY <1>1, <1>9, <1>10
  <2>2. (~Free(n)) \in BOOLEAN
    BY DEF Free
  <2> QED
    BY <1>1, <1>2, <1>7, <1>11, <2>1, <2>2 DEF Entry
<1>13. hits' \in Nat /\ hits' >= hits /\ f.ban <= hits'
  BY <1>1, <1>3, <1>4, <1>5, <1>11 DEF UpTo, Deserved
<1>14. ~manual' => (f.tier > 0 => failures' >= MaxFail)
  BY <1>2, <1>5, BanAssumption
<1>15. ASSUME ~manual', ~guessed', f.active \/ f.tier > 0
       PROVE  hits' > FreeTriggers /\ hits' >= FreeTriggers + f.tier
  <2>1. CASE Free(n)
    <3>1. e.tier > 0 /\ f.tier = e.tier
      BY <1>10, <1>15, <2>1
    <3>2. hits > FreeTriggers /\ hits >= FreeTriggers + e.tier
      BY <1>3, <1>15, <3>1 DEF Deserved, Climbed
    <3> QED
      BY <1>1, <1>5, <1>13, <3>1, <3>2, BanAssumption
  <2>2. CASE ~Free(n)
    <3>1. n = e.ban + 1 /\ e.ban <= hits
      BY <1>3, <1>6, <1>15 DEF Deserved
    <3>2. n > FreeTriggers
      BY <1>6, <1>8, <2>2, BanAssumption
    <3>3. CASE hits + 1 < FailCap
      BY <1>1, <1>4, <1>5, <1>9, <2>2, <3>1, <3>2, <3>3, BanAssumption DEF UpTo
    <3>4. CASE ~(hits + 1 < FailCap)
      BY <1>1, <1>4, <1>5, <1>9, <2>2, <3>1, <3>2, <3>4, BanAssumption DEF UpTo
    <3> QED
      BY <3>3, <3>4
  <2> QED
    BY <2>1, <2>2
<1> QED
  BY <1>2, <1>11, <1>12, <1>13, <1>14, <1>15 DEF f

\* The entry is saved over the row, or over another row of the IP.
LEMMA SaveEntryStep == ASSUME GuardInv, NEW c \in Clients, SaveEntry(c) PROVE GuardInv'
<1> USE DEF SaveEntry
<1>1. PICK e \in entry[c] :
        SaveRow(Raised(c, e)) /\ admitted' = StillIn(IF Raised(c, e).active THEN Inside ELSE admitted, c)
  OBVIOUS
<1> DEFINE f == Raised(c, e)
<1>2. /\ f \in Entry /\ f.fail <= failures' /\ f.ban <= hits'
      /\ ~manual' => (f.tier > 0 => failures' >= MaxFail)
      /\ ~manual' /\ ~guessed' => (f.active \/ f.tier > 0 =>
                                     hits' > FreeTriggers /\ hits' >= FreeTriggers + f.tier)
  BY RaisedIsDeserved
<1>3. \E g \in Entry : row' = {g} /\ g.fail = f.fail /\ g.ban = f.ban /\ g.tier = f.tier
                        /\ g.active = f.active
  <2> HIDE DEF f
  <2>1. CASE row' = {f}
    BY <1>2, <2>1
  <2>2. CASE \E r \in row : row' = {[f EXCEPT !.id = r.id]}
    <3>1. PICK r \in row : row' = {[f EXCEPT !.id = r.id]}
      BY <2>2
    <3>2. r.id \in Ids
      BY DEF GuardInv, BanTypeOK, Entry
    <3> DEFINE g == [f EXCEPT !.id = r.id]
    <3>3. f \in Entry
      BY <1>2
    <3>4. g \in Entry
      BY <3>2, <3>3 DEF Entry
    <3>5. g.fail = f.fail /\ g.ban = f.ban
      BY <3>3 DEF Entry
    <3>6. g.tier = f.tier /\ g.active = f.active
      BY <3>3 DEF Entry
    <3>7. row' = {g}
      BY <3>1
    <3> HIDE DEF g
    <3> QED
      BY <3>4, <3>5, <3>6, <3>7
  <2>3. SaveRow(f)
    BY <1>1 DEF f
  <2> QED
    BY <2>1, <2>2, <2>3 DEF SaveRow
<1> HIDE DEF f
<1>4. PICK g \in Entry : row' = {g} /\ g.fail = f.fail /\ g.ban = f.ban /\ g.tier = f.tier
                          /\ g.active = f.active
  BY <1>3
<1>5. hits' \in 0..FailCap /\ hits' >= hits /\ hits \in Nat
  BY BanAssumption DEF GuardInv, BanTypeOK, UpTo
<1>6. Return(c) /\ UNCHANGED <<failures, guessed, manual>>
  OBVIOUS
<1>7. BanTypeOK'
  <2>1. admitted' \in SUBSET Clients
    BY <1>1 DEF StillIn, Inside, GuardInv, BanTypeOK
  <2>2. row' \in SUBSET Entry /\ \A d, h \in row' : d = h
    BY <1>4
  <2>3. failures' \in 0..FailCap /\ guessed' \in BOOLEAN /\ manual' \in BOOLEAN
    BY <1>6 DEF GuardInv, BanTypeOK
  <2>4. \A d \in Clients : (at[d] = "save" <=> entry[d] # {})
    BY DEF GuardInv, BanTypeOK
  <2>5. \A d \in Clients : (at'[d] = "save" <=> entry'[d] # {})
    BY <1>6, <2>4, Returned
  <2> QED
    BY <1>5, <1>6, <2>1, <2>2, <2>3, <2>5, Returned DEF BanTypeOK
<1>8. RowInv'
  BY <1>2, <1>4 DEF RowInv, Deserved, Proven, Climbed
<1>9. ClientInv'
  <2>1. ASSUME NEW d \in Clients, NEW h \in entry[d]
        PROVE  ~h.active /\ Deserved(h)'
    <3>1. h \in Entry /\ h.ban \in Nat /\ h.tier \in Nat
      BY DEF GuardInv, BanTypeOK, Entry, TierCap
    <3>2. ~h.active /\ Deserved(h)
      BY DEF GuardInv, ClientInv
    <3> QED
      BY <1>5, <1>6, <3>1, <3>2, BanAssumption DEF Deserved, Proven, Climbed
  <2>2. failures \in Nat
    BY DEF GuardInv, BanTypeOK
  <2>3. \A d \in Clients : /\ count[d] <= failures /\ (at[d] = "save" => count[d] >= MaxFail)
                           /\ (~guessed => known[d])
    BY DEF GuardInv, ClientInv
  <2>4. ASSUME NEW d \in Clients
        PROVE  /\ count'[d] <= failures' /\ (at'[d] = "save" => count'[d] >= MaxFail)
               /\ (~guessed' => known'[d])
               /\ \A h \in entry'[d] : ~h.active /\ Deserved(h)'
    <3>1. CASE d = c
      <4>1. at'[c] # "save" /\ known'[c] /\ count'[c] = 0 /\ entry'[c] = {}
        BY <1>6, Returned
      <4> QED
        BY <1>6, <2>2, <3>1, <4>1
    <3>2. CASE d # c
      <4>1. at'[d] = at[d] /\ known'[d] = known[d] /\ count'[d] = count[d] /\ entry'[d] = entry[d]
        BY <1>6, <3>2, Returned
      <4>2. /\ count'[d] <= failures' /\ (at'[d] = "save" => count'[d] >= MaxFail)
            /\ (~guessed' => known'[d])
        BY <1>6, <2>3, <4>1
      <4> QED
        BY <2>1, <4>1, <4>2
    <3> QED
      BY <3>1, <3>2
  <2> QED
    BY <2>4 DEF ClientInv
<1>10. LateInv'
  <2>1. ASSUME Banned' PROVE admitted' = StillIn(Inside, c)
    BY <1>1, <1>4, <2>1 DEF Banned, f
  <2>2. c \in Inside
    BY DEF Inside
  <2>3. Inside' = IF c \in Sticky THEN Inside \union {c} ELSE Inside \ {c}
    BY <1>6, Returned
  <2>4. StillIn(Inside, c) = IF c \in Sticky THEN Inside ELSE Inside \ {c}
    BY DEF StillIn
  <2>5. Inside' = StillIn(Inside, c)
    BY <2>2, <2>3, <2>4
  <2> QED
    BY <2>1, <2>5 DEF LateInv
<1> QED
  BY <1>7, <1>8, <1>9, <1>10 DEF GuardInv

-----------------------------------------------------------------------------
\* An entry whose expires_at has passed is the entry, out of force.
LEMMA ExpiredEntry ==
  ASSUME NEW e \in Entry
  PROVE  /\ [e EXCEPT !.active = FALSE] \in Entry
         /\ [e EXCEPT !.active = FALSE].fail = e.fail
         /\ [e EXCEPT !.active = FALSE].ban = e.ban
         /\ [e EXCEPT !.active = FALSE].tier = e.tier
         /\ ~[e EXCEPT !.active = FALSE].active
<1>1. [e EXCEPT !.active = FALSE] \in Entry
  BY DEF Entry
<1>2. ~[e EXCEPT !.active = FALSE].active
  BY DEF Entry
<1>3. [e EXCEPT !.active = FALSE].fail = e.fail
  BY DEF Entry
<1>4. [e EXCEPT !.active = FALSE].ban = e.ban
  BY DEF Entry
<1>5. [e EXCEPT !.active = FALSE].tier = e.tier
  BY DEF Entry
<1> QED
  BY <1>1, <1>2, <1>3, <1>4, <1>5

LEMMA ExpireStep == ASSUME GuardInv, Expire PROVE GuardInv'
<1>1. \A f \in row' : f \in Entry /\ ~f.active /\
        \E e \in row : f = [e EXCEPT !.active = FALSE]
             /\ f.fail = e.fail /\ f.ban = e.ban /\ f.tier = e.tier
  <2> SUFFICES ASSUME NEW f \in row'
               PROVE  f \in Entry /\ ~f.active /\
                        \E e \in row : f = [e EXCEPT !.active = FALSE]
                             /\ f.fail = e.fail /\ f.ban = e.ban /\ f.tier = e.tier
    OBVIOUS
  <2>1. PICK e \in row : f = [e EXCEPT !.active = FALSE]
    BY DEF Expire
  <2>2. e \in Entry
    BY DEF GuardInv, BanTypeOK
  <2>3. /\ f \in Entry /\ ~f.active
        /\ f.fail = e.fail /\ f.ban = e.ban /\ f.tier = e.tier
    BY <2>1, <2>2, ExpiredEntry
  <2> QED
    BY <2>1, <2>3
<1>0. UNCHANGED <<at, known, count, entry, failures, hits, guessed, manual, admitted>>
  BY DEF Expire, attVars, histVars
<1>2. BanTypeOK'
  <2>1. row' \in SUBSET Entry /\ \A e, f \in row' : e = f
    <3>1. \A e, f \in row : e = f
      BY DEF GuardInv, BanTypeOK
    <3> QED
      BY <1>1, <3>1
  <2> QED
    BY <1>0, <2>1 DEF GuardInv, BanTypeOK
<1>3. RowInv'
  BY <1>0, <1>1 DEF GuardInv, BanTypeOK, RowInv, Deserved, Proven, Climbed
<1>4. ClientInv'
  BY <1>0 DEF GuardInv, ClientInv, Deserved, Proven, Climbed
<1>5. LateInv'
  BY <1>0, <1>1 DEF GuardInv, BanTypeOK, LateInv, Banned
<1> QED
  BY <1>2, <1>3, <1>4, <1>5 DEF GuardInv

LEMMA BanIPStep == ASSUME GuardInv, BanIP PROVE GuardInv'
<1> USE DEF BanIP, attVars
<1>1. PICK n \in Ids :
        row' = {[id |-> n, fail |-> 0, ban |-> 0, tier |-> MaxTier, active |-> TRUE]}
  OBVIOUS
<1>2. BanTypeOK'
  <2>1. 0 \in 0..FailCap /\ 0 \in 0..TierCap /\ MaxTier \in 0..MaxTier
    BY BanAssumption DEF TierCap
  <2>2. row' \in SUBSET Entry /\ \A e, f \in row' : e = f
    BY <1>1, <2>1 DEF Entry
  <2>3. admitted' \in SUBSET Clients
    BY DEF Inside
  <2> QED
    BY <2>2, <2>3 DEF GuardInv, BanTypeOK
<1>3. RowInv'
  <2>1. \A e \in row' : e.fail = 0 /\ e.ban = 0
    BY <1>1
  <2> QED
    BY <2>1 DEF GuardInv, BanTypeOK, RowInv, Deserved
<1>4. ClientInv'
  BY DEF GuardInv, ClientInv, Deserved, Proven, Climbed
<1>5. LateInv'
  BY DEF LateInv, Inside
<1> QED
  BY <1>2, <1>3, <1>4, <1>5 DEF GuardInv

LEMMA UnbanIPStep == ASSUME GuardInv, UnbanIP PROVE GuardInv'
<1> USE DEF UnbanIP, attVars
<1>1. BanTypeOK'
  BY DEF GuardInv, BanTypeOK
<1>2. RowInv' /\ LateInv'
  BY DEF RowInv, LateInv, Banned
<1>3. ClientInv'
  BY DEF GuardInv, ClientInv, Deserved, Proven, Climbed
<1> QED
  BY <1>1, <1>2, <1>3 DEF GuardInv

-----------------------------------------------------------------------------
LEMMA ClientStep == ASSUME GuardInv, NEW c \in Clients, Client(c) PROVE GuardInv'
<1>1. CASE RightPassword(c)
  BY <1>1, MovesOn DEF RightPassword, PC, histVars, GuardInv, BanTypeOK, ClientInv
<1>2. CASE CountFails(c)
  BY <1>2, JustReturns DEF CountFails
<1>3. CASE StopHere(c)
  BY <1>3, JustReturns DEF StopHere
<1>4. CASE SaveFails(c)
  BY <1>4, JustReturns DEF SaveFails
<1>5. CASE ResetFail(c)
  BY <1>5, JustReturns DEF ResetFail
<1> QED
  BY <1>1, <1>2, <1>3, <1>4, <1>5, AdmitStep, LeaveStep, WrongPasswordStep, CountUpdateStep,
     CountInsertStep, CountReadStep, ReadEntryStep, SaveEntryStep DEF Client, Record

LEMMA GuardStep == ASSUME GuardInv, [BanNext]_banVars PROVE GuardInv'
<1>1. CASE UNCHANGED banVars
  BY <1>1 DEF banVars, attVars, histVars, GuardInv, BanTypeOK, RowInv, ClientInv, LateInv, Inside, Banned,
              Deserved, Proven, Climbed
<1>2. CASE BanNext
  BY <1>2, ClientStep, ExpireStep, BanIPStep, UnbanIPStep DEF BanNext
<1> QED
  BY <1>1, <1>2

(* Every reachable state: the row and every copy of it that an attempt     *)
(* still holds is deserved, no attempt holds a copy of a ban in force, and *)
(* whoever is past the check of a ban in force was let in before it        *)
(* (RecordAuthFailure, IncrementFail, IsBanned, ResetFail).                *)
THEOREM GuardInvCorrect == BanSpec => []GuardInv
<1>1. BanInit => GuardInv
  BY GuardInit
<1>2. GuardInv /\ [BanNext]_banVars => GuardInv'
  BY GuardStep
<1> QED
  BY <1>1, <1>2, PTL DEF BanSpec

(* BanInv: no ban without as many counted failures as the threshold, and   *)
(* no tier without the hits it takes, for any clients and thresholds       *)
(* (RecordAuthFailure, stageDuration).                                     *)
THEOREM BanInvCorrect == BanSpec => []BanInv
<1>1. GuardInv => BanInv
  <2> SUFFICES ASSUME GuardInv PROVE BanInv
    OBVIOUS
  <2>1. TierIsEarned
    BY DEF GuardInv, RowInv, Deserved, Climbed, TierIsEarned
  <2>2. ThresholdHolds
    BY DEF GuardInv, RowInv, Deserved, Proven, ThresholdHolds
  <2> QED
    BY <2>1, <2>2 DEF GuardInv, BanInv
<1> QED
  BY <1>1, GuardInvCorrect, PTL

-----------------------------------------------------------------------------
Disturbs(e) ==
  \/ \E f \in row' : f.active /\ f.tier = e.tier
  \/ UNCHANGED at
  \/ \E c \in admitted : at[c] = "reset" /\ at'[c] # "reset"
  \/ \E c \in Clients : at[c] = "save" /\ at'[c] # "save" /\ \E f \in entry[c] : ~f.active

\* A step under a ban in force keeps it, or has one of the allowed reasons not to.
LEMMA BanIsKeptStep ==
  ASSUME GuardInv, [BanNext]_banVars, NEW e \in row, e.active
  PROVE  Disturbs(e)
<1>1. CASE row' = row \/ UNCHANGED at
  BY <1>1 DEF Disturbs
<1>2. ASSUME NEW c \in Clients, CountUpdate(c) PROVE Disturbs(e)
  <2>1. [e EXCEPT !.fail = UpTo(@ + 1, FailCap)] \in row'
    BY <1>2 DEF CountUpdate
  <2>2. e \in Entry
    BY DEF GuardInv, BanTypeOK
  <2>3. LET f == [e EXCEPT !.fail = UpTo(@ + 1, FailCap)] IN f.active /\ f.tier = e.tier
    BY <2>2 DEF Entry
  <2> QED
    BY <2>1, <2>3 DEF Disturbs
<1>3. ASSUME NEW c \in Clients, SaveEntry(c) PROVE Disturbs(e)
  <2>1. at[c] = "save" /\ at'[c] # "save"
    BY <1>3, Returned DEF SaveEntry
  <2>2. \E f \in entry[c] : ~f.active
    BY <1>3 DEF SaveEntry, GuardInv, ClientInv
  <2> QED
    BY <2>1, <2>2 DEF Disturbs
<1>4. ASSUME NEW c \in Clients, ResetFail(c) PROVE Disturbs(e)
  <2>1. at[c] = "reset" /\ at'[c] # "reset"
    BY <1>4, Returned DEF ResetFail
  <2>2. c \in admitted
    BY <2>1 DEF GuardInv, LateInv, Banned, Inside
  <2> QED
    BY <2>1, <2>2 DEF Disturbs
<1>5. ASSUME NEW c \in Clients, Client(c) PROVE row' = row \/ CountUpdate(c) \/ SaveEntry(c) \/ ResetFail(c)
  <2>1. row # {}
    OBVIOUS
  <2> QED
    BY <1>5, <2>1 DEF Client, Record, Admit, Leave, WrongPassword, RightPassword, CountInsert, CountRead,
                     CountFails, StopHere, ReadEntry, SaveFails, histVars
<1> QED
  BY <1>1, <1>2, <1>3, <1>4, <1>5 DEF BanNext, banVars, attVars, Expire, BanIP, UnbanIP

(* BanIsKept: however many attempts run at once, a ban in force is undone  *)
(* only by the administrator, its expiry, a login let in before it or      *)
(* after a failed query, or an attempt that read the entry before the ban  *)
(* (ResetFail, RecordAuthFailure, IncrementFail).                          *)
THEOREM BanIsKeptCorrect == BanSpec => BanIsKept
<1>1. GuardInv /\ [BanNext]_banVars =>
        [\A e \in row :
           e.active =>
             \/ \E f \in row' : f.active /\ f.tier = e.tier
             \/ UNCHANGED at
             \/ \E c \in admitted : at[c] = "reset" /\ at'[c] # "reset"
             \/ \E c \in Clients : at[c] = "save" /\ at'[c] # "save"
                                     /\ \E f \in entry[c] : ~f.active]_banVars
  BY BanIsKeptStep DEF Disturbs
<1> QED
  BY <1>1, GuardInvCorrect, PTL DEF BanSpec, BanIsKept

-----------------------------------------------------------------------------
(* The sessions and the users of the web interface.                        *)
Domains ==
  /\ DOMAIN pc = Requests /\ DOMAIN req = Requests
  /\ DOMAIN jar = Browsers /\ DOMAIN state = Browsers

LEMMA DomainsInit == Init => Domains
BY DEF Init, Domains

LEMMA DomainsStep == Domains /\ [Next]_vars => Domains'
<1> SUFFICES ASSUME Domains, [Next]_vars PROVE Domains'
  OBVIOUS
<1>1. ASSUME NEW r, NEW l, NEW q, Becomes(r, l, q)
      PROVE  DOMAIN pc' = DOMAIN pc /\ DOMAIN req' = DOMAIN req
  BY <1>1 DEF Becomes
<1>2. ASSUME NEW r \in Requests, Login(r) \/ OAuth2Start(r) \/ OAuth2Callback(r) \/ Reject(r)
                                  \/ Browse(r) \/ Mail(r) \/ Logout(r) \/ Settings(r) \/ Console(r)
      PROVE  Domains'
  <2>1. UNCHANGED <<jar, state>>
    BY <1>2 DEF Login, OAuth2Start, OAuth2Callback, Reject, Browse, Mail, Logout, Settings, Console,
       cookies
  <2>2. \E l, q : Becomes(r, l, q)
    BY <1>2 DEF Login, OAuth2Start, OAuth2Callback, Reject, Browse, Mail, Logout, Settings, Console,
       Replies
  <2> QED
    BY <1>1, <2>1, <2>2 DEF Domains
<1>3. ASSUME NEW r \in Requests, SetPassword(r) \/ Refused(r) \/ CreateUser(r) \/ DeleteUser(r)
                                  \/ UpdateUserRead(r) \/ UpdateUserSave(r)
      PROVE  Domains'
  <2>1. UNCHANGED <<jar, state>>
    BY <1>3 DEF SetPassword, Refused, CreateUser, DeleteUser, UpdateUserRead, UpdateUserSave, cookies
  <2>2. \E l, q : Becomes(r, l, q)
    BY <1>3 DEF SetPassword, Refused, CreateUser, DeleteUser, UpdateUserRead, UpdateUserSave, Replies, Done
  <2> QED
    BY <1>1, <2>1, <2>2 DEF Domains
<1>4. ASSUME NEW r \in Requests, Reply(r) PROVE Domains'
  <2>1. DOMAIN jar' = DOMAIN jar /\ DOMAIN state' = DOMAIN state
    BY <1>4 DEF Reply
  <2>2. Becomes(r, "idle", NoReq)
    BY <1>4 DEF Reply
  <2> QED
    BY <1>1, <2>1, <2>2 DEF Domains
<1>5. CASE Tick
  BY <1>5 DEF Tick, Domains
<1>6. CASE UNCHANGED vars
  BY <1>6 DEF vars, cookies, Domains
<1> QED
  BY <1>2, <1>3, <1>4, <1>5, <1>6 DEF Next, Request

\* A request that moves on is the only one that does.
LEMMA BecomesOne ==
  ASSUME Domains, NEW r \in Requests, NEW l, NEW q, Becomes(r, l, q)
  PROVE  /\ pc'[r] = l /\ req'[r] = q
         /\ \A s \in Requests : s # r => pc'[s] = pc[s] /\ req'[s] = req[s]
BY DEF Becomes, Domains

-----------------------------------------------------------------------------
(* A browser that is logged out has no cookie to send, so its requests are *)
(* logins, or were under way before.                                       *)
Harmless(q) == q.do \in {"login", "callback"} \/ (q.do # "logout" /\ q.set.sets = FALSE)

OutInv ==
  /\ out \subseteq Browsers /\ LoggedOut
  /\ \A r \in Requests : req[r].do = "logout" => req[r].set = Clear
  /\ \A r \in Requests : BrowserOf[r] \in out /\ pc[r] # "idle" /\ r \notin late =>
       pc[r] = "reply" /\ Harmless(req[r])

LEMMA OutInit == Init => OutInv
BY DEF Init, OutInv, LoggedOut, NoReq

\* A step of one request before its reply.
LEMMA OutRequest ==
  ASSUME Domains, OutInv, NEW r \in Requests, NEW l, NEW q, Becomes(r, l, q),
         UNCHANGED <<jar, out, late>>, q.do = "logout" => q.set = Clear,
         BrowserOf[r] \in out /\ r \notin late => l = "reply" /\ Harmless(q)
  PROVE  OutInv'
<1>1. /\ pc'[r] = l /\ req'[r] = q
      /\ \A s \in Requests : s # r => pc'[s] = pc[s] /\ req'[s] = req[s]
  BY BecomesOne
<1> QED
  BY <1>1 DEF OutInv, LoggedOut

LEMMA OutReply ==
  ASSUME Domains, OutInv, NEW r \in Requests, Reply(r)
  PROVE  OutInv'
<1> DEFINE b == BrowserOf[r]
<1> b \in Browsers
  BY SessionAssumption
<1>1. /\ pc[r] = "reply" /\ Becomes(r, "idle", NoReq)
      /\ jar' = [jar EXCEPT ![b] = Applied(@, req[r].set)]
  BY DEF Reply
<1>2. /\ pc'[r] = "idle" /\ req'[r] = NoReq
      /\ \A s \in Requests : s # r => pc'[s] = pc[s] /\ req'[s] = req[s]
  BY <1>1, BecomesOne
<1>3. /\ jar'[b] = IF req[r].set.sets THEN req[r].set.to ELSE jar[b]
      /\ \A c \in Browsers : c # b => jar'[c] = jar[c]
  BY <1>1 DEF Domains, Applied
<1>4. \A s \in Requests : req'[s].do = "logout" => req'[s].set = Clear
  BY <1>2 DEF OutInv, NoReq
<1>5. CASE req[r].do = "logout"
  <2>1. /\ out' = out \union {b}
        /\ late' = (late \ {r}) \union {q \in Requests \ {r} : BrowserOf[q] = b /\ pc[q] # "idle"}
    BY <1>5 DEF Reply
  <2>2. jar'[b] = {}
    BY <1>3, <1>5 DEF OutInv, Clear
  <2> QED
    BY <1>2, <1>3, <1>4, <2>1, <2>2 DEF OutInv, LoggedOut
<1>6. CASE req[r].do # "logout"
  <2>1. /\ late' = late \ {r}
        /\ out' = out \ (IF r \in late \/ req[r].do \in {"login", "callback"}
                           THEN {k \in {b} : req[r].set.sets} ELSE {})
    BY <1>6 DEF Reply
  <2>2. out' \subseteq out /\ (b \in out' => jar'[b] = {})
    BY <1>1, <1>3, <2>1 DEF OutInv, LoggedOut, Harmless
  <2> QED
    BY <1>2, <1>3, <1>4, <2>1, <2>2 DEF OutInv, LoggedOut
<1> QED
  BY <1>5, <1>6

LEMMA OutStep == Domains /\ OutInv /\ [Next]_vars => OutInv'
<1> SUFFICES ASSUME Domains, OutInv, [Next]_vars PROVE OutInv'
  OBVIOUS
<1> USE DEF cookieHistory, cookies
<1>1. ASSUME NEW r \in Requests, NEW c, Sends(r, c) PROVE BrowserOf[r] \notin out
  BY <1>1 DEF Sends, OutInv, LoggedOut
<1>2. ASSUME NEW r \in Requests, Request(r) PROVE OutInv'
  <2>1. CASE Login(r)
    BY <2>1, OutRequest DEF Login, Replies, Harmless, NoReq
  <2>2. CASE OAuth2Start(r)
    BY <2>2, OutRequest DEF OAuth2Start, Harmless, NoReq, Keep
  <2>3. CASE OAuth2Callback(r)
    BY <2>3, OutRequest DEF OAuth2Callback, Harmless, NoReq
  <2>4. CASE Reject(r) \/ Browse(r) \/ Mail(r) \/ Logout(r)
    BY <1>1, <2>4, OutRequest DEF Reject, Browse, Mail, Logout, Replies, NoReq
  <2>5. CASE Settings(r) \/ Console(r)
    BY <1>1, <2>5, OutRequest DEF Settings, Console, Working
  <2>6. CASE UpdateUserRead(r)
    <3>1. BrowserOf[r] \notin out \/ r \in late
      BY <2>6 DEF UpdateUserRead, OutInv
    <3> QED
      BY <2>6, <3>1, OutRequest DEF UpdateUserRead, Working
  <2>7. CASE SetPassword(r) \/ Refused(r) \/ CreateUser(r) \/ DeleteUser(r) \/ UpdateUserSave(r)
    <3>1. pc[r] \in {"settings", "console", "save"} /\ Done(r) /\ UNCHANGED <<jar, out, late>>
      BY <2>7 DEF SetPassword, Refused, CreateUser, DeleteUser, UpdateUserSave
    <3>2. BrowserOf[r] \notin out \/ r \in late
      BY <3>1 DEF OutInv
    <3> QED
      BY <3>1, <3>2, OutRequest DEF Done, Replies, NoReq
  <2>8. CASE Reply(r)
    BY <2>8, OutReply
  <2> QED
    BY <1>2, <2>1, <2>2, <2>3, <2>4, <2>5, <2>6, <2>7, <2>8 DEF Request
<1>3. CASE Tick
  BY <1>3 DEF Tick, OutInv, LoggedOut, Domains
<1>4. CASE UNCHANGED vars
  BY <1>4 DEF vars, OutInv, LoggedOut
<1> QED
  BY <1>2, <1>3, <1>4 DEF Next

(* DoLogout, AuthMiddleware: a browser that has seen the reply to its      *)
(* logout has no session until it logs in again, or a request that was     *)
(* under way at that time is answered.                                     *)
THEOREM LoggedOutCorrect == Spec => []LoggedOut
<1>1. OutInv => LoggedOut
  BY DEF OutInv
<1> QED
  BY <1>1, DomainsInit, DomainsStep, OutInit, OutStep, PTL DEF Spec

-----------------------------------------------------------------------------
(* The steps that write a row of the users table, or take a copy of one.   *)
Writes(r) ==
  SetPassword(r) \/ CreateUser(r) \/ DeleteUser(r) \/ UpdateUserRead(r) \/ UpdateUserSave(r)
    \/ Settings(r)

Copies == {"settings", "save"}

Quiet ==
  /\ UNCHANGED <<data, rowHistory>>
  /\ \A s \in Requests : pc'[s] \in Copies => pc[s] = pc'[s] /\ req[s] = req'[s]

LEMMA Steps ==
  ASSUME Domains, [Next]_vars
  PROVE  Quiet \/ \E r \in Requests : Writes(r)
<1> USE DEF data, rowHistory, NoReq
<1>1. ASSUME NEW r \in Requests, NEW l, NEW q, Becomes(r, l, q), l # "settings", l # "save",
             UNCHANGED <<data, rowHistory>>
      PROVE  Quiet
  BY <1>1, BecomesOne DEF Quiet, Copies
<1>2. ASSUME NEW r \in Requests, Request(r), ~ Writes(r) PROVE Quiet
  <2>1. CASE Login(r) \/ OAuth2Start(r) \/ OAuth2Callback(r)
    BY <1>1, <2>1 DEF Login, OAuth2Start, OAuth2Callback, Replies
  <2>2. CASE Reject(r) \/ Browse(r) \/ Mail(r) \/ Logout(r)
    BY <1>1, <2>2 DEF Reject, Browse, Mail, Logout, Replies
  <2>3. CASE Console(r) \/ Refused(r)
    BY <1>1, <2>3 DEF Console, Refused, Done, Replies
  <2>4. CASE Reply(r)
    BY <1>1, <2>4 DEF Reply
  <2> QED
    BY <1>2, <2>1, <2>2, <2>3, <2>4 DEF Request, Writes
<1>3. CASE Tick \/ UNCHANGED vars
  BY <1>3 DEF Tick, vars, Quiet, Copies, data, rowHistory
<1> QED
  BY <1>2, <1>3 DEF Next

\* What UpdateUser has read, and the form it has filled in.
Form(u, active, admin) == [rows[u] EXCEPT !.active = active, !.admin = admin]

Under(r, do, u, form) == Working(do, req[r].user, {<<u, form>>}, req[r].set)

Reads(r, u, active, admin) ==
  LET form == Form(u, active, admin)
  IN \/ Becomes(r, "save", Under(r, "save", u, form)) /\ UNCHANGED passwords
     \/ NewPassword /\ Becomes(r, "save", Under(r, "reset", u, Reset(form)))

LEMMA UpdateUserReads ==
  ASSUME NEW r \in Requests, UpdateUserRead(r)
  PROVE  /\ \E u \in Rows, active \in BOOLEAN, admin \in BOOLEAN : Reads(r, u, active, admin)
         /\ pc[r] = "console" /\ UNCHANGED <<rows, born, cookies, rowHistory, cookieHistory>>
BY DEF UpdateUserRead, Reads, Form, Under

\* The rows after a write.
LEMMA WithRow ==
  ASSUME NEW u, NEW val, rows' = With(u, val)
  PROVE  /\ Rows' = Rows \union {u} /\ rows'[u] = val
         /\ \A v \in Rows : v # u => rows'[v] = rows[v]
BY DEF With, Rows

LEMMA AckedRow ==
  ASSUME NEW u, NEW val, acked' = Acked(u, val)
  PROVE  /\ DOMAIN acked' = DOMAIN acked \union {u} /\ acked'[u] = val
         /\ \A v \in DOMAIN acked : v # u => acked'[v] = acked[v]
BY DEF Acked

-----------------------------------------------------------------------------
(* Rows and copies of rows have the columns of the table.                  *)
Columns == {"active", "admin", "must", "pw"}

LEMMA ExceptOne ==
  ASSUME NEW f, NEW k, NEW x
  PROVE  LET g == [f EXCEPT ![k] = x]
         IN /\ DOMAIN g = DOMAIN f
            /\ k \in DOMAIN f => g[k] = x
            /\ \A j \in DOMAIN f : j # k => g[j] = f[j]
OBVIOUS

\* A row with a new password, and with what the form of the user page says.
LEMMA NewSecret ==
  ASSUME NEW f, DOMAIN f = Columns, NEW p, NEW m
  PROVE  LET g == [f EXCEPT !.pw = p, !.must = m]
         IN /\ DOMAIN g = Columns
            /\ g.pw = p /\ g.must = m /\ g.active = f.active /\ g.admin = f.admin
<1> DEFINE e == [f EXCEPT !.pw = p]
           g == [e EXCEPT !.must = m]
<1>1. /\ DOMAIN e = Columns /\ e["pw"] = p
      /\ \A j \in Columns : j # "pw" => e[j] = f[j]
  BY ExceptOne DEF Columns
<1>2. /\ DOMAIN g = DOMAIN e /\ ("must" \in DOMAIN e => g["must"] = m)
      /\ \A j \in DOMAIN e : j # "must" => g[j] = e[j]
  <2> HIDE DEF e
  <2> QED
    BY ExceptOne
<1>3. /\ DOMAIN g = Columns /\ g["must"] = m
      /\ \A j \in Columns : j # "must" => g[j] = e[j]
  <2> HIDE DEF e, g
  <2> QED
    BY <1>1, <1>2 DEF Columns
<1> QED
  <2> HIDE DEF e, g
  <2>1. /\ DOMAIN g = Columns
        /\ g.pw = p /\ g.must = m /\ g.active = f.active /\ g.admin = f.admin
    BY <1>1, <1>3 DEF Columns
  <2> QED
    BY <2>1 DEF e, g

LEMMA NewRights ==
  ASSUME NEW f, DOMAIN f = Columns, NEW a, NEW d
  PROVE  LET g == [f EXCEPT !.active = a, !.admin = d]
         IN /\ DOMAIN g = Columns
            /\ g.active = a /\ g.admin = d /\ g.pw = f.pw /\ g.must = f.must
<1> DEFINE e == [f EXCEPT !.active = a]
           g == [e EXCEPT !.admin = d]
<1>1. /\ DOMAIN e = Columns /\ e["active"] = a
      /\ \A j \in Columns : j # "active" => e[j] = f[j]
  BY ExceptOne DEF Columns
<1>2. /\ DOMAIN g = DOMAIN e /\ ("admin" \in DOMAIN e => g["admin"] = d)
      /\ \A j \in DOMAIN e : j # "admin" => g[j] = e[j]
  <2> HIDE DEF e
  <2> QED
    BY ExceptOne
<1>3. /\ DOMAIN g = Columns /\ g["admin"] = d
      /\ \A j \in Columns : j # "admin" => g[j] = e[j]
  <2> HIDE DEF e, g
  <2> QED
    BY <1>1, <1>2 DEF Columns
<1> QED
  <2> HIDE DEF e, g
  <2>1. /\ DOMAIN g = Columns
        /\ g.active = a /\ g.admin = d /\ g.pw = f.pw /\ g.must = f.must
    BY <1>1, <1>3 DEF Columns
  <2> QED
    BY <2>1 DEF e, g

\* A form that is saved, perhaps as a new row.
LEMMA SavedForm ==
  ASSUME NEW u, NEW form, DOMAIN form = Columns
  PROVE  LET new == Saved(u, form)
         IN /\ DOMAIN new = Columns
            /\ new.admin = form.admin /\ new.pw = form.pw /\ new.must = form.must
<1> DEFINE e == [form EXCEPT !.active = TRUE]
<1>1. DOMAIN e = Columns /\ \A j \in Columns : j # "active" => e[j] = form[j]
  BY ExceptOne DEF Columns
<1> HIDE DEF e
<1>2. e.admin = form.admin /\ e.pw = form.pw /\ e.must = form.must
  BY <1>1 DEF Columns
<1>3. Saved(u, form) = form \/ Saved(u, form) = e
  BY DEF Saved, e
<1> QED
  BY <1>1, <1>2, <1>3

Shaped ==
  /\ \A u \in Rows : DOMAIN rows[u] = Columns
  /\ \A r \in Requests : pc[r] = "save" =>
       \A f \in req[r].copy : DOMAIN f[2] = Columns

LEMMA ShapedInit == Init => Shaped
BY DEF Init, Shaped, Columns, Rows

LEMMA ShapedRow ==
  ASSUME Shaped, NEW u, NEW val, DOMAIN val = Columns, rows' = With(u, val)
  PROVE  \A v \in Rows' : DOMAIN rows'[v] = Columns
<1>1. \A v \in Rows' : v = u \/ v \in Rows
  BY WithRow
<1>2. \A v \in Rows : v # u => DOMAIN rows'[v] = Columns
  BY WithRow DEF Shaped
<1> QED
  BY <1>1, <1>2, WithRow

LEMMA ShapedStep == Domains /\ Shaped /\ [Next]_vars => Shaped'
<1> SUFFICES ASSUME Domains, Shaped, [Next]_vars PROVE Shaped'
  OBVIOUS
<1>1. CASE Quiet
  BY <1>1 DEF Quiet, Shaped, data, Copies, Rows
<1>2. ASSUME NEW r \in Requests, Writes(r) PROVE Shaped'
  <2>1. ASSUME NEW l, NEW q, Becomes(r, l, q), l # "save",
               \A u \in Rows' : DOMAIN rows'[u] = Columns
        PROVE  Shaped'
    BY <2>1, BecomesOne DEF Shaped
  <2>2. CASE SetPassword(r)
    <3>1. ASSUME NEW c, NEW new, req[r].user \in Rows,
                 rows' = With(req[r].user, Stored(req[r].user, c, new))
          PROVE  \A u \in Rows' : DOMAIN rows'[u] = Columns
      <4>1. DOMAIN Stored(req[r].user, c, new) = Columns
        BY <3>1, NewSecret DEF Stored, Shaped
      <4> QED
        BY <3>1, <4>1, ShapedRow
    <3>2. \A u \in Rows' : DOMAIN rows'[u] = Columns
      BY <2>2, <3>1 DEF SetPassword, Shaped, Rows
    <3> QED
      BY <2>1, <2>2, <3>2 DEF SetPassword, Done, Replies
  <2>3. CASE CreateUser(r)
    <3>1. PICK u \in Users \ born, admin \in BOOLEAN :
            rows' = With(u, [active |-> TRUE, admin |-> admin, must |-> FALSE, pw |-> passwords'])
      BY <2>3 DEF CreateUser
    <3>2. \A v \in Rows' : DOMAIN rows'[v] = Columns
      BY <3>1, ShapedRow DEF Columns
    <3> QED
      BY <2>1, <2>3, <3>2 DEF CreateUser, Done, Replies
  <2>4. CASE DeleteUser(r)
    BY <2>1, <2>4 DEF DeleteUser, Done, Replies, Shaped, Rows
  <2>5. CASE UpdateUserRead(r)
    <3>1. UNCHANGED rows
      BY <2>5 DEF UpdateUserRead
    <3>2. ASSUME NEW do, NEW u, NEW form, DOMAIN form = Columns,
                 Becomes(r, "save", Under(r, do, u, form))
          PROVE  Shaped'
      <4>1. /\ pc'[r] = "save" /\ req'[r].copy = {<<u, form>>}
            /\ \A s \in Requests : s # r => pc'[s] = pc[s] /\ req'[s] = req[s]
        BY <3>2, BecomesOne DEF Under, Working
      <4> QED
        BY <3>1, <3>2, <4>1 DEF Shaped, Rows
    <3>3. PICK u \in Rows, active \in BOOLEAN, admin \in BOOLEAN : Reads(r, u, active, admin)
      BY <2>5, UpdateUserReads
    <3>4. DOMAIN Form(u, active, admin) = Columns
      BY <3>3, NewRights DEF Form, Shaped
    <3>5. ASSUME NEW f, DOMAIN f = Columns PROVE DOMAIN Reset(f) = Columns
      BY <3>5, NewSecret DEF Reset
    <3> QED
      BY <3>2, <3>3, <3>4, <3>5 DEF Reads
  <2>6. CASE UpdateUserSave(r)
    <3>1. PICK f \in req[r].copy : rows' = With(f[1], Saved(f[1], f[2]))
      BY <2>6 DEF UpdateUserSave
    <3>2. DOMAIN Saved(f[1], f[2]) = Columns
      BY <2>6, SavedForm DEF Shaped, UpdateUserSave
    <3>3. \A v \in Rows' : DOMAIN rows'[v] = Columns
      BY <3>1, <3>2, ShapedRow
    <3> QED
      BY <2>1, <2>6, <3>3 DEF UpdateUserSave, Done, Replies
  <2>7. CASE Settings(r)
    BY <2>1, <2>7 DEF Settings, Shaped, data, Rows
  <2> QED
    BY <1>2, <2>2, <2>3, <2>4, <2>5, <2>6, <2>7 DEF Writes
<1> QED
  BY <1>1, <1>2, Steps

\* A step of one request that takes no copy of a row.
LEMMA NoCopy ==
  ASSUME Domains, NEW r \in Requests, SetPassword(r) \/ CreateUser(r) \/ DeleteUser(r)
                                        \/ UpdateUserSave(r) \/ Settings(r)
  PROVE  \A s \in Requests : pc'[s] = "save" => pc[s] = "save" /\ req'[s] = req[s]
<1>1. ASSUME NEW l, NEW q, Becomes(r, l, q), l # "save"
      PROVE  \A s \in Requests : pc'[s] = "save" => pc[s] = "save" /\ req'[s] = req[s]
  BY <1>1, BecomesOne
<1> QED
  BY <1>1 DEF SetPassword, CreateUser, DeleteUser, UpdateUserSave, Settings, Done, Replies

LEMMA OneCopy ==
  ASSUME Domains, NEW r \in Requests, UpdateUserRead(r)
  PROVE  /\ \A s \in Requests : s # r => pc'[s] = pc[s] /\ req'[s] = req[s]
         /\ UNCHANGED <<rows, born, rowHistory>>
         /\ \E u \in Rows, active \in BOOLEAN, admin \in BOOLEAN :
              \/ /\ req'[r] = Under(r, "save", u, Form(u, active, admin))
                 /\ passwords' = passwords
              \/ /\ req'[r] = Under(r, "reset", u, Reset(Form(u, active, admin)))
                 /\ NewPassword
<1>1. /\ pc[r] = "console" /\ UNCHANGED <<rows, born, rowHistory>>
      /\ \E u \in Rows, active \in BOOLEAN, admin \in BOOLEAN : Reads(r, u, active, admin)
  BY UpdateUserReads
<1>2. ASSUME NEW q, Becomes(r, "save", q)
      PROVE  /\ req'[r] = q
             /\ \A s \in Requests : s # r => pc'[s] = pc[s] /\ req'[s] = req[s]
  BY <1>2, BecomesOne
<1> QED
  BY <1>1, <1>2 DEF Reads

-----------------------------------------------------------------------------
(* Identifiers are of users that were born, and none is given out twice.   *)
GoneInv ==
  /\ GoneStaysGone /\ Rows \subseteq born /\ gone \subseteq born
  /\ \A r \in Requests : pc[r] = "save" => \A f \in req[r].copy : f[1] \in born

LEMMA GoneInit == Init => GoneInv
BY DEF Init, GoneInv, GoneStaysGone

LEMMA GoneStep == Domains /\ GoneInv /\ [Next]_vars => GoneInv'
<1> SUFFICES ASSUME Domains, GoneInv, [Next]_vars PROVE GoneInv'
  OBVIOUS
<1> USE DEF rowHistory, data
<1>1. CASE Quiet
  BY <1>1 DEF Quiet, GoneInv, GoneStaysGone, Copies, Rows
<1>2. ASSUME NEW r \in Requests, Writes(r) PROVE GoneInv'
  <2>1. CASE SetPassword(r)
    <3>1. Rows' = Rows /\ UNCHANGED <<born, gone, revived>>
      <4>1. ASSUME NEW u \in Rows, NEW val, rows' = With(u, val) PROVE Rows' = Rows
        BY <4>1, WithRow
      <4>2. ASSUME UNCHANGED rows PROVE Rows' = Rows
        BY <4>2 DEF Rows
      <4> QED
        BY <2>1, <4>1, <4>2 DEF SetPassword
    <3> QED
      BY <2>1, <3>1, NoCopy DEF GoneInv, GoneStaysGone
  <2>2. CASE CreateUser(r)
    <3>1. PICK u \in Users \ born, admin \in BOOLEAN :
            /\ rows' = With(u, [active |-> TRUE, admin |-> admin, must |-> FALSE,
                                pw |-> passwords'])
            /\ born' = born \union {u} /\ UNCHANGED <<gone, revived>>
      BY <2>2 DEF CreateUser
    <3>2. Rows' = Rows \union {u}
      BY <3>1, WithRow
    <3> QED
      BY <2>2, <3>1, <3>2, NoCopy DEF GoneInv, GoneStaysGone
  <2>3. CASE DeleteUser(r)
    <3>1. PICK u \in Rows : /\ Rows' = Rows \ {u} /\ gone' = gone \union {u}
                            /\ revived' = revived \ {u} /\ UNCHANGED born
      BY <2>3 DEF DeleteUser, Rows
    <3> QED
      BY <2>3, <3>1, NoCopy DEF GoneInv, GoneStaysGone
  <2>4. CASE UpdateUserRead(r)
    <3>1. \A f \in req'[r].copy : f[1] \in Rows
      <4>1. \E u \in Rows : \E do, form : req'[r] = Under(r, do, u, form)
        BY <2>4, OneCopy
      <4> QED
        BY <4>1 DEF Under, Working
    <3>2. \A s \in Requests : pc'[s] = "save" => \A f \in req'[s].copy : f[1] \in born
      BY <2>4, <3>1, OneCopy DEF GoneInv
    <3> QED
      BY <2>4, <3>2, OneCopy DEF GoneInv, GoneStaysGone, Rows
  <2>5. CASE UpdateUserSave(r)
    <3>1. PICK f \in req[r].copy :
            /\ rows' = With(f[1], Saved(f[1], f[2]))
            /\ revived' = IF f[1] \in Rows THEN revived ELSE revived \union {f[1]}
      BY <2>5 DEF UpdateUserSave
    <3>2. f[1] \in born /\ UNCHANGED <<born, gone>>
      BY <2>5 DEF UpdateUserSave, GoneInv
    <3> QED
      BY <2>5, <3>1, <3>2, WithRow, NoCopy DEF GoneInv, GoneStaysGone
  <2>6. CASE Settings(r)
    BY <2>6, NoCopy DEF Settings, GoneInv, GoneStaysGone, Rows
  <2> QED
    BY <1>2, <2>1, <2>2, <2>3, <2>4, <2>5, <2>6 DEF Writes
<1> QED
  BY <1>1, <1>2, Steps

(* DeleteUser, CreateUser, Update: whoever has a deleted user's identifier *)
(* was brought back by an UpdateUser that had read his row.                *)
THEOREM GoneStaysGoneCorrect == Spec => []GoneStaysGone
<1>1. GoneInv => GoneStaysGone
  BY DEF GoneInv
<1> QED
  BY <1>1, DomainsInit, DomainsStep, GoneInit, GoneStep, PTL DEF Spec

-----------------------------------------------------------------------------
(* A step that takes the last administrator away is taken by one who is    *)
(* another active administrator, and stays.                                *)
LEMMA AdminInit == Init => AdminRemains
BY DEF Init, AdminRemains, Rules, Rows

LEMMA AdminStep == Domains /\ Shaped /\ GoneInv /\ AdminRemains /\ [Next]_vars => AdminRemains'
<1> SUFFICES ASSUME Domains, Shaped, GoneInv, AdminRemains, [Next]_vars PROVE AdminRemains'
  OBVIOUS
<1> USE DEF rowHistory, data
<1>1. CASE UNCHANGED <<rows, resigned>>
  BY <1>1 DEF AdminRemains, Rules, Rows
<1>2. ASSUME NEW u, NEW val, rows' = With(u, val), resigned => resigned',
             u \in Rows /\ rows[u].admin /\ rows[u].active => val.admin /\ val.active
      PROVE  AdminRemains'
  BY <1>2, WithRow DEF AdminRemains, Rules
<1>3. ASSUME NEW r \in Requests, Writes(r) PROVE AdminRemains'
  <2>1. CASE SetPassword(r)
    <3>1. ASSUME NEW u \in Rows, NEW c, NEW new
          PROVE  Stored(u, c, new).admin = rows[u].admin /\ Stored(u, c, new).active = rows[u].active
      BY NewSecret DEF Stored, Shaped
    <3> QED
      BY <1>1, <1>2, <2>1, <3>1 DEF SetPassword
  <2>2. CASE CreateUser(r)
    BY <1>2, <2>2 DEF CreateUser, GoneInv
  <2>3. CASE DeleteUser(r)
    <3>1. PICK u \in Rows : /\ rows' = [v \in Rows \ {u} |-> rows[v]] /\ Removes(r, u)
      BY <2>3 DEF DeleteUser
    <3>2. ~ resigned' => Rules(req[r].user) /\ u # req[r].user
      BY <3>1 DEF Removes
    <3> QED
      BY <3>1, <3>2 DEF AdminRemains, Rules, Rows
  <2>4. CASE UpdateUserRead(r) \/ Settings(r)
    BY <1>1, <2>4, OneCopy DEF Settings
  <2>5. CASE UpdateUserSave(r)
    <3>1. PICK f \in req[r].copy :
            LET new == Saved(f[1], f[2])
            IN /\ rows' = With(f[1], new)
               /\ IF new.admin /\ new.active THEN UNCHANGED resigned ELSE Removes(r, f[1])
      BY <2>5 DEF UpdateUserSave
    <3>2. CASE Saved(f[1], f[2]).admin /\ Saved(f[1], f[2]).active
      BY <1>2, <3>1, <3>2
    <3>3. CASE Removes(r, f[1])
      <4>0. PICK u : u = req[r].user
        OBVIOUS
      <4>1. ~ resigned' => Rules(u) /\ f[1] # u
        BY <3>3, <4>0 DEF Removes
      <4>2. CASE resigned'
        BY <4>2 DEF AdminRemains
      <4>3. CASE ~ resigned'
        <5>1. u \in Rows' /\ rows'[u] = rows[u]
          BY <3>1, <4>1, <4>3, WithRow DEF Rules
        <5>2. Rules(u)'
          BY <4>1, <4>3, <5>1 DEF Rules
        <5> QED
          BY <5>1, <5>2 DEF AdminRemains
      <4> QED
        BY <4>2, <4>3
    <3> QED
      BY <3>1, <3>2, <3>3
  <2> QED
    BY <1>3, <2>1, <2>2, <2>3, <2>4, <2>5 DEF Writes
<1> QED
  BY <1>1, <1>3, Steps DEF Quiet

(* DeleteUser, UpdateUser, AdminMiddleware: the last active administrator  *)
(* goes only by his own hand, or by that of one who was one before.        *)
THEOREM AdminRemainsCorrect == Spec => []AdminRemains
BY DomainsInit, DomainsStep, ShapedInit, ShapedStep, GoneInit, GoneStep, AdminInit, AdminStep,
   PTL DEF Spec

-----------------------------------------------------------------------------
(* What the last change of a row said is recorded for every row.           *)
ChangeInv == Rows \subseteq DOMAIN acked /\ ChangeStands

LEMMA ChangeInit == Init => ChangeInv
BY DEF Init, ChangeInv, ChangeStands, Rows

LEMMA ChangeRow ==
  ASSUME ChangeInv, NEW u, NEW val, NEW meant, rows' = With(u, val), acked' = Acked(u, meant),
         u \notin stale' => val = meant, stale \ {u} \subseteq stale'
  PROVE  ChangeInv'
<1>1. /\ Rows' = Rows \union {u} /\ rows'[u] = val
      /\ \A v \in Rows : v # u => rows'[v] = rows[v]
  BY WithRow
<1>2. /\ DOMAIN acked' = DOMAIN acked \union {u} /\ acked'[u] = meant
      /\ \A v \in DOMAIN acked : v # u => acked'[v] = acked[v]
  BY AckedRow
<1> QED
  BY <1>1, <1>2 DEF ChangeInv, ChangeStands

LEMMA ChangeStep == Domains /\ ChangeInv /\ [Next]_vars => ChangeInv'
<1> SUFFICES ASSUME Domains, ChangeInv, [Next]_vars PROVE ChangeInv'
  OBVIOUS
<1> USE DEF rowHistory, data
<1>1. CASE UNCHANGED <<rows, acked, stale>>
  BY <1>1 DEF ChangeInv, ChangeStands, Rows
<1>2. ASSUME NEW r \in Requests, Writes(r) PROVE ChangeInv'
  <2>1. CASE SetPassword(r)
    <3>1. ASSUME NEW u \in Rows, NEW c, NEW new,
                 rows' = With(u, Stored(u, c, new)), UNCHANGED stale,
                 acked' = Acked(u, [acked[u] EXCEPT !.pw = new, !.must = FALSE])
          PROVE  ChangeInv'
      <4>1. u \notin stale' => rows[u] = acked[u]
        BY <3>1 DEF ChangeInv, ChangeStands
      <4>2. u \notin stale' => Stored(u, c, new) = [acked[u] EXCEPT !.pw = new, !.must = FALSE]
        BY <4>1 DEF Stored
      <4> QED
        BY <3>1, <4>2, ChangeRow
    <3> QED
      BY <1>1, <2>1, <3>1 DEF SetPassword
  <2>2. CASE CreateUser(r)
    BY <2>2, ChangeRow DEF CreateUser
  <2>3. CASE DeleteUser(r)
    BY <2>3 DEF DeleteUser, ChangeInv, ChangeStands, Rows
  <2>4. CASE UpdateUserRead(r) \/ Settings(r)
    BY <1>1, <2>4, OneCopy DEF Settings
  <2>5. CASE UpdateUserSave(r)
    <3>1. PICK f \in req[r].copy :
            LET u == f[1]
                new == Saved(u, f[2])
                meant == IF u \in Rows /\ req[r].do = "save"
                         THEN [rows[u] EXCEPT !.active = f[2].active, !.admin = f[2].admin]
                         ELSE f[2]
            IN /\ rows' = With(u, new) /\ acked' = Acked(u, meant)
               /\ stale' = IF new = meant THEN stale \ {u} ELSE stale \union {u}
      BY <2>5 DEF UpdateUserSave
    <3> QED
      BY <3>1, ChangeRow
  <2> QED
    BY <1>2, <2>1, <2>2, <2>3, <2>4, <2>5 DEF Writes
<1> QED
  BY <1>1, <1>2, Steps DEF Quiet

(* UpdatePassword, UpdateUser, Update: a row is what the last change of it *)
(* said, unless it was saved from an older copy.                           *)
THEOREM ChangeStandsCorrect == Spec => []ChangeStands
<1>1. ChangeInv => ChangeStands
  BY DEF ChangeInv
<1> QED
  BY <1>1, DomainsInit, DomainsStep, ChangeInit, ChangeStep, PTL DEF Spec

-----------------------------------------------------------------------------
(* No row, nor another copy of one, has the password of a reset that has   *)
(* not been saved: it is newer than every password that was known then.    *)
due == temporary \ created

held ==
  [s \in Requests |->
     IF pc[s] = "settings" THEN {c.pw : c \in req[s].copy}
     ELSE IF pc[s] = "save" THEN {f[2].pw : f \in req[s].copy} ELSE {}]

Known ==
  /\ passwords \in Nat
  /\ \A u \in Rows : rows[u].pw \in 0..passwords
  /\ \A u, p : <<u, p>> \in due => p \in 0..passwords
  /\ \A s \in Requests : held[s] \subseteq 0..passwords

Pending ==
  \A r \in Requests : pc[r] = "save" /\ req[r].do = "reset" =>
    \A f \in req[r].copy :
      /\ f[2].must
      /\ \A u \in Rows : rows[u].pw # f[2].pw
      /\ \A u : <<u, f[2].pw>> \notin due
      /\ \A s \in Requests : s # r => f[2].pw \notin held[s]

Careful ==
  \A r \in Requests : pc[r] = "save" =>
    \A f \in req[r].copy : <<f[1], f[2].pw>> \in due => f[2].must

Marked == \A u \in Rows : <<u, rows[u].pw>> \in due => rows[u].must

TempInv == Known /\ Pending /\ Careful /\ Marked

LEMMA HeldSave ==
  ASSUME NEW r \in Requests, pc[r] = "save", NEW f \in req[r].copy
  PROVE  f[2].pw \in held[r]
BY DEF held

LEMMA HeldOne ==
  ASSUME Domains, NEW r \in Requests, NEW l, NEW q, Becomes(r, l, q)
  PROVE  /\ \A s \in Requests : s # r => held'[s] = held[s]
         /\ held'[r] = IF l = "settings" THEN {c.pw : c \in q.copy}
                       ELSE IF l = "save" THEN {f[2].pw : f \in q.copy} ELSE {}
<1>1. /\ pc'[r] = l /\ req'[r] = q
      /\ \A s \in Requests : s # r => pc'[s] = pc[s] /\ req'[s] = req[s]
  BY BecomesOne
<1>2. ASSUME NEW s \in Requests, s # r PROVE held'[s] = held[s]
  <2>1. pc'[s] = pc[s] /\ req'[s] = req[s]
    BY <1>1, <1>2
  <2> QED
    BY <2>1 DEF held
<1>3. held'[r] = IF pc'[r] = "settings" THEN {c.pw : c \in req'[r].copy}
                 ELSE IF pc'[r] = "save" THEN {f[2].pw : f \in req'[r].copy} ELSE {}
  BY DEF held
<1> QED
  BY <1>1, <1>2, <1>3

LEMMA HeldNone ==
  ASSUME Domains, NEW r \in Requests, NEW q, Becomes(r, "reply", q)
  PROVE  held'[r] = {}
BY BecomesOne DEF held

LEMMA HeldRow ==
  ASSUME Domains, NEW r \in Requests, NEW q, NEW val, Becomes(r, "settings", q), q.copy = {val}
  PROVE  held'[r] = {val.pw}
<1>1. held'[r] = {c.pw : c \in q.copy}
  BY BecomesOne DEF held
<1> QED
  BY <1>1

LEMMA HeldForm ==
  ASSUME Domains, NEW r \in Requests, NEW do, NEW u, NEW form,
         Becomes(r, "save", Under(r, do, u, form))
  PROVE  held'[r] = {form.pw}
<1> DEFINE q == Under(r, do, u, form)
<1>1. q.copy = {<<u, form>>}
  BY DEF Under, Working
<1>2. held'[r] = {f[2].pw : f \in q.copy}
  <2> HIDE DEF q
  <2>1. Becomes(r, "save", q)
    BY DEF q
  <2> QED
    BY <2>1, BecomesOne DEF held
<1> QED
  BY <1>1, <1>2

LEMMA TempInit == Init => TempInv
BY DEF Init, TempInv, Known, Pending, Careful, Marked, held, Rows, due

\* A row is written by a request that then has no copy.
LEMMA TempWrite ==
  ASSUME TempInv, Domains, NEW r \in Requests, NEW q, Becomes(r, "reply", q),
         NEW u, NEW val, rows' = With(u, val),
         passwords' \in Nat, passwords <= passwords',
         val.pw \in 0..passwords',
         \A v, p : <<v, p>> \in due' => <<v, p>> \in due \/ (v = u /\ p = val.pw),
         <<u, val.pw>> \in due' => val.must,
         \A s \in Requests : s # r /\ pc[s] = "save" =>
           \A f \in req[s].copy :
             /\ req[s].do = "reset" => f[2].pw # val.pw
             /\ <<f[1], f[2].pw>> \in due' => <<f[1], f[2].pw>> \in due
  PROVE  TempInv'
<1>1. /\ Rows' = Rows \union {u} /\ rows'[u] = val
      /\ \A v \in Rows : v # u => rows'[v] = rows[v]
  BY WithRow
<1>2. /\ pc'[r] = "reply"
      /\ \A s \in Requests : s # r => pc'[s] = pc[s] /\ req'[s] = req[s]
  BY BecomesOne
<1>3. held'[r] = {} /\ \A s \in Requests : s # r => held'[s] = held[s]
  BY HeldOne, HeldNone
<1>4. 0..passwords \subseteq 0..passwords'
  <2>1. passwords \in Nat
    BY DEF TempInv, Known
  <2> QED
    BY <2>1
<1>5. Known'
  BY <1>1, <1>3, <1>4 DEF TempInv, Known
<1>6. Careful'
  BY <1>2 DEF TempInv, Careful
<1>7. Marked'
  <2>1. ASSUME NEW v \in Rows, v # u, <<v, rows[v].pw>> \in due' PROVE rows[v].must
    BY <2>1 DEF TempInv, Marked
  <2>2. \A v \in Rows' : v = u \/ (v \in Rows /\ v # u)
    BY <1>1
  <2> QED
    BY <1>1, <2>1, <2>2 DEF Marked
<1>8. ASSUME NEW s \in Requests, pc'[s] = "save", req'[s].do = "reset", NEW f \in req'[s].copy
      PROVE  /\ f[2].must
             /\ \A v \in Rows' : rows'[v].pw # f[2].pw
             /\ \A v : <<v, f[2].pw>> \notin due'
             /\ \A t \in Requests : t # s => f[2].pw \notin held'[t]
  <2>1. s # r /\ pc[s] = "save" /\ req[s].do = "reset" /\ f \in req[s].copy
    BY <1>2, <1>8
  <2>2. /\ f[2].must
        /\ \A v \in Rows : rows[v].pw # f[2].pw
        /\ \A v : <<v, f[2].pw>> \notin due
        /\ \A t \in Requests : t # s => f[2].pw \notin held[t]
    BY <2>1 DEF TempInv, Pending
  <2>3. f[2].pw # val.pw
    BY <2>1
  <2> QED
    BY <1>1, <1>3, <2>2, <2>3
<1>9. Pending'
  BY <1>8 DEF Pending
<1> QED
  BY <1>5, <1>6, <1>7, <1>9 DEF TempInv

\* No row is written; one request may take a copy.
LEMMA TempCopy ==
  ASSUME TempInv, Domains, NEW r \in Requests, NEW l, NEW q, Becomes(r, l, q),
         Rows' \subseteq Rows, \A v \in Rows' : rows'[v] = rows[v], due' = due,
         passwords' \in Nat, passwords <= passwords',
         held'[r] \subseteq 0..passwords',
         \A s \in Requests : s # r /\ pc[s] = "save" /\ req[s].do = "reset" =>
           \A f \in req[s].copy : f[2].pw \notin held'[r],
         l = "save" => \A f \in q.copy : <<f[1], f[2].pw>> \in due => f[2].must,
         l = "save" /\ q.do = "reset" =>
           \A f \in q.copy : f[2].must /\ f[2].pw = passwords + 1
  PROVE  TempInv'
<1>1. /\ pc'[r] = l /\ req'[r] = q
      /\ \A s \in Requests : s # r => pc'[s] = pc[s] /\ req'[s] = req[s]
  BY BecomesOne
<1>2. \A s \in Requests : s # r => held'[s] = held[s]
  BY HeldOne
<1>3. passwords \in Nat
  BY DEF TempInv, Known
<1>4. 0..passwords \subseteq 0..passwords' /\ passwords + 1 \notin 0..passwords
  BY <1>3
<1>5. Known'
  BY <1>2, <1>4 DEF TempInv, Known
<1>6. Careful'
  BY <1>1 DEF TempInv, Careful
<1>7. Marked'
  BY DEF TempInv, Marked
<1>8. ASSUME NEW s \in Requests, pc'[s] = "save", req'[s].do = "reset", NEW f \in req'[s].copy
      PROVE  /\ f[2].must
             /\ \A v \in Rows' : rows'[v].pw # f[2].pw
             /\ \A v : <<v, f[2].pw>> \notin due'
             /\ \A t \in Requests : t # s => f[2].pw \notin held'[t]
  <2>1. CASE s = r
    <3>1. f[2].must /\ f[2].pw \notin 0..passwords
      BY <1>1, <1>4, <1>8, <2>1
    <3>2. /\ \A v \in Rows : rows[v].pw \in 0..passwords
          /\ \A v, p : <<v, p>> \in due => p \in 0..passwords
          /\ \A t \in Requests : held[t] \subseteq 0..passwords
      BY DEF TempInv, Known
    <3> QED
      BY <1>2, <2>1, <3>1, <3>2
  <2>2. CASE s # r
    <3>1. pc[s] = "save" /\ req[s].do = "reset" /\ f \in req[s].copy
      BY <1>1, <1>8, <2>2
    <3>2. /\ f[2].must
          /\ \A v \in Rows : rows[v].pw # f[2].pw
          /\ \A v : <<v, f[2].pw>> \notin due
          /\ \A t \in Requests : t # s => f[2].pw \notin held[t]
      BY <3>1 DEF TempInv, Pending
    <3>3. f[2].pw \notin held'[r]
      BY <2>2, <3>1
    <3> QED
      BY <1>2, <3>2, <3>3
  <2> QED
    BY <2>1, <2>2
<1>9. Pending'
  BY <1>8 DEF Pending
<1> QED
  BY <1>5, <1>6, <1>7, <1>9 DEF TempInv

LEMMA TempStep == Domains /\ Shaped /\ GoneInv /\ TempInv /\ [Next]_vars => TempInv'
<1> SUFFICES ASSUME Domains, Shaped, GoneInv, TempInv, [Next]_vars PROVE TempInv'
  OBVIOUS
<1> USE DEF rowHistory, data
<1>0. /\ passwords \in Nat
      /\ \A v \in Rows : rows[v].pw \in 0..passwords
      /\ \A v, p : <<v, p>> \in due => p \in 0..passwords
      /\ \A s \in Requests : held[s] \subseteq 0..passwords
  BY DEF TempInv, Known
<1>1. ASSUME NEW s \in Requests, pc[s] = "save", NEW f \in req[s].copy
      PROVE  /\ f[2].pw \in held[s] /\ f[2].pw \in 0..passwords
             /\ <<f[1], f[2].pw>> \in due => f[2].must
  BY <1>0, <1>1, HeldSave DEF TempInv, Careful
<1>4. ASSUME NEW s \in Requests, pc[s] = "save", req[s].do = "reset", NEW f \in req[s].copy
      PROVE  f[2].must /\ \A t \in Requests : t # s => f[2].pw \notin held[t]
  BY <1>4 DEF TempInv, Pending
<1>2. CASE Quiet
  <2>1. \A s \in Requests : held'[s] \subseteq held[s]
    BY <1>2 DEF Quiet, held, Copies
  <2>2. UNCHANGED <<rows, passwords, due>> /\ Rows' = Rows
    BY <1>2 DEF Quiet, Rows, due
  <2>3. \A s \in Requests : pc'[s] = "save" => pc[s] = "save" /\ req'[s] = req[s]
    BY <1>2 DEF Quiet, Copies
  <2>4. Known' /\ Marked' /\ Careful'
    BY <2>1, <2>2, <2>3 DEF TempInv, Known, Marked, Careful
  <2>5. Pending'
    BY <2>1, <2>2, <2>3 DEF TempInv, Pending
  <2> QED
    BY <2>4, <2>5 DEF TempInv
<1>3. ASSUME NEW r \in Requests, Writes(r) PROVE TempInv'
  <2>1. CASE SetPassword(r)
    <3> DEFINE u == req[r].user
    <3>1. PICK c \in req[r].copy : \E new \in {c.pw, passwords + 1} :
            /\ IF new = c.pw THEN UNCHANGED passwords ELSE NewPassword
            /\ IF u \in Rows
                 THEN /\ rows' = With(u, Stored(u, c, new))
                      /\ due' = due \ {<<u, new>>}
                 ELSE UNCHANGED <<rows, due>>
      BY <2>1 DEF SetPassword, due
    <3>2. PICK new \in {c.pw, passwords + 1} :
            /\ IF new = c.pw THEN UNCHANGED passwords ELSE NewPassword
            /\ IF u \in Rows
                 THEN /\ rows' = With(u, Stored(u, c, new))
                      /\ due' = due \ {<<u, new>>}
                 ELSE UNCHANGED <<rows, due>>
      BY <3>1
    <3>3. pc[r] = "settings" /\ \E q : Becomes(r, "reply", q)
      BY <2>1 DEF SetPassword, Done, Replies
    <3>4. c.pw \in held[r] /\ c.pw \in 0..passwords
      BY <1>0, <3>3 DEF held
    <3>5. /\ passwords' \in Nat /\ passwords <= passwords' /\ new \in 0..passwords'
          /\ new = c.pw \/ new \notin 0..passwords
      BY <1>0, <3>2, <3>4 DEF NewPassword
    <3>6. \A s \in Requests : s # r /\ pc[s] = "save" => \A f \in req[s].copy :
            req[s].do = "reset" => f[2].pw # new
      <4>1. ASSUME NEW s \in Requests, s # r, pc[s] = "save", req[s].do = "reset",
                   NEW f \in req[s].copy
            PROVE  f[2].pw # new
        <5>1. f[2].pw \in 0..passwords
          BY <1>1, <4>1
        <5>2. f[2].pw \notin held[r]
          BY <1>4, <4>1
        <5> QED
          BY <3>4, <3>5, <5>1, <5>2
      <4> QED
        BY <4>1
    <3>7. CASE u \in Rows
      <4>1. Stored(u, c, new).pw = new
        BY <3>7, NewSecret DEF Stored, Shaped
      <4>2. rows' = With(u, Stored(u, c, new)) /\ due' = due \ {<<u, new>>}
        BY <3>2, <3>7
      <4> QED
        <5> DEFINE val == Stored(u, c, new)
        <5>1. /\ \A v, p : <<v, p>> \in due' => <<v, p>> \in due
              /\ <<u, val.pw>> \notin due' /\ val.pw = new
          BY <4>1, <4>2
        <5> HIDE DEF val
        <5>2. rows' = With(u, val)
          BY <4>2 DEF val
        <5> QED
          BY <3>3, <3>5, <3>6, <5>1, <5>2, TempWrite
    <3>8. CASE u \notin Rows
      <4>1. UNCHANGED <<rows, due>> /\ Rows' = Rows
        BY <3>2, <3>8 DEF Rows
      <4>2. held'[r] = {}
        BY <3>3, HeldNone
      <4> QED
        BY <3>3, <3>5, <4>1, <4>2, TempCopy
    <3> QED
      BY <3>7, <3>8
  <2>2. CASE CreateUser(r)
    <3>1. PICK u \in Users \ born, admin \in BOOLEAN :
            rows' = With(u, [active |-> TRUE, admin |-> admin, must |-> FALSE, pw |-> passwords'])
      BY <2>2 DEF CreateUser
    <3>2. /\ passwords' = passwords + 1 /\ due' \subseteq due
          /\ \E q : Becomes(r, "reply", q)
      BY <2>2 DEF CreateUser, NewPassword, Done, Replies, due
    <3>3. \A s \in Requests : s # r /\ pc[s] = "save" => \A f \in req[s].copy :
            f[2].pw # passwords'
      <4>1. passwords' \notin 0..passwords
        BY <1>0, <3>2
      <4> QED
        BY <1>1, <4>1
    <3>4. passwords' \in Nat /\ passwords <= passwords' /\ passwords' \in 0..passwords'
      BY <1>0, <3>2
    <3>5. <<u, passwords'>> \notin due
      BY <1>0, <3>2
    <3> QED
      BY <3>1, <3>2, <3>3, <3>4, <3>5, TempWrite
  <2>3. CASE DeleteUser(r)
    <3>1. /\ Rows' \subseteq Rows /\ \A v \in Rows' : rows'[v] = rows[v]
          /\ UNCHANGED <<passwords, due>> /\ \E q : Becomes(r, "reply", q)
      BY <2>3 DEF DeleteUser, Done, Replies, Rows, due
    <3>2. held'[r] = {}
      BY <3>1, HeldNone
    <3> QED
      BY <1>0, <3>1, <3>2, TempCopy
  <2>4. CASE UpdateUserRead(r)
    <3>1. PICK u \in Rows, active \in BOOLEAN, admin \in BOOLEAN : Reads(r, u, active, admin)
      BY <2>4, UpdateUserReads
    <3>2. /\ UNCHANGED <<rows, due>> /\ Rows' = Rows
      BY <2>4, OneCopy DEF Rows, due
    <3> DEFINE form == Form(u, active, admin)
    <3>3. /\ DOMAIN form = Columns
          /\ form.pw = rows[u].pw /\ form.must = rows[u].must
      BY NewRights DEF Form, Shaped
    <3>4. rows[u].pw \in 0..passwords /\ (<<u, rows[u].pw>> \in due => rows[u].must)
      BY <1>0 DEF TempInv, Marked
    <3> HIDE DEF form
    <3>5. CASE Becomes(r, "save", Under(r, "save", u, form)) /\ UNCHANGED passwords
      <4>1. held'[r] = {form.pw}
        BY <3>5, HeldForm
      <4>2. \A s \in Requests : s # r /\ pc[s] = "save" /\ req[s].do = "reset" =>
              \A f \in req[s].copy : f[2].pw \notin held'[r]
        BY <3>3, <4>1 DEF TempInv, Pending
      <4>3. \A f \in Under(r, "save", u, form).copy : <<f[1], f[2].pw>> \in due => f[2].must
        BY <3>3, <3>4 DEF Under, Working
      <4>4. Under(r, "save", u, form).do # "reset"
        BY DEF Under, Working
      <4> QED
        BY <1>0, <3>2, <3>3, <3>4, <3>5, <4>1, <4>2, <4>3, <4>4, TempCopy
    <3>6. CASE NewPassword /\ Becomes(r, "save", Under(r, "reset", u, Reset(form)))
      <4>1. Reset(form).pw = passwords' /\ Reset(form).must
        BY <3>3, NewSecret DEF Reset
      <4>2. passwords' = passwords + 1
        BY <3>6 DEF NewPassword
      <4>3. held'[r] = {passwords'}
        BY <3>6, <4>1, HeldForm
      <4>4. \A s \in Requests : s # r /\ pc[s] = "save" /\ req[s].do = "reset" =>
              \A f \in req[s].copy : f[2].pw \notin held'[r]
        <5>1. passwords' \notin 0..passwords
          BY <1>0, <4>2
        <5> QED
          BY <1>1, <4>3, <5>1
      <4>5. \A f \in Under(r, "reset", u, Reset(form)).copy : f[2].must /\ f[2].pw = passwords'
        BY <4>1 DEF Under, Working
      <4> QED
        BY <1>0, <3>2, <3>6, <4>2, <4>3, <4>4, <4>5, TempCopy
    <3> QED
      BY <3>1, <3>5, <3>6 DEF Reads, form
  <2>5. CASE UpdateUserSave(r)
    <3>1. PICK f \in req[r].copy :
            /\ rows' = With(f[1], Saved(f[1], f[2]))
            /\ due' \subseteq due \union {<<f[1], f[2].pw>>}
            /\ req[r].do # "reset" => due' \subseteq due
      BY <2>5 DEF UpdateUserSave, due
    <3> DEFINE new == Saved(f[1], f[2])
    <3>6. new.pw = f[2].pw /\ new.must = f[2].must
      BY <2>5, SavedForm DEF Shaped, UpdateUserSave
    <3>2. pc[r] = "save" /\ UNCHANGED passwords /\ \E q : Becomes(r, "reply", q)
      BY <2>5 DEF UpdateUserSave, Done, Replies
    <3>3. f[2].pw \in held[r] /\ f[2].pw \in 0..passwords
      BY <1>0, <1>1, <3>2
    <3>4. <<f[1], f[2].pw>> \in due' => f[2].must
      BY <1>1, <1>4, <3>1, <3>2
    <3>5. ASSUME NEW s \in Requests, s # r, pc[s] = "save", NEW g \in req[s].copy
          PROVE  /\ req[s].do = "reset" => g[2].pw # f[2].pw
                 /\ <<g[1], g[2].pw>> \in due' => <<g[1], g[2].pw>> \in due
      <4>1. g[2].pw \in held[s]
        BY <1>1, <3>5
      <4>2. req[s].do = "reset" => g[2].pw # f[2].pw
        BY <1>4, <3>3, <3>5
      <4>3. req[r].do = "reset" => f[2].pw # g[2].pw
        BY <1>4, <3>2, <3>5, <4>1
      <4> QED
        BY <3>1, <4>2, <4>3
    <3>7. rows' = With(f[1], new)
      BY <3>1
    <3> HIDE DEF new
    <3> QED
      BY <1>0, <3>1, <3>2, <3>3, <3>4, <3>5, <3>6, <3>7, TempWrite
  <2>6. CASE Settings(r)
    <3>1. PICK c \in Cookie :
            /\ Valid(c)
            /\ Becomes(r, "settings", Working("settings", c.user, {rows[c.user]}, Refreshed(c)))
      BY <2>6 DEF Settings
    <3>2. c.user \in Rows /\ UNCHANGED <<rows, passwords, due>> /\ Rows' = Rows
      BY <2>6, <3>1 DEF Settings, Valid, Rows, due
    <3>3. held'[r] = {rows[c.user].pw}
      <4> DEFINE q == Working("settings", c.user, {rows[c.user]}, Refreshed(c))
      <4>1. q.copy = {rows[c.user]}
        BY DEF Working
      <4> HIDE DEF q
      <4>2. Becomes(r, "settings", q)
        BY <3>1 DEF q
      <4> QED
        BY <4>1, <4>2, HeldRow
    <3>4. \A s \in Requests : s # r /\ pc[s] = "save" /\ req[s].do = "reset" =>
            \A f \in req[s].copy : f[2].pw \notin held'[r]
      BY <3>2, <3>3 DEF TempInv, Pending
    <3> QED
      BY <1>0, <3>1, <3>2, <3>3, <3>4, TempCopy
  <2> QED
    BY <1>3, <2>1, <2>2, <2>3, <2>4, <2>5, <2>6 DEF Writes
<1> QED
  BY <1>2, <1>3, Steps

(* UpdateUser, UpdatePassword, ensureAdminUser, AuthMiddleware: whoever has*)
(* a password that another has chosen for him gets no further than the page*)
(* to change it, except with the one that CreateUser gave him.             *)
THEOREM TemporaryIsChangedCorrect == Spec => TemporaryIsChanged
<1>1. TempInv => Stopped
  <2> SUFFICES ASSUME TempInv, NEW r \in Requests, NEW u \in Rows, LetsPast(r, u)
               PROVE  <<u, rows[u].pw>> \notin due
    BY DEF Stopped, due
  <2>1. PICK c \in Cookie : Sends(r, c) /\ c.user = u
    BY DEF LetsPast
  <2>2. \A k : Sends(r, k) => k = c
    BY <2>1 DEF Sends
  <2>3. Passes(u)
    BY <2>1, <2>2 DEF LetsPast, Mail, Console, Passes
  <2> QED
    BY <2>3 DEF TempInv, Marked, Passes
<1> QED
  BY <1>1, DomainsInit, DomainsStep, ShapedInit, ShapedStep, GoneInit, GoneStep, TempInit,
     TempStep, PTL DEF Spec, TemporaryIsChanged

-----------------------------------------------------------------------------
(* The state of an OAuth2 login is on its way to one browser, or in its jar*)
(* alone; from the callback on, a reply that clears it is under way.       *)
sent == [r \in Requests |-> IF req[r].do = "start" THEN req[r].state.to ELSE {}]

Apart ==
  /\ flows \in Nat /\ used \subseteq 1..flows
  /\ \A b \in Browsers : state[b] \subseteq 1..flows
  /\ \A b, c \in Browsers : b # c => state[b] \intersect state[c] = {}
  /\ \A r \in Requests :
       /\ sent[r] \subseteq 1..flows /\ sent[r] \intersect used = {}
       /\ \A b \in Browsers : sent[r] \intersect state[b] = {}
       /\ \A s \in Requests : s # r => sent[r] \intersect sent[s] = {}

Answers ==
  \A r \in Requests :
    /\ req[r].do = "callback" => pc[r] = "reply" /\ req[r].state = Clear
    /\ req[r].do = "start" => pc[r] = "reply" /\ req[r].state.sets
    /\ req[r].do \notin {"callback", "start"} => req[r].state = Keep

StateInv == StateOnce /\ Apart /\ Answers

LEMMA StateInit == Init => StateInv
BY DEF Init, StateInv, StateOnce, Apart, Answers, NoReq, sent

LEMMA SentOne ==
  ASSUME Domains, NEW r \in Requests, NEW l, NEW q, Becomes(r, l, q)
  PROVE  /\ \A s \in Requests : s # r => sent'[s] = sent[s]
         /\ sent'[r] = IF q.do = "start" THEN q.state.to ELSE {}
BY BecomesOne DEF sent

\* A step that has nothing to do with a login by OAuth2.
LEMMA StateKeep ==
  ASSUME Domains, StateInv, NEW r \in Requests, NEW l, NEW q, Becomes(r, l, q),
         pc[r] # "reply", UNCHANGED <<state, flows, used>>,
         q.do \notin {"callback", "start"}, q.state = Keep
  PROVE  StateInv'
<1>1. /\ pc'[r] = l /\ req'[r] = q
      /\ \A s \in Requests : s # r => pc'[s] = pc[s] /\ req'[s] = req[s]
  BY BecomesOne
<1>2. sent'[r] = {} /\ \A s \in Requests : s # r => sent'[s] = sent[s]
  BY SentOne
<1>3. Answers'
  BY <1>1 DEF StateInv, Answers
<1>4. Apart'
  BY <1>2 DEF StateInv, Apart
<1>5. StateOnce'
  <2>1. req[r].do # "callback"
    BY DEF StateInv, Answers
  <2> QED
    BY <1>1, <2>1 DEF StateInv, StateOnce
<1> QED
  BY <1>3, <1>4, <1>5 DEF StateInv

LEMMA StateStart ==
  ASSUME Domains, StateInv, NEW r \in Requests, OAuth2Start(r)
  PROVE  StateInv'
<1> DEFINE q == [NoReq EXCEPT !.do = "start", !.state = Begin(flows')]
<1>1. q.do = "start" /\ q.state.sets /\ q.state.to = {flows'}
  BY DEF NoReq, Begin
<1>2. Becomes(r, "reply", q) /\ pc[r] = "idle"
  BY DEF OAuth2Start
<1> HIDE DEF q
<1>3. /\ pc'[r] = "reply" /\ req'[r] = q
      /\ \A s \in Requests : s # r => pc'[s] = pc[s] /\ req'[s] = req[s]
  BY <1>2, BecomesOne
<1>4. sent'[r] = {flows'} /\ \A s \in Requests : s # r => sent'[s] = sent[s]
  BY <1>1, <1>2, SentOne
<1>5. UNCHANGED <<state, used>>
  BY DEF OAuth2Start, cookieHistory
<1>6. Answers'
  BY <1>1, <1>3 DEF StateInv, Answers
<1>7. Apart'
  <2>1. flows \in Nat /\ flows' = flows + 1
    BY DEF OAuth2Start, StateInv, Apart
  <2>2. 1..flows \subseteq 1..flows' /\ flows' \in 1..flows' /\ flows' \notin 1..flows
    BY <2>1
  <2> QED
    BY <1>4, <1>5, <2>1, <2>2 DEF StateInv, Apart
<1>8. StateOnce'
  <2>1. req[r].do # "callback"
    BY <1>2 DEF StateInv, Answers
  <2> QED
    BY <1>3, <1>5, <2>1 DEF StateInv, StateOnce
<1> QED
  BY <1>6, <1>7, <1>8 DEF StateInv

LEMMA StateCallback ==
  ASSUME Domains, StateInv, NEW r \in Requests, OAuth2Callback(r)
  PROVE  StateInv'
<1> DEFINE b == BrowserOf[r]
<1> b \in Browsers
  BY SessionAssumption
<1>1. PICK q : Becomes(r, "reply", q) /\ q.do = "callback" /\ q.state = Clear
  <2>1. ASSUME NEW u
        PROVE  LET q == [NoReq EXCEPT !.do = "callback", !.set = Fresh(u),
                           !.state = CallbackState(TRUE)]
               IN q.do = "callback" /\ q.state = Clear
    BY DEF NoReq, CallbackState
  <2>2. LET q == [NoReq EXCEPT !.do = "callback", !.state = CallbackState(FALSE)]
        IN q.do = "callback" /\ q.state = Clear
    BY DEF NoReq, CallbackState
  <2> QED
    BY <2>1, <2>2 DEF OAuth2Callback
<1>2. /\ pc'[r] = "reply" /\ req'[r] = q
      /\ \A s \in Requests : s # r => pc'[s] = pc[s] /\ req'[s] = req[s]
  BY <1>1, BecomesOne
<1>3. sent'[r] = {} /\ \A s \in Requests : s # r => sent'[s] = sent[s]
  BY <1>1, SentOne
<1>4. UNCHANGED <<state, flows>> /\ used' = used \union state[b]
  BY DEF OAuth2Callback, cookies
<1>5. Answers'
  BY <1>1, <1>2 DEF StateInv, Answers
<1>6. Apart'
  BY <1>3, <1>4 DEF StateInv, Apart
<1>7. StateOnce'
  <2>1. ASSUME NEW c \in Browsers, NEW n \in state[c] \intersect used'
        PROVE  \E s \in Requests : BrowserOf[s] = c /\ req'[s].do = "callback"
    <3>1. CASE c = b
      BY <1>1, <1>2, <3>1
    <3>2. CASE c # b
      <4>1. n \in used
        BY <1>4, <2>1, <3>2 DEF StateInv, Apart
      <4>2. PICK s \in Requests : BrowserOf[s] = c /\ req[s].do = "callback"
        BY <2>1, <4>1 DEF StateInv, StateOnce
      <4> QED
        BY <1>2, <3>2, <4>2
    <3> QED
      BY <3>1, <3>2
  <2> QED
    BY <1>4, <2>1 DEF StateOnce
<1> QED
  BY <1>5, <1>6, <1>7 DEF StateInv

LEMMA StateReply ==
  ASSUME Domains, StateInv, NEW r \in Requests, Reply(r)
  PROVE  StateInv'
<1> DEFINE b == BrowserOf[r]
<1> b \in Browsers
  BY SessionAssumption
<1>1. /\ Becomes(r, "idle", NoReq)
      /\ state' = [state EXCEPT ![b] = Applied(@, req[r].state)]
      /\ UNCHANGED <<flows, used>>
  BY DEF Reply
<1>2. /\ pc'[r] = "idle" /\ req'[r] = NoReq
      /\ \A s \in Requests : s # r => pc'[s] = pc[s] /\ req'[s] = req[s]
  BY <1>1, BecomesOne
<1>3. sent'[r] = {} /\ \A s \in Requests : s # r => sent'[s] = sent[s]
  BY <1>1, SentOne DEF NoReq
<1>4. /\ state'[b] = IF req[r].state.sets THEN req[r].state.to ELSE state[b]
      /\ \A c \in Browsers : c # b => state'[c] = state[c]
  BY <1>1 DEF Domains, Applied
<1>5. /\ req[r].do = "start" => state'[b] = sent[r]
      /\ req[r].do = "callback" => state'[b] = {}
      /\ req[r].do \notin {"start", "callback"} => state'[b] = state[b]
  BY <1>4 DEF StateInv, Answers, sent, Clear, Keep
<1>6. Answers'
  BY <1>2 DEF StateInv, Answers, NoReq
<1>7. state'[b] \subseteq sent[r] \/ state'[b] = state[b]
  BY <1>5
<1>8. Apart'
  BY <1>1, <1>3, <1>4, <1>7 DEF StateInv, Apart
<1>9. StateOnce'
  <2>1. ASSUME NEW c \in Browsers, NEW n \in state'[c] \intersect used
        PROVE  \E s \in Requests : BrowserOf[s] = c /\ req'[s].do = "callback"
    <3>1. n \in state[c]
      BY <1>4, <1>7, <2>1 DEF StateInv, Apart
    <3>2. PICK s \in Requests : BrowserOf[s] = c /\ req[s].do = "callback"
      BY <2>1, <3>1 DEF StateInv, StateOnce
    <3>3. s # r
      BY <1>5, <2>1, <3>2
    <3> QED
      BY <1>2, <3>2, <3>3
  <2> QED
    BY <1>1, <2>1 DEF StateOnce
<1> QED
  BY <1>6, <1>8, <1>9 DEF StateInv

LEMMA StateStep == Domains /\ StateInv /\ [Next]_vars => StateInv'
<1> SUFFICES ASSUME Domains, StateInv, [Next]_vars PROVE StateInv'
  OBVIOUS
<1> USE DEF cookieHistory, cookies
<1>1. ASSUME NEW r \in Requests, Request(r) PROVE StateInv'
  <2>1. ASSUME NEW do, NEW set, do \notin {"callback", "start"}, pc[r] # "reply",
               Replies(r, do, set), UNCHANGED <<state, flows, used>>
        PROVE  StateInv'
    BY <2>1, StateKeep DEF Replies, NoReq
  <2>2. CASE Login(r)
    BY <2>1, <2>2 DEF Login
  <2>3. CASE Reject(r) \/ Browse(r) \/ Mail(r) \/ Logout(r)
    BY <2>1, <2>3 DEF Reject, Browse, Mail, Logout, Sends
  <2>4. CASE Settings(r) \/ Console(r)
    BY <2>4, StateKeep DEF Settings, Console, Sends, Working
  <2>5. CASE SetPassword(r) \/ Refused(r) \/ CreateUser(r) \/ DeleteUser(r) \/ UpdateUserSave(r)
    <3>1. pc[r] \in {"settings", "console", "save"} /\ Done(r) /\ UNCHANGED <<state, flows, used>>
      BY <2>5 DEF SetPassword, Refused, CreateUser, DeleteUser, UpdateUserSave
    <3> QED
      BY <2>1, <3>1 DEF Done
  <2>6. CASE UpdateUserRead(r)
    BY <2>6, StateKeep DEF UpdateUserRead, Working
  <2>7. CASE OAuth2Start(r) \/ OAuth2Callback(r) \/ Reply(r)
    BY <2>7, StateStart, StateCallback, StateReply
  <2> QED
    BY <1>1, <2>2, <2>3, <2>4, <2>5, <2>6, <2>7 DEF Request
<1>2. CASE Tick
  <2>1. state' = [c \in Browsers |-> {}] /\ UNCHANGED <<pc, req, flows, used>>
    BY <1>2 DEF Tick
  <2>2. sent' = sent
    BY <2>1 DEF sent
  <2> QED
    BY <2>1, <2>2 DEF StateInv, StateOnce, Apart, Answers
<1>3. CASE UNCHANGED vars
  BY <1>3 DEF vars, StateInv, StateOnce, Apart, Answers, sent
<1> QED
  BY <1>1, <1>2, <1>3 DEF Next

(* OAuth2Callback: the state of a login opens one session at most.         *)
THEOREM StateOnceCorrect == Spec => []StateOnce
<1>1. StateInv => StateOnce
  BY DEF StateInv
<1> QED
  BY <1>1, DomainsInit, DomainsStep, StateInit, StateStep, PTL DEF Spec

(* The three together: changes stand, who is gone stays gone, and an       *)
(* administrator remains (UpdatePassword, UpdateUser, DeleteUser).         *)
THEOREM UsersStandCorrect == Spec => []UsersStand
<1>1. ChangeStands /\ GoneStaysGone /\ AdminRemains => UsersStand
  BY DEF UsersStand
<1> QED
  BY <1>1, ChangeStandsCorrect, GoneStaysGoneCorrect, AdminRemainsCorrect, PTL

-----------------------------------------------------------------------------
(* Types. A browser has one session cookie at most, and no reply sets more;*)
(* a request that is not under way holds nothing.                          *)
Single(S) == S = {} \/ \E x : S = {x}

LEMMA SingleCount ==
  ASSUME NEW S, Single(S)
  PROVE  Cardinality(S) <= 1
<1>1. CASE S = {}
  <2>1. Cardinality(S) = 0
    BY <1>1, FS_EmptySet
  <2> QED
    BY <2>1
<1>2. CASE \E x : S = {x}
  <2>1. Cardinality(S) = 1
    BY <1>2, FS_Singleton
  <2> QED
    BY <2>1
<1> QED
  BY <1>1, <1>2 DEF Single

Places == {"idle", "settings", "console", "save", "reply"}

\* What a request may do to the cookies, with the OAuth2 logins up to n begun.
Answered(q, n) ==
  /\ q.set.to \subseteq Cookie /\ Single(q.set.to)
  /\ q.state.to \subseteq 1..n /\ Single(q.state.to)

BrowserInv ==
  /\ out \subseteq Browsers /\ late \subseteq Requests
  /\ flows \in 0..MaxFlows /\ used \subseteq 1..flows
  /\ \A b \in Browsers : /\ jar[b] \subseteq Cookie /\ Single(jar[b])
                         /\ state[b] \subseteq 1..flows /\ Single(state[b])
  /\ \A r \in Requests : /\ pc[r] \in Places /\ Answered(req[r], flows)
                         /\ pc[r] = "idle" => req[r] = NoReq
                         /\ pc[r] # "idle" => req[r].do # "none"

LEMMA NoReply == Keep.to = {} /\ Clear.to = {} /\ \A n : Answered(NoReq, n)
BY DEF Keep, Clear, NoReq, Answered, Single

LEMMA FreshReply ==
  ASSUME NEW u \in Users
  PROVE  Fresh(u).to \subseteq Cookie /\ Single(Fresh(u).to)
<1>1. [user |-> u, age |-> 0] \in Cookie
  BY SessionAssumption DEF Cookie
<1> QED
  BY <1>1 DEF Fresh, Single

LEMMA RefreshedReply ==
  ASSUME NEW c \in Cookie
  PROVE  Refreshed(c).to \subseteq Cookie /\ Single(Refreshed(c).to)
<1>1. c.user \in Users
  BY DEF Cookie
<1> QED
  BY <1>1, FreshReply, NoReply DEF Refreshed, Single

LEMMA BrowserInit == Init => BrowserInv
<1> SUFFICES ASSUME Init PROVE BrowserInv
  OBVIOUS
<1>1. \A b \in Browsers : jar[b] = {} /\ state[b] = {}
  BY DEF Init
<1>2. \A r \in Requests : pc[r] = "idle" /\ req[r] = NoReq
  BY DEF Init
<1>3. flows = 0 /\ flows \in 0..MaxFlows
  BY SessionAssumption DEF Init
<1> QED
  BY <1>1, <1>2, <1>3, NoReply DEF Init, BrowserInv, Single, Places

\* A step of one request before its reply.
LEMMA BrowserRequest ==
  ASSUME Domains, BrowserInv, NEW r \in Requests, NEW l \in Places, NEW q, Becomes(r, l, q),
         l # "idle", q.do # "none", UNCHANGED <<jar, state, out, late>>,
         flows' \in 0..MaxFlows, flows <= flows', used' \subseteq 1..flows,
         Answered(q, flows')
  PROVE  BrowserInv'
<1>1. /\ pc'[r] = l /\ req'[r] = q
      /\ \A s \in Requests : s # r => pc'[s] = pc[s] /\ req'[s] = req[s]
  BY BecomesOne
<1>2. 1..flows \subseteq 1..flows'
  <2>1. flows \in Int /\ flows' \in Int
    BY SessionAssumption DEF BrowserInv
  <2> QED
    BY <2>1
<1>3. ASSUME NEW s \in Requests
      PROVE  /\ pc'[s] \in Places /\ Answered(req'[s], flows')
             /\ pc'[s] = "idle" => req'[s] = NoReq
             /\ pc'[s] # "idle" => req'[s].do # "none"
  <2>1. CASE s = r
    BY <1>1, <2>1
  <2>2. CASE s # r
    BY <1>1, <1>2, <2>2 DEF BrowserInv, Answered
  <2> QED
    BY <2>1, <2>2
<1>4. ASSUME NEW b \in Browsers
      PROVE  /\ jar'[b] \subseteq Cookie /\ Single(jar'[b])
             /\ state'[b] \subseteq 1..flows' /\ Single(state'[b])
  BY <1>2 DEF BrowserInv
<1>5. used' \subseteq 1..flows' /\ out' \subseteq Browsers /\ late' \subseteq Requests
  BY <1>2 DEF BrowserInv
<1> QED
  BY <1>3, <1>4, <1>5 DEF BrowserInv

LEMMA BrowserReply ==
  ASSUME Domains, BrowserInv, NEW r \in Requests, Reply(r)
  PROVE  BrowserInv'
<1> DEFINE b == BrowserOf[r]
<1> b \in Browsers
  BY SessionAssumption
<1>1. /\ pc[r] = "reply" /\ Becomes(r, "idle", NoReq)
      /\ jar' = [jar EXCEPT ![b] = Applied(@, req[r].set)]
      /\ state' = [state EXCEPT ![b] = Applied(@, req[r].state)]
      /\ UNCHANGED <<flows, used>>
  BY DEF Reply
<1>2. /\ pc'[r] = "idle" /\ req'[r] = NoReq
      /\ \A s \in Requests : s # r => pc'[s] = pc[s] /\ req'[s] = req[s]
  BY <1>1, BecomesOne
<1>3. /\ jar'[b] \in {jar[b], req[r].set.to} /\ state'[b] \in {state[b], req[r].state.to}
      /\ \A c \in Browsers : c # b => jar'[c] = jar[c] /\ state'[c] = state[c]
  BY <1>1 DEF Domains, Applied
<1>4. Answered(req[r], flows)
  BY DEF BrowserInv
<1>5. ASSUME NEW c \in Browsers
      PROVE  /\ jar'[c] \subseteq Cookie /\ Single(jar'[c])
             /\ state'[c] \subseteq 1..flows /\ Single(state'[c])
  BY <1>3, <1>4 DEF BrowserInv, Answered
<1>6. ASSUME NEW s \in Requests
      PROVE  /\ pc'[s] \in Places /\ Answered(req'[s], flows)
             /\ pc'[s] = "idle" => req'[s] = NoReq
             /\ pc'[s] # "idle" => req'[s].do # "none"
  <2>1. CASE s = r
    BY <1>2, <2>1, NoReply DEF Places
  <2>2. CASE s # r
    BY <1>2, <2>2 DEF BrowserInv
  <2> QED
    BY <2>1, <2>2
<1>7. out' \subseteq Browsers /\ late' \subseteq Requests
  <2>1. out \subseteq Browsers /\ late \subseteq Requests
    BY DEF BrowserInv
  <2> QED
    BY <2>1 DEF Reply
<1> QED
  BY <1>1, <1>5, <1>6, <1>7 DEF BrowserInv

LEMMA BrowserTick ==
  ASSUME Domains, BrowserInv, Tick
  PROVE  BrowserInv'
<1>1. UNCHANGED <<flows, pc, req, out, late, used>>
  BY DEF Tick, cookieHistory
<1>2. ASSUME NEW b \in Browsers
      PROVE  /\ jar'[b] \subseteq Cookie /\ Single(jar'[b])
             /\ state'[b] \subseteq 1..flows /\ Single(state'[b])
  <2> DEFINE K == {k \in jar[b] : Lasting(k)}
             Older(c) == [c EXCEPT !.age = @ + 1]
  <2>1. jar'[b] = {Older(c) : c \in K} /\ state'[b] = {}
    BY DEF Tick
  <2>2. ASSUME NEW c \in K PROVE Older(c) \in Cookie
    <3>1. c \in Cookie /\ c.age < CookieAge
      BY <2>2 DEF BrowserInv, Lasting
    <3>2. c.age + 1 \in 0..CookieAge
      BY <3>1, SessionAssumption DEF Cookie
    <3> QED
      BY <3>1, <3>2 DEF Cookie
  <2>3. Single(K)
    BY DEF BrowserInv, Single
  <2> HIDE DEF K, Older
  <2>4. Single(jar'[b])
    BY <2>1, <2>3 DEF Single
  <2> QED
    BY <2>1, <2>2, <2>4 DEF Single
<1> QED
  BY <1>1, <1>2 DEF BrowserInv

LEMMA BrowserStep ==
  Domains /\ BrowserInv /\ Rows \subseteq Users /\ [Next]_vars => BrowserInv'
<1> SUFFICES ASSUME Domains, BrowserInv, Rows \subseteq Users, [Next]_vars PROVE BrowserInv'
  OBVIOUS
<1> USE DEF cookieHistory, cookies
<1>0. /\ flows \in 0..MaxFlows /\ flows \in Nat /\ used \subseteq 1..flows
      /\ \A r \in Requests : Answered(req[r], flows)
      /\ \A b \in Browsers : state[b] \subseteq 1..flows
  BY SessionAssumption DEF BrowserInv
<1>1. ASSUME NEW r \in Requests, NEW l \in Places \ {"idle"}, NEW q, Becomes(r, l, q),
             UNCHANGED <<cookies, cookieHistory>>, q.do # "none",
             q.set.to \subseteq Cookie, Single(q.set.to), q.state = Keep
      PROVE  BrowserInv'
  <2>1. Answered(q, flows')
    BY <1>1, NoReply DEF Answered, Single
  <2>2. l \in Places /\ l # "idle" /\ flows' \in 0..MaxFlows /\ flows <= flows' /\ used' \subseteq 1..flows
    BY <1>0, <1>1
  <2> QED
    BY <1>1, <2>1, <2>2, BrowserRequest
<1>2. ASSUME NEW r \in Requests, NEW do, do # "none", NEW set, Replies(r, do, set),
             set.to \subseteq Cookie, Single(set.to), UNCHANGED <<cookies, cookieHistory>>
      PROVE  BrowserInv'
  <2> DEFINE q == [NoReq EXCEPT !.do = do, !.set = set]
  <2>1. q.do = do /\ q.set = set /\ q.state = Keep
    BY DEF NoReq
  <2>2. Becomes(r, "reply", q)
    BY <1>2 DEF Replies
  <2>3. "reply" \in Places \ {"idle"}
    BY DEF Places
  <2> HIDE DEF q
  <2> QED
    BY <1>1, <1>2, <2>1, <2>2, <2>3
<1>3. ASSUME NEW r \in Requests, Request(r) PROVE BrowserInv'
  <2>1. CASE Login(r)
    <3>1. PICK u \in Rows : Replies(r, "login", Fresh(u))
      BY <2>1 DEF Login
    <3>2. Fresh(u).to \subseteq Cookie /\ Single(Fresh(u).to)
      BY FreshReply
    <3> QED
      BY <1>2, <2>1, <3>1, <3>2 DEF Login
  <2>2. CASE OAuth2Start(r)
    <3> DEFINE q == [NoReq EXCEPT !.do = "start", !.state = Begin(flows')]
    <3>1. /\ flows' = flows + 1 /\ flows < MaxFlows /\ Becomes(r, "reply", q)
          /\ UNCHANGED <<jar, state, out, late, used>>
      BY <2>2 DEF OAuth2Start
    <3>2. flows' \in 0..MaxFlows /\ flows <= flows' /\ flows' \in 1..flows'
      BY <1>0, <3>1, SessionAssumption
    <3>3. q.do = "start" /\ q.set = Keep /\ q.state = Begin(flows')
      BY DEF NoReq
    <3>4. Answered(q, flows')
      BY <3>2, <3>3, NoReply DEF Answered, Begin, Single
    <3>5. "reply" \in Places
      BY DEF Places
    <3> HIDE DEF q
    <3> QED
      BY <1>0, <3>1, <3>2, <3>3, <3>4, <3>5, BrowserRequest
  <2>3. CASE OAuth2Callback(r)
    <3>1. /\ UNCHANGED <<jar, state, flows, out, late>>
          /\ used' = used \union state[BrowserOf[r]]
          /\ \/ \E u \in Rows :
                  Becomes(r, "reply", [NoReq EXCEPT !.do = "callback", !.set = Fresh(u),
                                         !.state = CallbackState(TRUE)])
             \/ Becomes(r, "reply", [NoReq EXCEPT !.do = "callback",
                                       !.state = CallbackState(FALSE)])
      BY <2>3 DEF OAuth2Callback
    <3>2. used' \subseteq 1..flows
      <4>1. BrowserOf[r] \in Browsers
        BY SessionAssumption
      <4> QED
        BY <1>0, <3>1, <4>1
    <3>3. ASSUME NEW q, Becomes(r, "reply", q), q.do = "callback", q.state = Clear,
                 q.set.to \subseteq Cookie, Single(q.set.to)
          PROVE  BrowserInv'
      <4>0. q.state.to = {} /\ Single({})
        BY <3>3, NoReply DEF Single
      <4>1. Answered(q, flows')
        BY <3>3, <4>0 DEF Answered
      <4>2. flows' = flows /\ UNCHANGED <<jar, state, out, late>>
        BY <2>3 DEF OAuth2Callback
      <4>3. "reply" \in Places /\ q.do # "none"
        BY <3>3 DEF Places
      <4>4. flows' \in 0..MaxFlows /\ flows <= flows'
        BY <1>0, <4>2
      <4> QED
        BY <3>2, <3>3, <4>1, <4>2, <4>3, <4>4, BrowserRequest
    <3>4. CASE Becomes(r, "reply", [NoReq EXCEPT !.do = "callback",
                                      !.state = CallbackState(FALSE)])
      <4> DEFINE q == [NoReq EXCEPT !.do = "callback", !.state = CallbackState(FALSE)]
      <4>1. q.do = "callback" /\ q.state = Clear /\ q.set = Keep
        BY DEF NoReq, CallbackState
      <4> HIDE DEF q
      <4>2. Becomes(r, "reply", q)
        BY <3>4 DEF q
      <4> QED
        BY <3>3, <4>1, <4>2, NoReply DEF Single
    <3>5. ASSUME NEW u \in Rows,
                 Becomes(r, "reply", [NoReq EXCEPT !.do = "callback", !.set = Fresh(u),
                                        !.state = CallbackState(TRUE)])
          PROVE  BrowserInv'
      <4> DEFINE q == [NoReq EXCEPT !.do = "callback", !.set = Fresh(u),
                                    !.state = CallbackState(TRUE)]
      <4>1. q.do = "callback" /\ q.state = Clear /\ q.set = Fresh(u)
        BY DEF NoReq, CallbackState
      <4> HIDE DEF q
      <4>2. Becomes(r, "reply", q)
        BY <3>5 DEF q
      <4>3. Fresh(u).to \subseteq Cookie /\ Single(Fresh(u).to)
        BY FreshReply
      <4> QED
        BY <3>3, <4>1, <4>2, <4>3
    <3> QED
      BY <3>1, <3>4, <3>5
  <2>4. CASE Reject(r) \/ Browse(r) \/ Mail(r) \/ Logout(r)
    <3>1. \E do, set : /\ do # "none" /\ Replies(r, do, set)
                       /\ set = Clear \/ \E c \in Cookie : set = Refreshed(c)
      BY <2>4 DEF Reject, Browse, Mail, Logout
    <3>2. UNCHANGED <<cookies, cookieHistory>>
      BY <2>4 DEF Reject, Browse, Mail, Logout
    <3> QED
      BY <1>2, <3>1, <3>2, NoReply, RefreshedReply DEF Single
  <2>5. CASE Settings(r) \/ Console(r)
    <3>1. \E c \in Cookie : \E copy :
            \/ Becomes(r, "settings", Working("settings", c.user, copy, Refreshed(c)))
            \/ Becomes(r, "console", Working("console", c.user, copy, Refreshed(c)))
      BY <2>5 DEF Settings, Console
    <3>2. PICK c \in Cookie, l \in {"settings", "console"} : \E copy :
            Becomes(r, l, Working(l, c.user, copy, Refreshed(c)))
      BY <3>1
    <3>3. PICK copy : Becomes(r, l, Working(l, c.user, copy, Refreshed(c)))
      BY <3>2
    <3>4. UNCHANGED <<cookies, cookieHistory>>
      BY <2>5 DEF Settings, Console
    <3> DEFINE q == Working(l, c.user, copy, Refreshed(c))
    <3>5. q.do = l /\ l # "none" /\ q.set = Refreshed(c) /\ q.state = Keep
      BY DEF Working
    <3>6. l \in Places \ {"idle"}
      BY DEF Places
    <3> HIDE DEF q
    <3>7. Becomes(r, l, q)
      BY <3>3 DEF q
    <3> QED
      BY <1>1, <3>4, <3>5, <3>6, <3>7, RefreshedReply
  <2>6. CASE UpdateUserRead(r)
    <3>1. PICK do \in {"save", "reset"} : \E u, form : Becomes(r, "save", Under(r, do, u, form))
      BY <2>6, UpdateUserReads DEF Reads
    <3>2. PICK u, form : Becomes(r, "save", Under(r, do, u, form))
      BY <3>1
    <3>3. UNCHANGED <<cookies, cookieHistory>>
      BY <2>6 DEF UpdateUserRead
    <3> DEFINE q == Under(r, do, u, form)
    <3>4. q.do = do /\ q.set = req[r].set /\ q.state = Keep
      BY DEF Under, Working
    <3>5. "save" \in Places \ {"idle"} /\ q.do # "none"
      BY <3>4 DEF Places
    <3>6. q.set.to \subseteq Cookie /\ Single(q.set.to)
      BY <1>0, <3>4 DEF Answered
    <3> HIDE DEF q
    <3>7. Becomes(r, "save", q)
      BY <3>2 DEF q
    <3> QED
      BY <1>1, <3>3, <3>4, <3>5, <3>6, <3>7
  <2>7. CASE SetPassword(r) \/ Refused(r) \/ CreateUser(r) \/ DeleteUser(r) \/ UpdateUserSave(r)
    <3>1. Replies(r, "page", req[r].set) /\ UNCHANGED <<cookies, cookieHistory>>
      BY <2>7 DEF SetPassword, Refused, CreateUser, DeleteUser, UpdateUserSave, Done
    <3> QED
      BY <1>0, <1>2, <3>1 DEF Answered
  <2>8. CASE Reply(r)
    BY <2>8, BrowserReply
  <2> QED
    BY <1>3, <2>1, <2>2, <2>3, <2>4, <2>5, <2>6, <2>7, <2>8 DEF Request
<1>4. CASE UNCHANGED vars
  BY <1>4 DEF vars, BrowserInv
<1> QED
  BY <1>3, <1>4, BrowserTick DEF Next

-----------------------------------------------------------------------------
(* The users table, and what is recorded of it.                            *)
LEMMA RowSecret ==
  ASSUME NEW f \in Row, NEW p \in 1..MaxPasswords, NEW m \in BOOLEAN
  PROVE  [f EXCEPT !.pw = p, !.must = m] \in Row
<1> DEFINE e == [f EXCEPT !.pw = p]
<1>1. e \in Row
  BY DEF Row
<1> HIDE DEF e
<1>2. [e EXCEPT !.must = m] \in Row
  BY <1>1 DEF Row
<1> QED
  BY <1>2 DEF e

LEMMA RowRights ==
  ASSUME NEW f \in Row, NEW a \in BOOLEAN, NEW d \in BOOLEAN
  PROVE  [f EXCEPT !.active = a, !.admin = d] \in Row
<1> DEFINE e == [f EXCEPT !.active = a]
<1>1. e \in Row
  BY DEF Row
<1> HIDE DEF e
<1>2. [e EXCEPT !.admin = d] \in Row
  BY <1>1 DEF Row
<1> QED
  BY <1>2 DEF e

Copied ==
  \A r \in Requests :
    /\ pc[r] = "settings" => \A c \in req[r].copy : c \in Row
    /\ pc[r] = "save" => \A f \in req[r].copy : f[2] \in Row

Recorded ==
  /\ DOMAIN acked = born /\ \A u \in born : acked[u] \in Row
  /\ stale \subseteq born /\ revived \subseteq gone /\ born \ Rows \subseteq gone
  /\ resigned \in BOOLEAN

TableInv ==
  /\ born \subseteq Users /\ \A u \in Rows : rows[u] \in Row
  /\ passwords \in 1..MaxPasswords
  /\ {temporary, created} \subseteq SUBSET (Users \X (1..MaxPasswords))
  /\ Copied /\ Recorded

LEMMA TableInit == Init => TableInv
<1> SUFFICES ASSUME Init PROVE TableInv
  OBVIOUS
<1> DEFINE val == [active |-> TRUE, admin |-> TRUE, must |-> TRUE, pw |-> 1]
<1>1. val \in Row /\ 1 \in 1..MaxPasswords
  BY SessionAssumption DEF Row
<1>2. Rows = {Admin} /\ rows[Admin] = val /\ born = {Admin} /\ acked = rows
  BY DEF Init, Rows
<1>3. passwords = 1 /\ temporary = {<<Admin, 1>>} /\ created = {} /\ Admin \in Users
  BY SessionAssumption DEF Init
<1>4. Copied
  BY DEF Init, Copied
<1>5. Recorded
  BY <1>1, <1>2 DEF Init, Recorded, Rows
<1> HIDE DEF val
<1> QED
  BY <1>1, <1>2, <1>3, <1>4, <1>5 DEF TableInv

LEMMA RowWritten ==
  ASSUME TableInv, NEW u, NEW val \in Row, rows' = With(u, val)
  PROVE  \A v \in Rows' : rows'[v] \in Row
<1>1. /\ Rows' = Rows \union {u} /\ rows'[u] = val
      /\ \A v \in Rows : v # u => rows'[v] = rows[v]
  BY WithRow
<1> QED
  BY <1>1 DEF TableInv

LEMMA RowRecorded ==
  ASSUME Recorded, NEW u, NEW val \in Row, acked' = Acked(u, val), born' = born \union {u}
  PROVE  DOMAIN acked' = born' /\ \A v \in born' : acked'[v] \in Row
<1>1. /\ DOMAIN acked' = DOMAIN acked \union {u} /\ acked'[u] = val
      /\ \A v \in DOMAIN acked : v # u => acked'[v] = acked[v]
  BY AckedRow
<1> QED
  BY <1>1 DEF Recorded

\* A new password, or none.
LEMMA PasswordChosen ==
  ASSUME TableInv, NewPassword
  PROVE  passwords' \in 1..MaxPasswords /\ passwords' = passwords + 1
<1>1. passwords \in 1..MaxPasswords /\ passwords < MaxPasswords /\ passwords' = passwords + 1
  BY DEF NewPassword, TableInv
<1> QED
  BY <1>1, SessionAssumption

\* A request that writes a row holds no copy then; the others keep theirs.
LEMMA CopiedAfter ==
  ASSUME Domains, Copied, NEW r \in Requests, NEW q, Becomes(r, "reply", q)
  PROVE  Copied'
<1>1. /\ pc'[r] = "reply"
      /\ \A s \in Requests : s # r => pc'[s] = pc[s] /\ req'[s] = req[s]
  BY BecomesOne
<1> QED
  BY <1>1 DEF Copied

LEMMA TableStep == Domains /\ GoneInv /\ TableInv /\ [Next]_vars => TableInv'
<1> SUFFICES ASSUME Domains, GoneInv, TableInv, [Next]_vars PROVE TableInv'
  OBVIOUS
<1> USE DEF rowHistory, data
<1>0. /\ Rows \subseteq born /\ gone \subseteq born /\ born \subseteq Users
      /\ \A u \in Rows : rows[u] \in Row
      /\ Copied /\ Recorded
  BY DEF GoneInv, TableInv
<1>1. CASE Quiet
  <2>1. UNCHANGED <<data, rowHistory>> /\ Rows' = Rows
    BY <1>1 DEF Quiet, Rows
  <2>2. Copied'
    <3>1. \A s \in Requests : pc'[s] \in {"settings", "save"} => pc[s] = pc'[s] /\ req'[s] = req[s]
      BY <1>1 DEF Quiet, Copies
    <3> QED
      BY <1>0, <3>1 DEF Copied
  <2>3. Recorded'
    BY <1>0, <2>1 DEF Recorded
  <2> QED
    BY <2>1, <2>2, <2>3 DEF TableInv
<1>2. ASSUME NEW r \in Requests, Writes(r) PROVE TableInv'
  <2>1. CASE SetPassword(r)
    <3> DEFINE u == req[r].user
    <3>1. PICK c \in req[r].copy : \E new \in {c.pw, passwords + 1} :
            /\ IF new = c.pw THEN UNCHANGED passwords ELSE NewPassword
            /\ IF u \in Rows
                 THEN /\ rows' = With(u, Stored(u, c, new))
                      /\ acked' = Acked(u, [acked[u] EXCEPT !.pw = new, !.must = FALSE])
                      /\ temporary' = temporary \ {<<u, new>>}
                 ELSE UNCHANGED <<rows, acked, temporary>>
      BY <2>1 DEF SetPassword
    <3>2. PICK new \in {c.pw, passwords + 1} :
            /\ IF new = c.pw THEN UNCHANGED passwords ELSE NewPassword
            /\ IF u \in Rows
                 THEN /\ rows' = With(u, Stored(u, c, new))
                      /\ acked' = Acked(u, [acked[u] EXCEPT !.pw = new, !.must = FALSE])
                      /\ temporary' = temporary \ {<<u, new>>}
                 ELSE UNCHANGED <<rows, acked, temporary>>
      BY <3>1
    <3>3. /\ pc[r] = "settings" /\ \E q : Becomes(r, "reply", q)
          /\ UNCHANGED <<born, stale, created, gone, revived, resigned>>
      BY <2>1 DEF SetPassword, Done, Replies
    <3>4. c \in Row
      BY <1>0, <3>3 DEF Copied
    <3>5. passwords' \in 1..MaxPasswords /\ new \in 1..MaxPasswords
      <4>1. CASE new = c.pw
        BY <3>2, <3>4, <4>1 DEF TableInv, Row
      <4>2. CASE new # c.pw
        BY <3>2, <4>2, PasswordChosen
      <4> QED
        BY <4>1, <4>2
    <3>6. Copied'
      BY <1>0, <3>3, CopiedAfter
    <3>7. CASE u \in Rows
      <4>1. rows[u] \in Row /\ acked[u] \in Row
        BY <1>0, <3>7 DEF Recorded
      <4>2. Stored(u, c, new) \in Row /\ [acked[u] EXCEPT !.pw = new, !.must = FALSE] \in Row
        BY <3>5, <4>1, RowSecret DEF Stored
      <4>3. /\ rows' = With(u, Stored(u, c, new))
            /\ acked' = Acked(u, [acked[u] EXCEPT !.pw = new, !.must = FALSE])
            /\ temporary' \subseteq temporary /\ born' = born \union {u}
        BY <1>0, <3>2, <3>3, <3>7
      <4>4. \A v \in Rows' : rows'[v] \in Row
        BY <4>2, <4>3, RowWritten
      <4>5. Rows' = Rows
        BY <3>7, <4>3, WithRow
      <4>6. DOMAIN acked' = born' /\ \A v \in born' : acked'[v] \in Row
        <5> DEFINE val == [acked[u] EXCEPT !.pw = new, !.must = FALSE]
        <5>1. val \in Row /\ acked' = Acked(u, val)
          BY <4>2, <4>3
        <5> HIDE DEF val
        <5> QED
          BY <1>0, <4>3, <5>1, RowRecorded
      <4>7. Recorded'
        BY <1>0, <3>3, <4>5, <4>6 DEF Recorded
      <4> QED
        BY <3>3, <3>5, <3>6, <4>3, <4>4, <4>7 DEF TableInv
    <3>8. CASE u \notin Rows
      <4>1. UNCHANGED <<rows, acked, temporary, created, born, stale, gone, revived, resigned>>
            /\ Rows' = Rows
        BY <3>2, <3>3, <3>8 DEF Rows
      <4>2. Recorded'
        BY <1>0, <4>1 DEF Recorded
      <4> QED
        BY <3>5, <3>6, <4>1, <4>2 DEF TableInv
    <3> QED
      BY <3>7, <3>8
  <2>2. CASE CreateUser(r)
    <3>1. PICK u \in Users \ born, admin \in BOOLEAN :
            /\ rows' = With(u, [active |-> TRUE, admin |-> admin, must |-> FALSE,
                                pw |-> passwords'])
            /\ acked' = Acked(u, [active |-> TRUE, admin |-> admin, must |-> FALSE,
                                  pw |-> passwords'])
            /\ born' = born \union {u}
            /\ temporary' \subseteq temporary \union {<<u, passwords'>>}
            /\ created' = created \union {<<u, passwords'>>}
      BY <2>2 DEF CreateUser
    <3> DEFINE val == [active |-> TRUE, admin |-> admin, must |-> FALSE, pw |-> passwords']
    <3>2. /\ NewPassword /\ UNCHANGED <<stale, gone, revived, resigned>>
          /\ \E q : Becomes(r, "reply", q)
      BY <2>2 DEF CreateUser, Done, Replies
    <3>3. passwords' \in 1..MaxPasswords
      BY <3>2, PasswordChosen
    <3>4. val \in Row
      BY <3>3 DEF Row
    <3>5. rows' = With(u, val) /\ acked' = Acked(u, val)
      BY <3>1
    <3> HIDE DEF val
    <3>6. \A v \in Rows' : rows'[v] \in Row
      BY <3>4, <3>5, RowWritten
    <3>7. DOMAIN acked' = born' /\ \A v \in born' : acked'[v] \in Row
      BY <1>0, <3>1, <3>4, <3>5, RowRecorded
    <3>8. Rows' = Rows \union {u}
      BY <3>5, WithRow
    <3>9. Recorded' /\ Copied'
      BY <1>0, <3>1, <3>2, <3>7, <3>8, CopiedAfter DEF Recorded
    <3>10. {temporary', created'} \subseteq SUBSET (Users \X (1..MaxPasswords))
      BY <3>1, <3>3 DEF TableInv
    <3> QED
      BY <1>0, <3>1, <3>3, <3>6, <3>9, <3>10 DEF TableInv
  <2>3. CASE DeleteUser(r)
    <3>1. PICK u \in Rows :
            /\ rows' = [v \in Rows \ {u} |-> rows[v]]
            /\ gone' = gone \union {u} /\ revived' = revived \ {u}
            /\ resigned' = (resigned \/ u = req[r].user \/ ~ Rules(req[r].user))
      BY <2>3 DEF DeleteUser, Removes
    <3>2. UNCHANGED <<born, passwords, acked, stale, temporary, created>> /\ \E q : Becomes(r, "reply", q)
      BY <2>3 DEF DeleteUser, Done, Replies
    <3>3. Rows' = Rows \ {u} /\ \A v \in Rows' : rows'[v] = rows[v]
      BY <3>1 DEF Rows
    <3>4. resigned' \in BOOLEAN
      BY <3>1
    <3>5. Recorded' /\ Copied'
      BY <1>0, <3>1, <3>2, <3>3, <3>4, CopiedAfter DEF Recorded
    <3> QED
      BY <1>0, <3>2, <3>3, <3>5 DEF TableInv
  <2>4. CASE UpdateUserRead(r)
    <3>1. PICK u \in Rows, active \in BOOLEAN, admin \in BOOLEAN : Reads(r, u, active, admin)
      BY <2>4, UpdateUserReads
    <3> DEFINE form == Form(u, active, admin)
    <3>2. UNCHANGED <<rows, born, rowHistory>> /\ Rows' = Rows
      BY <2>4, OneCopy DEF Rows
    <3>3. form \in Row
      BY <1>0, RowRights DEF Form
    <3> HIDE DEF form
    <3>4. \E f \in Row : \E do : Becomes(r, "save", Under(r, do, u, f)) /\ passwords' \in 1..MaxPasswords
      <4>1. CASE Becomes(r, "save", Under(r, "save", u, form)) /\ UNCHANGED passwords
        BY <3>3, <4>1 DEF TableInv
      <4>2. CASE NewPassword /\ Becomes(r, "save", Under(r, "reset", u, Reset(form)))
        <5>1. passwords' \in 1..MaxPasswords
          BY <4>2, PasswordChosen
        <5>2. Reset(form) \in Row
          BY <3>3, <5>1, RowSecret DEF Reset
        <5> QED
          BY <4>2, <5>1, <5>2
      <4> QED
        BY <3>1, <4>1, <4>2 DEF Reads, form
    <3>5. PICK f \in Row : \E do : Becomes(r, "save", Under(r, do, u, f)) /\ passwords' \in 1..MaxPasswords
      BY <3>4
    <3>6. /\ pc'[r] = "save" /\ req'[r].copy = {<<u, f>>}
          /\ \A s \in Requests : s # r => pc'[s] = pc[s] /\ req'[s] = req[s]
      BY <3>5, BecomesOne DEF Under, Working
    <3>7. Copied'
      BY <1>0, <3>6 DEF Copied
    <3>8. Recorded'
      BY <1>0, <3>2 DEF Recorded
    <3> QED
      BY <3>2, <3>5, <3>7, <3>8 DEF TableInv
  <2>5. CASE UpdateUserSave(r)
    <3>1. PICK f \in req[r].copy : \E meant :
            /\ meant \in {f[2]} \union (IF f[1] \in Rows THEN {Form(f[1], f[2].active, f[2].admin)}
                                        ELSE {})
            /\ rows' = With(f[1], Saved(f[1], f[2])) /\ acked' = Acked(f[1], meant)
            /\ stale' \subseteq stale \union {f[1]}
            /\ temporary' \subseteq temporary \union {<<f[1], f[2].pw>>}
            /\ revived' = IF f[1] \in Rows THEN revived ELSE revived \union {f[1]}
            /\ resigned' = resigned
                 \/ resigned' = (resigned \/ f[1] = req[r].user \/ ~ Rules(req[r].user))
      BY <2>5 DEF UpdateUserSave, Form, Removes
    <3>2. /\ pc[r] = "save" /\ UNCHANGED <<born, passwords, created, gone>>
          /\ \E q : Becomes(r, "reply", q)
      BY <2>5 DEF UpdateUserSave, Done, Replies
    <3>3. f[1] \in born /\ f[2] \in Row
      BY <1>0, <3>2 DEF GoneInv, Copied
    <3>4. PICK meant :
            /\ meant \in {f[2]} \union (IF f[1] \in Rows THEN {Form(f[1], f[2].active, f[2].admin)}
                                        ELSE {})
            /\ acked' = Acked(f[1], meant)
      BY <3>1
    <3>5. meant \in Row
      <4>1. f[2].active \in BOOLEAN /\ f[2].admin \in BOOLEAN
        BY <3>3 DEF Row
      <4>2. f[1] \in Rows => Form(f[1], f[2].active, f[2].admin) \in Row
        BY <1>0, <4>1, RowRights DEF Form
      <4> QED
        BY <3>3, <3>4, <4>2
    <3>6. \A v \in Rows' : rows'[v] \in Row
      <4>1. Saved(f[1], f[2]) \in Row
        BY <3>3 DEF Saved, Row
      <4> QED
        BY <3>1, <4>1, RowWritten
    <3>7. born' = born \union {f[1]} /\ Rows' = Rows \union {f[1]}
      BY <3>1, <3>2, <3>3, WithRow
    <3>8. DOMAIN acked' = born' /\ \A v \in born' : acked'[v] \in Row
      BY <1>0, <3>4, <3>5, <3>7, RowRecorded
    <3>9. temporary' \subseteq Users \X (1..MaxPasswords)
      <4>1. f[2].pw \in 1..MaxPasswords /\ f[1] \in Users
        BY <1>0, <3>3 DEF Row
      <4> QED
        BY <3>1, <4>1 DEF TableInv
    <3>10. resigned' \in BOOLEAN
      BY <1>0, <3>1 DEF Recorded
    <3>11. Recorded' /\ Copied'
      BY <1>0, <3>1, <3>2, <3>3, <3>7, <3>8, <3>10, CopiedAfter DEF Recorded
    <3> QED
      BY <3>2, <3>6, <3>9, <3>11 DEF TableInv
  <2>6. CASE Settings(r)
    <3>1. PICK c \in Cookie :
            /\ c.user \in Rows
            /\ Becomes(r, "settings", Working("settings", c.user, {rows[c.user]}, Refreshed(c)))
      BY <2>6 DEF Settings, Valid
    <3>2. UNCHANGED <<data, rowHistory>> /\ Rows' = Rows
      BY <2>6 DEF Settings, Rows
    <3>3. /\ pc'[r] = "settings" /\ req'[r].copy = {rows[c.user]}
          /\ \A s \in Requests : s # r => pc'[s] = pc[s] /\ req'[s] = req[s]
      BY <3>1, BecomesOne DEF Working
    <3>4. Copied'
      BY <1>0, <3>1, <3>3 DEF Copied
    <3>5. Recorded'
      BY <1>0, <3>2 DEF Recorded
    <3> QED
      BY <3>2, <3>4, <3>5 DEF TableInv
  <2> QED
    BY <1>2, <2>1, <2>2, <2>3, <2>4, <2>5, <2>6 DEF Writes
<1> QED
  BY <1>1, <1>2, Steps

LEMMA TypesAre == GoneInv /\ TableInv /\ BrowserInv => TypeOK
<1> SUFFICES ASSUME GoneInv, TableInv, BrowserInv PROVE TypeOK
  OBVIOUS
<1>1. {temporary, created} \subseteq SUBSET (Users \X (1..MaxPasswords))
  BY DEF TableInv
<1>2. \A b \in Browsers : Cardinality(jar[b]) <= 1 /\ Cardinality(state[b]) <= 1
  BY SingleCount DEF BrowserInv
<1>3. ASSUME NEW r \in Requests
      PROVE  /\ pc[r] \in Places /\ (pc[r] = "idle" <=> req[r] = NoReq)
             /\ req[r].set.to \subseteq Cookie /\ req[r].state.to \subseteq 1..flows
  <2>1. NoReq.do = "none"
    BY DEF NoReq
  <2> QED
    BY <2>1 DEF BrowserInv, Answered
<1>4. /\ \A u \in Rows : rows[u] \in Row
      /\ Rows \subseteq born /\ born \subseteq Users /\ gone \subseteq born
      /\ DOMAIN acked = born /\ \A u \in born : acked[u] \in Row
      /\ passwords \in 1..MaxPasswords
      /\ stale \subseteq born /\ revived \subseteq gone /\ resigned \in BOOLEAN
  BY DEF GoneInv, TableInv, Recorded
<1>5. /\ out \subseteq Browsers /\ late \subseteq Requests
      /\ flows \in 0..MaxFlows /\ used \subseteq 1..flows
      /\ \A b \in Browsers : jar[b] \subseteq Cookie /\ state[b] \subseteq 1..flows
  BY DEF BrowserInv
<1> QED
  BY <1>1, <1>2, <1>3, <1>4, <1>5 DEF TypeOK, Places

(* AuthMiddleware, DoLogin, OAuth2Callback, UpdateUser: a browser has one  *)
(* session at most and none beyond its MaxAge, a request that has been     *)
(* answered holds nothing, rows and the copies of rows have the columns of *)
(* the table, and whoever was born and has no row was deleted.             *)
THEOREM TypeCorrect == Spec => []TypeOK
<1>1. GoneInv /\ TableInv => Rows \subseteq Users
  BY DEF GoneInv, TableInv
<1> QED
  BY <1>1, TypesAre, DomainsInit, DomainsStep, GoneInit, GoneStep, TableInit,
     TableStep, BrowserInit, BrowserStep, PTL DEF Spec
=============================================================================
