-------------------------- MODULE MailboxesProofs --------------------------
(***************************************************************************)
(* The folders of a user, proved for any sessions and requests, any names  *)
(* and any number of messages and UIDVALIDITYs.                            *)
(***************************************************************************)
EXTENDS MailboxesProperties, FiniteSetTheorems, WellFoundedInduction, TLAPS

-----------------------------------------------------------------------------
(* Types, with what the program point of a process says of its variables.  *)
Jobable == [do : {"none", "append", "move", "rename", "uid"}, name : Names, to : Names, msg : Nat]
Sight == [next : Nat, members : SUBSET Nat]
Drawing == [value : Nat, first : BOOLEAN]
Resolved(p) == pc[p] \in {"act", "validity", "save"}

TableTypes ==
  /\ boxes \subseteq Names /\ silent \subseteq boxes
  /\ draws \in 0..MaxDraws /\ validity \in [Names -> 0..draws]
MailTypes ==
  /\ lastMail \in 0..MaxMail /\ Mails \subseteq 1..lastMail
  /\ \A m \in Mails : where[m] \in Names
  /\ moved \subseteq 1..lastMail
HistoryTypes ==
  /\ lost \subseteq Custom /\ ensured \in BOOLEAN /\ excused \in BOOLEAN
  /\ cache = {} \/ \E t : cache = {t} /\ t.validity \in 1..Fallback
ProcOK(p) ==
  /\ pc[p] \in {"idle", "ensure"} <=> job[p] = NoJob
  /\ pc[p] = "act" => job[p].do \in {"append", "move", "rename"}
  /\ pc[p] \in {"validity", "save"} => job[p].do = "uid"
  /\ job[p].do = "rename" => job[p].name \in Custom /\ job[p].to \in Custom /\ job[p].name # job[p].to
  /\ drawn[p].value # 0 <=> pc[p] = "save"
  /\ drawn[p].value <= draws
  /\ seen[p] # NoSight => pc[p] \in {"validity", "save"}
ProcFuns ==
  /\ pc \in [Procs -> {"idle", "ensure", "act", "validity", "save"}]
  /\ job \in [Procs -> Jobable] /\ missing \in [Procs -> SUBSET System]
  /\ seen \in [Procs -> Sight] /\ drawn \in [Procs -> Drawing]
ProcTypes == ProcFuns /\ \A p \in Procs : ProcOK(p)
TypeInv == TableTypes /\ MailTypes /\ HistoryTypes /\ ProcTypes

\* The variables of the other processes stay as they are.
Others(p) ==
  \A q \in Procs \ {p} :
    pc'[q] = pc[q] /\ job'[q] = job[q] /\ missing'[q] = missing[q] /\ seen'[q] = seen[q] /\ drawn'[q] = drawn[q]

LEMMA Nothing == NoJob \in Jobable /\ NoSight \in Sight /\ NoDraw \in Drawing
<1>1. NoJob \in Jobable
  BY MailboxAssumption DEF NoJob, Jobable, Names
<1>2. NoSight \in Sight
  BY DEF NoSight, Sight
<1>3. NoDraw \in Drawing
  <2>1. FALSE \in BOOLEAN
    OBVIOUS
  <2> QED
    BY <2>1 DEF NoDraw, Drawing
<1> QED
  BY <1>1, <1>2, <1>3

\* A process that returns forgets everything (the end of a command or request).
LEMMA Returned ==
  ASSUME TypeInv, NEW p \in Procs, Return(p), draws' = draws
  PROVE  /\ ProcTypes' /\ Others(p)
         /\ pc'[p] = "idle" /\ job'[p] = NoJob /\ missing'[p] = {} /\ seen'[p] = NoSight
         /\ drawn'[p] = NoDraw
<1>1. ProcFuns' /\ Others(p)
  BY Nothing DEF TypeInv, ProcTypes, ProcFuns, Return, Goto, Others
<1>2. /\ pc'[p] = "idle" /\ job'[p] = NoJob /\ missing'[p] = {} /\ seen'[p] = NoSight
      /\ drawn'[p] = NoDraw
  BY DEF TypeInv, ProcTypes, ProcFuns, Return, Goto
<1>3. ProcOK(p)'
  BY <1>2 DEF ProcOK, NoJob, NoDraw, TypeInv, TableTypes
<1>4. ASSUME NEW q \in Procs \ {p} PROVE ProcOK(q)'
  BY <1>1 DEF TypeInv, ProcTypes, ProcOK, Others
<1> QED
  BY <1>1, <1>2, <1>3, <1>4 DEF ProcTypes

\* A step of p that is well-typed itself.
LEMMA OneMoves ==
  ASSUME TypeInv, NEW p \in Procs, ProcFuns', Others(p), ProcOK(p)', draws' \in Nat, draws' >= draws
  PROVE  ProcTypes'
<1>1. ASSUME NEW q \in Procs \ {p} PROVE ProcOK(q)'
  <2>1. drawn[q].value \in Nat /\ draws \in Nat
    BY DEF TypeInv, TableTypes, ProcTypes, ProcFuns, Drawing
  <2> QED
    BY <2>1 DEF TypeInv, ProcTypes, ProcOK, Others
<1> QED
  BY <1>1 DEF ProcTypes

LEMMA InitTypes == Init => TypeInv
<1> SUFFICES ASSUME Init PROVE TypeInv
  OBVIOUS
<1> USE MailboxAssumption DEF Init
<1>1. TableTypes
  <2>1. draws = 0 /\ validity \in [Names -> 0..0]
    OBVIOUS
  <2> QED
    BY <2>1 DEF TableTypes
<1>2. MailTypes
  BY DEF MailTypes, Mails
<1>3. HistoryTypes
  BY DEF HistoryTypes
<1>4. ProcFuns
  BY Nothing DEF ProcFuns
<1>5. ASSUME NEW p \in Procs PROVE ProcOK(p)
  BY DEF ProcOK, NoJob, NoDraw
<1> QED
  BY <1>1, <1>2, <1>3, <1>4, <1>5 DEF TypeInv, ProcTypes

-----------------------------------------------------------------------------
(* Every step keeps the types.                                             *)
LEMMA SameTables ==
  ASSUME TableTypes, UNCHANGED <<folderVars, stateVars>>
  PROVE  TableTypes'
BY DEF TableTypes, folderVars, stateVars

LEMMA SameMails ==
  ASSUME MailTypes, UNCHANGED <<mailVars, moved>>
  PROVE  MailTypes'
BY DEF MailTypes, mailVars, Mails

LEMMA SameHistory ==
  ASSUME HistoryTypes, UNCHANGED <<cache, excused, lost>>, ensured' \in BOOLEAN
  PROVE  HistoryTypes'
BY DEF HistoryTypes

LEMMA SameProcs ==
  ASSUME ProcTypes, UNCHANGED <<procVars, draws>>
  PROVE  ProcTypes'
BY DEF ProcTypes, ProcFuns, ProcOK, procVars

\* EnsureSystem.
LEMMA EnsureTypes ==
  ASSUME TypeInv, NEW p \in Procs, EnsureRead(p) \/ EnsureCreate(p) \/ EnsureFails(p)
  PROVE  TypeInv'
<1>1. CASE EnsureRead(p)
  <2>1. TableTypes' /\ MailTypes' /\ HistoryTypes'
    BY <1>1, SameTables, SameMails, SameHistory DEF EnsureRead, TypeInv, history, HistoryTypes
  <2>2. ProcFuns' /\ Others(p)
    BY <1>1 DEF EnsureRead, Goto, TypeInv, ProcTypes, ProcFuns, Others
  <2>3. ProcOK(p)'
    BY <1>1 DEF EnsureRead, Goto, TypeInv, ProcTypes, ProcFuns, ProcOK, NoJob, stateVars
  <2>4. draws' \in Nat /\ draws' >= draws
    BY <1>1, MailboxAssumption DEF EnsureRead, stateVars, TypeInv, TableTypes
  <2> QED
    BY <2>1, <2>2, <2>3, <2>4, OneMoves DEF TypeInv
<1>2. CASE EnsureCreate(p)
  <2>1. MailTypes' /\ HistoryTypes'
    BY <1>2, SameMails, SameHistory DEF EnsureCreate, TypeInv, history, HistoryTypes
  <2>2. TableTypes'
    <3>1. PICK f \in missing[p] \ boxes : boxes' = boxes \union {f}
      BY <1>2 DEF EnsureCreate
    <3>2. f \in Names
      BY <3>1 DEF TypeInv, ProcTypes, ProcFuns, Names
    <3> QED
      BY <1>2, <3>1, <3>2 DEF EnsureCreate, TypeInv, TableTypes, stateVars
  <2>3. ProcFuns' /\ Others(p)
    BY <1>2 DEF EnsureCreate, TypeInv, ProcTypes, ProcFuns, Others
  <2>4. ProcOK(p)'
    BY <1>2 DEF EnsureCreate, TypeInv, ProcTypes, ProcFuns, ProcOK, stateVars
  <2>5. draws' \in Nat /\ draws' >= draws
    BY <1>2, MailboxAssumption DEF EnsureCreate, stateVars, TypeInv, TableTypes
  <2> QED
    BY <2>1, <2>2, <2>3, <2>4, <2>5, OneMoves DEF TypeInv
<1>3. CASE EnsureFails(p)
  <2>1. TableTypes' /\ MailTypes' /\ HistoryTypes'
    BY <1>3, SameTables, SameMails, SameHistory DEF EnsureFails, TypeInv, history, HistoryTypes
  <2>2. Return(p) /\ draws' = draws
    BY <1>3 DEF EnsureFails, stateVars
  <2> QED
    BY <2>1, <2>2, Returned DEF TypeInv
<1> QED
  BY <1>1, <1>2, <1>3

LEMMA LookupTypes ==
  ASSUME TypeInv, NEW p \in Procs, Lookup(p)
  PROVE  TypeInv'
<1>1. TableTypes' /\ MailTypes' /\ HistoryTypes'
  BY SameTables, SameMails, SameHistory DEF Lookup, TypeInv
<1>2. PICK j \in Jobs : job' = [job EXCEPT ![p] = j]
  BY DEF Lookup
<1>3. /\ j \in Jobable /\ j.do \in {"append", "move", "rename"}
      /\ j.do = "rename" => j.name \in Custom /\ j.to \in Custom /\ j.name # j.to
  <2>1. boxes \subseteq Names /\ Mails \subseteq Nat /\ Inbox \in Names
    BY MailboxAssumption DEF TypeInv, TableTypes, MailTypes, Names
  <2>2. CASE j \in [do : {"append"}, name : boxes, to : {Inbox}, msg : {0}]
    BY <2>1, <2>2 DEF Jobable
  <2>3. CASE j \in [do : {"move"}, name : boxes, to : {Inbox}, msg : Mails]
    BY <2>1, <2>3 DEF Jobable
  <2>4. CASE j \in [do : {"rename"}, name : boxes \ System, to : Custom \ boxes, msg : {0}]
    <3>1. j.name \in boxes \ System /\ j.to \in Custom \ boxes
      BY <2>4
    <3>2. j.name \in Custom /\ j.to \in Custom /\ j.name # j.to
      BY <2>1, <3>1 DEF Names
    <3> QED
      BY <2>4, <3>2 DEF Jobable, Names
  <2> QED
    BY <2>2, <2>3, <2>4 DEF Jobs
<1>4. ProcFuns' /\ Others(p)
  BY <1>2, <1>3 DEF Lookup, Goto, TypeInv, ProcTypes, ProcFuns, Others
<1>5. ProcOK(p)'
  <2>1. pc'[p] = "act" /\ job'[p] = j /\ drawn'[p] = drawn[p] /\ seen'[p] = seen[p] /\ draws' = draws
    BY <1>2 DEF Lookup, Goto, TypeInv, ProcTypes, ProcFuns, stateVars
  <2>2. pc[p] \in {"idle", "ensure"}
    BY DEF Lookup, Ready
  <2>3. j # NoJob
    BY <1>3 DEF NoJob
  <2> QED
    BY <1>3, <2>1, <2>2, <2>3 DEF ProcOK, TypeInv, ProcTypes
<1>6. draws' \in Nat /\ draws' >= draws
  BY MailboxAssumption DEF Lookup, stateVars, TypeInv, TableTypes
<1> QED
  BY <1>1, <1>4, <1>5, <1>6, OneMoves DEF TypeInv

\* What a step that returns leaves to be shown.
LEMMA ReturnTypes ==
  ASSUME TypeInv, NEW p \in Procs, Return(p), draws' = draws,
         TableTypes', MailTypes', HistoryTypes'
  PROVE  TypeInv'
BY Returned DEF TypeInv

\* Create, SetSubscribed and Delete.
LEMMA StatementTypes ==
  ASSUME TypeInv, NEW p \in Procs, Create(p) \/ SetSubscribed(p) \/ Delete(p)
  PROVE  TypeInv'
<1>1. CASE Create(p)
  <2>1. TableTypes'
    BY <1>1, MailboxAssumption DEF Create, TypeInv, TableTypes, stateVars
  <2>2. MailTypes' /\ HistoryTypes'
    BY <1>1, SameMails, SameHistory DEF Create, TypeInv
  <2> QED
    BY <1>1, <2>1, <2>2, ReturnTypes DEF Create, stateVars
<1>2. CASE SetSubscribed(p)
  <2>1. TableTypes'
    BY <1>2, MailboxAssumption DEF SetSubscribed, TypeInv, TableTypes, stateVars
  <2>2. MailTypes' /\ HistoryTypes'
    BY <1>2, SameMails, SameHistory DEF SetSubscribed, TypeInv
  <2> QED
    BY <1>2, <2>1, <2>2, ReturnTypes DEF SetSubscribed, stateVars
<1>3. CASE Delete(p)
  <2>1. PICK f \in Removable : boxes' = boxes \ {f} /\ silent' = silent \ {f} /\ Gone(f, Taken(f, p))
    BY <1>3 DEF Delete
  <2>2. TableTypes'
    <3>1. draws' = draws
      BY <1>3 DEF Delete
    <3>2. validity' \in [Names -> 0..draws']
      <4>1. 0 \in 0..draws /\ validity \in [Names -> 0..draws]
        BY MailboxAssumption DEF TypeInv, TableTypes
      <4> QED
        BY <2>1, <3>1, <4>1 DEF Gone
    <3>3. boxes' \subseteq Names /\ silent' \subseteq boxes'
      BY <2>1 DEF TypeInv, TableTypes
    <3> QED
      BY <3>1, <3>2, <3>3 DEF TypeInv, TableTypes
  <2>3. MailTypes'
    BY <1>3, SameMails DEF Delete, TypeInv
  <2>4. HistoryTypes'
    <3>1. lost' \subseteq Custom
      BY <2>1 DEF Gone, Taken, Removable, TypeInv, TableTypes, HistoryTypes, Names
    <3>2. excused' \in BOOLEAN
      BY <2>1 DEF Gone, TypeInv, HistoryTypes
    <3> QED
      BY <1>3, <3>1, <3>2 DEF Delete, TypeInv, HistoryTypes
  <2> QED
    BY <1>3, <2>2, <2>3, <2>4, ReturnTypes DEF Delete
<1> QED
  BY <1>1, <1>2, <1>3

LEMMA RenameTypes ==
  ASSUME TypeInv, NEW p \in Procs, Rename(p)
  PROVE  TypeInv'
<1> DEFINE f == job[p].name
           g == job[p].to
<1>1. f \in Custom /\ g \in Custom /\ f \in Names /\ g \in Names
  BY DEF Rename, Acts, TypeInv, ProcTypes, ProcOK, Names
<1>2. Return(p) /\ UNCHANGED <<draws, lastMail, cache, moved, ensured>>
  BY DEF Rename
<1>3. \/ UNCHANGED <<folderVars, validity, where, excused, lost>>
      \/ /\ boxes' = (boxes \ {f}) \union (IF f \in boxes THEN {g} ELSE {})
         /\ silent' = (silent \ {f}) \union (IF f \in silent THEN {g} ELSE {})
         /\ where' = [m \in Mails |-> IF where[m] = f THEN g ELSE where[m]]
         /\ Gone(f, Taken(f, p) \union Merged(f, g))
  BY DEF Rename
<1> HIDE DEF f, g
<1>4. CASE UNCHANGED <<folderVars, validity, where, excused, lost>>
  <2>1. ensured' \in BOOLEAN
    BY <1>2 DEF TypeInv, HistoryTypes
  <2> QED
    BY <1>2, <1>4, <2>1, ReturnTypes, SameTables, SameMails, SameHistory
    DEF TypeInv, stateVars, mailVars
<1>5. CASE /\ boxes' = (boxes \ {f}) \union (IF f \in boxes THEN {g} ELSE {})
           /\ silent' = (silent \ {f}) \union (IF f \in silent THEN {g} ELSE {})
           /\ where' = [m \in Mails |-> IF where[m] = f THEN g ELSE where[m]]
           /\ Gone(f, Taken(f, p) \union Merged(f, g))
  <2>1. TableTypes'
    BY <1>1, <1>2, <1>5, MailboxAssumption DEF Gone, TypeInv, TableTypes
  <2>2. MailTypes'
    <3>1. Mails' = Mails
      BY <1>5 DEF Mails
    <3>2. \A m \in Mails : where'[m] \in Names
      BY <1>1, <1>5 DEF TypeInv, MailTypes
    <3> QED
      BY <1>2, <3>1, <3>2 DEF TypeInv, MailTypes
  <2>3. HistoryTypes'
    <3>1. lost' \subseteq Custom
      BY <1>1, <1>5 DEF Gone, Taken, Merged, TypeInv, HistoryTypes
    <3>2. excused' \in BOOLEAN
      BY <1>5 DEF Gone, TypeInv, HistoryTypes
    <3> QED
      BY <1>2, <3>1, <3>2 DEF TypeInv, HistoryTypes
  <2> QED
    BY <1>2, <2>1, <2>2, <2>3, ReturnTypes
<1> QED
  BY <1>3, <1>4, <1>5

\* The last step of an operation, before UidValidity: only p's point and job change.
LEMMA ThenTypes ==
  ASSUME TypeInv, NEW p \in Procs, NEW f \in Names, Then(p, f), draws' = draws,
         pc[p] # "save",
         UNCHANGED drawn, missing' \in [Procs -> SUBSET System], seen' \in [Procs -> Sight],
         \A q \in Procs \ {p} : missing'[q] = missing[q] /\ seen'[q] = seen[q]
  PROVE  ProcTypes' /\ Others(p)
<1> DEFINE j == [NoJob EXCEPT !.do = "uid", !.name = f]
<1>1. j \in Jobable /\ j.do = "uid" /\ j # NoJob
  <2>1. Inbox \in Names
    BY MailboxAssumption DEF Names
  <2>2. j \in Jobable
    BY <2>1 DEF Jobable, NoJob
  <2> QED
    BY <2>2 DEF NoJob
<1>2. job' = [job EXCEPT ![p] = j]
  BY DEF Then
<1> HIDE DEF j
<1>3. pc' = [pc EXCEPT ![p] = "validity"]
  BY DEF Then, Goto
<1>4. ProcFuns' /\ Others(p)
  BY <1>1, <1>2, <1>3 DEF TypeInv, ProcTypes, ProcFuns, Others
<1>5. pc'[p] = "validity" /\ job'[p] = j
  BY <1>2, <1>3 DEF TypeInv, ProcTypes, ProcFuns
<1>6. ProcOK(p)'
  BY <1>1, <1>5 DEF TypeInv, ProcTypes, ProcOK
<1>7. draws' \in Nat /\ draws' >= draws
  BY MailboxAssumption DEF TypeInv, TableTypes
<1> QED
  BY <1>4, <1>6, <1>7, OneMoves

\* A message comes.
LEMMA ArrivesTypes ==
  ASSUME TypeInv, NEW f \in Names, Arrives(f), UNCHANGED moved
  PROVE  /\ MailTypes' /\ lastMail \in Nat /\ lastMail' = lastMail + 1
         /\ Mails' = Mails \union {lastMail'} /\ lastMail' \notin Mails
         /\ \A m \in Mails : where'[m] = where[m]
         /\ where'[lastMail'] = f
<1>1. lastMail \in Nat /\ lastMail' = lastMail + 1 /\ lastMail < MaxMail /\ MaxMail \in Nat
  BY MailboxAssumption DEF Arrives, TypeInv, MailTypes
<1>2. where' = [m \in Mails \union {lastMail'} |-> IF m = lastMail' THEN f ELSE where[m]]
  BY DEF Arrives
<1>3. Mails' = Mails \union {lastMail'}
  BY <1>2 DEF Mails
<1>4. lastMail' \notin Mails
  BY <1>1 DEF TypeInv, MailTypes
<1>5. (\A m \in Mails : where'[m] = where[m]) /\ where'[lastMail'] = f
  BY <1>2, <1>4
<1>6. MailTypes'
  <2>1. 1..lastMail \subseteq 1..lastMail' /\ lastMail' \in 0..MaxMail /\ lastMail' \in 1..lastMail'
    BY <1>1
  <2>2. Mails' \subseteq 1..lastMail' /\ moved' \subseteq 1..lastMail'
    BY <1>3, <2>1 DEF TypeInv, MailTypes
  <2>3. \A m \in Mails' : where'[m] \in Names
    BY <1>3, <1>5 DEF TypeInv, MailTypes
  <2> QED
    BY <2>1, <2>2, <2>3 DEF MailTypes
<1> QED
  BY <1>1, <1>3, <1>4, <1>5, <1>6

LEMMA AppendTypes ==
  ASSUME TypeInv, NEW p \in Procs, Append(p)
  PROVE  TypeInv'
<1>1. job[p].name \in Names /\ pc[p] = "act"
  BY DEF Append, Acts, TypeInv, ProcTypes, ProcFuns, Jobable
<1>2. /\ Arrives(job[p].name) /\ Then(p, job[p].name)
      /\ UNCHANGED <<folderVars, stateVars, missing, seen, drawn, cache, excused, moved, lost, ensured>>
  BY DEF Append, history
<1>3. TableTypes' /\ HistoryTypes'
  BY <1>2, SameTables, SameHistory DEF TypeInv, HistoryTypes
<1>4. MailTypes'
  BY <1>1, <1>2, ArrivesTypes
<1>5. ProcTypes'
  BY <1>1, <1>2, ThenTypes DEF TypeInv, ProcTypes, ProcFuns, stateVars
<1> QED
  BY <1>3, <1>4, <1>5 DEF TypeInv

LEMMA MoveTypes ==
  ASSUME TypeInv, NEW p \in Procs, Move(p)
  PROVE  TypeInv'
<1>1. job[p].name \in Names /\ pc[p] = "act"
  BY DEF Move, Acts, TypeInv, ProcTypes, ProcFuns, Jobable
<1>2. /\ Then(p, job[p].name)
      /\ UNCHANGED <<folderVars, stateVars, lastMail, missing, seen, drawn, cache, excused, lost, ensured>>
  BY DEF Move
<1>3. TableTypes' /\ HistoryTypes'
  BY <1>2, SameTables, SameHistory DEF TypeInv, HistoryTypes
<1>4. MailTypes'
  <2>1. CASE job[p].msg \in Mails
    <3>1. where' = [where EXCEPT ![job[p].msg] = job[p].name] /\ moved' = moved \union {job[p].msg}
      BY <2>1 DEF Move
    <3>2. Mails' = Mails
      BY <3>1 DEF Mails
    <3>3. \A m \in Mails : where'[m] = where[m] \/ where'[m] = job[p].name
      BY <3>1 DEF Mails
    <3> QED
      BY <1>1, <1>2, <2>1, <3>1, <3>2, <3>3 DEF TypeInv, MailTypes
  <2>2. CASE job[p].msg \notin Mails
    BY <1>2, <2>2, SameMails DEF Move, TypeInv, mailVars
  <2> QED
    BY <2>1, <2>2
<1>5. ProcTypes'
  BY <1>1, <1>2, ThenTypes DEF TypeInv, ProcTypes, ProcFuns, stateVars
<1> QED
  BY <1>3, <1>4, <1>5 DEF TypeInv

-----------------------------------------------------------------------------
(* The highest UID of a folder. The library's induction takes a predicate  *)
(* as a parameter; that < is well founded serves for a set of naturals.    *)
LEMMA LeastNumber ==
  ASSUME NEW T \in SUBSET Nat, T # {}
  PROVE  \E x \in T : \A y \in T : x <= y
<1> DEFINE R == OpToRel(<, Nat)
<1>1. IsWellFoundedOn(R, Nat)
  BY NatLessThanWellFounded
<1>2. \A x, y \in Nat : x < y => <<x, y>> \in R
  BY DEF OpToRel
<1> HIDE DEF R
<1>3. PICK x \in T : \A y \in T : ~ (<<y, x>> \in R)
  BY <1>1, WFMin
<1>4. ASSUME NEW y \in T PROVE x <= y
  <2>1. x \in Nat /\ y \in Nat /\ ~ (y < x)
    BY <1>2, <1>3
  <2> QED
    BY <2>1
<1> QED
  BY <1>4

LEMMA GreatestNumber ==
  ASSUME NEW n \in Nat, NEW S \in SUBSET (1..n)
  PROVE  Greatest(S) \in S \union {0} /\ \A k \in S : k <= Greatest(S)
<1> DEFINE U == {u \in Nat : \A k \in S : k <= u}
<1>1. PICK u \in U : \A v \in U : u <= v
  <2>1. n \in U
    OBVIOUS
  <2> HIDE DEF U
  <2>2. U \in SUBSET Nat
    BY DEF U
  <2> QED
    BY <2>1, <2>2, LeastNumber
<1>2. u \in S \union {0}
  <2> SUFFICES ASSUME u \notin S \union {0} PROVE FALSE
    OBVIOUS
  <2>1. u - 1 \in Nat /\ u - 1 < u
    OBVIOUS
  <2>2. \A k \in S : k <= u - 1
    <3> TAKE k \in S
    <3>1. k \in Nat /\ k <= u /\ k # u
      OBVIOUS
    <3> QED
      BY <2>1, <3>1
  <2>3. u - 1 \in U
    BY <2>1, <2>2
  <2> QED
    BY <1>1, <2>1, <2>3
<1>3. \E g \in S \union {0} : \A k \in S : k <= g
  BY <1>1, <1>2
<1> QED
  BY <1>3 DEF Greatest

-----------------------------------------------------------------------------
\* The highest UID is that of a message that has been stored.
LEMMA Bounded ==
  ASSUME MailTypes, NEW f
  PROVE  /\ lastMail \in Nat /\ In(f) \in SUBSET (1..lastMail)
         /\ Greatest(In(f)) \in 0..lastMail
<1>1. lastMail \in Nat
  BY MailboxAssumption DEF MailTypes
<1>2. In(f) \in SUBSET (1..lastMail)
  BY DEF MailTypes, In
<1>3. Greatest(In(f)) \in In(f) \union {0}
  BY <1>1, <1>2, GreatestNumber
<1> QED
  BY <1>1, <1>2, <1>3

LEMMA SelectTypes ==
  ASSUME TypeInv, NEW p \in Procs, Select(p)
  PROVE  TypeInv'
<1>1. PICK f \in boxes :
        /\ seen' = [seen EXCEPT ![p] = [next |-> Greatest(In(f)) + 1, members |-> In(f)]]
        /\ Then(p, f)
  BY DEF Select
<1>2. /\ missing' = [missing EXCEPT ![p] = {}] /\ ensured' = TRUE
      /\ UNCHANGED <<folderVars, stateVars, mailVars, drawn, cache, excused, moved, lost>>
  BY DEF Select
<1>3. TableTypes' /\ MailTypes' /\ HistoryTypes'
  BY <1>2, SameTables, SameMails, SameHistory DEF TypeInv
<1>4. f \in Names /\ pc[p] # "save"
  BY DEF Select, Ready, TypeInv, TableTypes
<1>5. missing' \in [Procs -> SUBSET System] /\ \A q \in Procs \ {p} : missing'[q] = missing[q]
  BY <1>2 DEF TypeInv, ProcTypes, ProcFuns
<1>6. seen' \in [Procs -> Sight] /\ \A q \in Procs \ {p} : seen'[q] = seen[q]
  <2>1. Greatest(In(f)) + 1 \in Nat /\ In(f) \in SUBSET Nat
    BY Bounded DEF TypeInv
  <2>2. [next |-> Greatest(In(f)) + 1, members |-> In(f)] \in Sight
    BY <2>1 DEF Sight
  <2> QED
    BY <1>1, <2>2 DEF TypeInv, ProcTypes, ProcFuns
<1>7. ProcTypes'
  BY <1>1, <1>2, <1>4, <1>5, <1>6, ThenTypes DEF stateVars
<1> QED
  BY <1>3, <1>7 DEF TypeInv

\* What a client is told is a UIDVALIDITY.
LEMMA TellsTypes ==
  ASSUME TypeInv, NEW p \in Procs, NEW v \in 1..Fallback, Tells(p, v),
         UNCHANGED <<lost, ensured>>, excused' \in BOOLEAN
  PROVE  HistoryTypes'
<1>1. \/ UNCHANGED cache
      \/ \E t : cache' = {t} /\ t.validity = v
  BY DEF Tells
<1> QED
  BY <1>1 DEF TypeInv, HistoryTypes

LEMMA Validities ==
  ASSUME TypeInv
  PROVE  /\ draws \in 0..MaxDraws /\ MaxDraws \in Nat /\ draws \in Nat
         /\ Fallback = MaxDraws + 1 /\ Fallback \in 1..Fallback
         /\ 1..draws \subseteq 1..Fallback /\ \A p \in Procs : drawn[p].value \in 0..draws
<1>1. draws \in 0..MaxDraws /\ MaxDraws \in Nat
  BY MailboxAssumption DEF TypeInv, TableTypes
<1>2. \A p \in Procs : drawn[p].value \in Nat /\ drawn[p].value <= draws
  BY DEF TypeInv, ProcTypes, ProcFuns, ProcOK, Drawing
<1> QED
  BY <1>1, <1>2 DEF Fallback

LEMMA AnswerTypes ==
  ASSUME TypeInv, NEW p \in Procs, Known(p) \/ FallsBack(p) \/ Save(p)
  PROVE  TypeInv'
<1> DEFINE f == job[p].name
<1>0. f \in Names /\ validity[f] \in 0..draws
  BY DEF TypeInv, TableTypes, ProcTypes, ProcFuns, Jobable
<1>1. CASE Known(p)
  <2>1. /\ Tells(p, validity[f]) /\ Return(p)
        /\ UNCHANGED <<folderVars, stateVars, mailVars, excused, moved, lost, ensured>>
    BY <1>1 DEF Known
  <2>2. validity[f] \in 1..Fallback
    <3>1. validity[f] # 0
      BY <1>1 DEF Known
    <3> QED
      BY <1>0, <3>1, Validities
  <2>3. HistoryTypes'
    BY <2>1, <2>2, TellsTypes DEF TypeInv, HistoryTypes
  <2> QED
    BY <2>1, <2>3, SameTables, SameMails, ReturnTypes DEF TypeInv, stateVars
<1>2. CASE FallsBack(p)
  <2>1. /\ Tells(p, Fallback) /\ Return(p) /\ excused' = (excused \/ cache' # cache)
        /\ UNCHANGED <<folderVars, stateVars, mailVars, moved, lost, ensured>>
    BY <1>2 DEF FallsBack
  <2>2. HistoryTypes'
    BY <2>1, Validities, TellsTypes DEF TypeInv, HistoryTypes
  <2> QED
    BY <2>1, <2>2, SameTables, SameMails, ReturnTypes DEF TypeInv, stateVars
<1>3. CASE Save(p)
  <2> DEFINE v == drawn[p].value
  <2>1. /\ validity' = [validity EXCEPT ![f] = v] /\ Tells(p, v) /\ Return(p)
        /\ excused' = (excused \/ (drawn[p].first /\ Cached(f)))
        /\ UNCHANGED <<folderVars, draws, mailVars, moved, lost, ensured>>
    BY <1>3 DEF Save
  <2>2. v \in 0..draws /\ v \in 1..Fallback
    <3>1. v # 0 /\ v \in 0..draws
      BY <1>3, Validities DEF Save, TypeInv, ProcTypes, ProcOK
    <3> QED
      BY <3>1, Validities
  <2>3. TableTypes'
    BY <1>0, <2>1, <2>2 DEF TypeInv, TableTypes, folderVars
  <2>4. excused' \in BOOLEAN
    <3>1. drawn[p].first \in BOOLEAN
      BY DEF TypeInv, ProcTypes, ProcFuns, Drawing
    <3> QED
      BY <2>1, <3>1 DEF Cached, TypeInv, HistoryTypes
  <2>5. HistoryTypes'
    BY <2>1, <2>2, <2>4, TellsTypes
  <2> QED
    BY <2>1, <2>3, <2>5, SameMails, ReturnTypes DEF TypeInv
<1> QED
  BY <1>1, <1>2, <1>3

LEMMA DrawTypes ==
  ASSUME TypeInv, NEW p \in Procs, Draw(p)
  PROVE  TypeInv'
<1>1. draws' = draws + 1 /\ draws < MaxDraws
  BY DEF Draw
<1>2. drawn' = [drawn EXCEPT ![p] = [value |-> draws', first |-> validity[job[p].name] = 0]]
  BY DEF Draw
<1>3. /\ pc' = [pc EXCEPT ![p] = "save"] /\ pc[p] = "validity"
      /\ UNCHANGED <<folderVars, validity, mailVars, job, missing, seen, cache, excused, moved, lost, ensured>>
  BY DEF Draw, Goto, history
<1>4. draws \in Nat /\ MaxDraws \in Nat
  BY Validities
<1>5. TableTypes'
  BY <1>1, <1>3, <1>4 DEF TypeInv, TableTypes, folderVars
<1>6. MailTypes' /\ HistoryTypes'
  BY <1>3, SameMails, SameHistory DEF TypeInv, HistoryTypes
<1>7. ProcFuns' /\ Others(p)
  <2>1. [value |-> draws', first |-> validity[job[p].name] = 0] \in Drawing
    <3>1. (validity[job[p].name] = 0) \in BOOLEAN
      OBVIOUS
    <3> QED
      BY <1>1, <1>4, <3>1 DEF Drawing
  <2> QED
    BY <1>2, <1>3, <2>1 DEF TypeInv, ProcTypes, ProcFuns, Others
<1>8. ProcOK(p)'
  <2>1. pc'[p] = "save" /\ drawn'[p].value = draws' /\ job' = job /\ seen' = seen
    BY <1>2, <1>3 DEF TypeInv, ProcTypes, ProcFuns
  <2> QED
    BY <1>1, <1>3, <1>4, <2>1 DEF TypeInv, ProcTypes, ProcOK
<1> QED
  BY <1>1, <1>4, <1>5, <1>6, <1>7, <1>8, OneMoves DEF TypeInv

\* Deliveries and removals, of no process, and errors.
LEMMA ServiceTypes ==
  ASSUME TypeInv, Deliver \/ Expunge
  PROVE  TypeInv'
<1>1. UNCHANGED <<folderVars, stateVars, procVars, cache, excused, moved, lost, ensured>>
  BY DEF Deliver, Expunge, history
<1>2. TableTypes' /\ HistoryTypes' /\ ProcTypes'
  BY <1>1, SameTables, SameHistory, SameProcs DEF TypeInv, HistoryTypes, stateVars
<1>3. CASE Deliver
  BY <1>1, <1>2, <1>3, MailboxAssumption, ArrivesTypes DEF Deliver, TypeInv, Names
<1>4. CASE Expunge
  <2>1. PICK m \in Mails : where' = [k \in Mails \ {m} |-> where[k]]
    BY <1>4 DEF Expunge
  <2>2. Mails' = Mails \ {m} /\ lastMail' = lastMail
    BY <1>4, <2>1 DEF Expunge, Mails
  <2> QED
    BY <1>1, <1>2, <2>1, <2>2 DEF TypeInv, MailTypes
<1> QED
  BY <1>3, <1>4

LEMMA FailsTypes ==
  ASSUME TypeInv, NEW p \in Procs, Fails(p)
  PROVE  TypeInv'
BY ReturnTypes, SameTables, SameMails, SameHistory
DEF Fails, TypeInv, HistoryTypes, history, stateVars

LEMMA StepTypes == TypeInv /\ [Next]_vars => TypeInv'
<1> SUFFICES ASSUME TypeInv, [Next]_vars PROVE TypeInv'
  OBVIOUS
<1>1. ASSUME NEW p \in Procs,
             \/ EnsureRead(p) \/ EnsureCreate(p) \/ EnsureFails(p) \/ Lookup(p)
             \/ Create(p) \/ SetSubscribed(p) \/ Delete(p) \/ Rename(p)
             \/ Append(p) \/ Move(p) \/ Select(p) \/ Fails(p)
             \/ Known(p) \/ FallsBack(p) \/ Draw(p) \/ Save(p)
      PROVE  TypeInv'
  BY <1>1, EnsureTypes, LookupTypes, StatementTypes, RenameTypes, AppendTypes, MoveTypes,
     SelectTypes, FailsTypes, AnswerTypes, DrawTypes
<1>2. CASE UNCHANGED vars
  BY <1>2, SameTables, SameMails, SameHistory, SameProcs
  DEF vars, history, stateVars, TypeInv, HistoryTypes
<1> QED
  BY <1>1, <1>2, ServiceTypes DEF Next

LEMMA Types == Spec => []TypeInv
<1> QED
  BY InitTypes, StepTypes, PTL DEF Spec

-----------------------------------------------------------------------------
(* What the steps of a process do to folders and messages: one that does   *)
(* not delete or rename adds to them, under the name it has resolved.      *)
Step(p) ==
  \/ EnsureRead(p) \/ EnsureCreate(p) \/ EnsureFails(p) \/ Lookup(p)
  \/ Create(p) \/ SetSubscribed(p) \/ Delete(p) \/ Rename(p)
  \/ Append(p) \/ Move(p) \/ Select(p) \/ Fails(p)
  \/ Known(p) \/ FallsBack(p) \/ Draw(p) \/ Save(p)

Adds(p) ==
  /\ boxes \subseteq boxes' /\ lost' = lost
  /\ \A m \in Mails' :
       \/ m \in Mails /\ where'[m] = where[m]
       \/ Resolved(p) /\ where'[m] = job[p].name
  /\ \A f \in Names : validity'[f] = validity[f] \/ (Resolved(p) /\ f = job[p].name)

\* A process that uses a name has found its folder, or goes on with the one it had.
Follows(p) ==
  Resolved(p)' => job'[p].name \in boxes \/ (Resolved(p) /\ job'[p].name = job[p].name)

LEMMA SameFolders ==
  ASSUME NEW p \in Procs, boxes \subseteq boxes', UNCHANGED <<lost, mailVars, validity>>
  PROVE  Adds(p)
BY DEF Adds, mailVars, Mails

LEMMA ReturnKind ==
  ASSUME TypeInv, NEW p \in Procs, Return(p), draws' = draws
  PROVE  Others(p) /\ Follows(p)
BY Returned DEF Follows, Resolved

LEMMA EnsureKind ==
  ASSUME TypeInv, NEW p \in Procs, EnsureRead(p) \/ EnsureCreate(p) \/ EnsureFails(p) \/ Lookup(p)
  PROVE  Others(p) /\ Follows(p) /\ Adds(p)
<1>1. CASE EnsureRead(p)
  <2>1. Others(p) /\ Follows(p)
    BY <1>1 DEF EnsureRead, Goto, Others, Follows, Resolved, TypeInv, ProcTypes, ProcFuns
  <2> QED
    BY <1>1, <2>1, SameFolders DEF EnsureRead, folderVars, stateVars, history
<1>2. CASE EnsureCreate(p)
  <2>1. Others(p) /\ Follows(p)
    BY <1>2 DEF EnsureCreate, Others, Follows, Resolved, TypeInv, ProcTypes, ProcFuns
  <2> QED
    BY <1>2, <2>1, SameFolders DEF EnsureCreate, stateVars, history
<1>3. CASE EnsureFails(p)
  BY <1>3, SameFolders, ReturnKind DEF EnsureFails, folderVars, stateVars, history
<1>4. CASE Lookup(p)
  <2>1. Adds(p)
    BY <1>4, SameFolders DEF Lookup, folderVars, stateVars
  <2>2. PICK j \in Jobs : job' = [job EXCEPT ![p] = j]
    BY <1>4 DEF Lookup
  <2>3. j.name \in boxes
    BY <2>2 DEF Jobs
  <2>4. Others(p)
    BY <1>4, <2>2 DEF Lookup, Goto, Others, TypeInv, ProcTypes, ProcFuns
  <2>5. job'[p] = j
    BY <2>2 DEF TypeInv, ProcTypes, ProcFuns
  <2> QED
    BY <2>1, <2>3, <2>4, <2>5 DEF Follows
<1> QED
  BY <1>1, <1>2, <1>3, <1>4

\* The operations that are done afterwards.
LEMMA ReturningKind ==
  ASSUME TypeInv, NEW p \in Procs,
         Create(p) \/ SetSubscribed(p) \/ Fails(p) \/ Known(p) \/ FallsBack(p) \/ Save(p)
  PROVE  Others(p) /\ Follows(p) /\ Adds(p)
<1>1. CASE Create(p)
  BY <1>1, ReturnKind, SameFolders DEF Create, stateVars
<1>2. CASE SetSubscribed(p)
  BY <1>2, ReturnKind, SameFolders DEF SetSubscribed, stateVars
<1>3. CASE Fails(p)
  BY <1>3, ReturnKind, SameFolders DEF Fails, folderVars, stateVars, history
<1>4. CASE Known(p)
  BY <1>4, ReturnKind, SameFolders DEF Known, folderVars, stateVars
<1>5. CASE FallsBack(p)
  BY <1>5, ReturnKind, SameFolders DEF FallsBack, folderVars, stateVars
<1>6. CASE Save(p)
  <2>1. /\ Return(p) /\ UNCHANGED <<folderVars, draws, mailVars, lost>>
        /\ validity' = [validity EXCEPT ![job[p].name] = drawn[p].value] /\ pc[p] = "save"
    BY <1>6 DEF Save
  <2>2. \A f \in Names : validity'[f] = validity[f] \/ (Resolved(p) /\ f = job[p].name)
    BY <2>1 DEF TypeInv, TableTypes, Resolved
  <2>3. Adds(p)
    BY <2>1, <2>2 DEF Adds, folderVars, mailVars, Mails
  <2> QED
    BY <2>1, <2>3, ReturnKind
<1> QED
  BY <1>1, <1>2, <1>3, <1>4, <1>5, <1>6

\* The operations that ask for the UIDVALIDITY next.
LEMMA AskingKind ==
  ASSUME TypeInv, NEW p \in Procs, Append(p) \/ Move(p) \/ Select(p) \/ Draw(p)
  PROVE  Others(p) /\ Follows(p) /\ Adds(p)
<1>0. /\ job[p].name \in Names
      /\ \A g : Then(p, g) => job'[p].name = g /\ pc'[p] = "validity"
                              /\ \A q \in Procs \ {p} : pc'[q] = pc[q] /\ job'[q] = job[q]
  <2>1. job[p].name \in Names
    BY DEF TypeInv, ProcTypes, ProcFuns, Jobable
  <2>2. ASSUME NEW g, Then(p, g)
        PROVE  job'[p].name = g /\ pc'[p] = "validity"
               /\ \A q \in Procs \ {p} : pc'[q] = pc[q] /\ job'[q] = job[q]
    BY <2>2 DEF Then, Goto, NoJob, TypeInv, ProcTypes, ProcFuns
  <2> QED
    BY <2>1, <2>2
<1>1. CASE Append(p)
  <2>1. /\ Then(p, job[p].name) /\ Arrives(job[p].name) /\ pc[p] = "act"
        /\ UNCHANGED <<folderVars, stateVars, missing, seen, drawn, moved, lost>>
    BY <1>1 DEF Append, Acts, history
  <2>2. \A m \in Mails' : (m \in Mails /\ where'[m] = where[m]) \/ where'[m] = job[p].name
    BY <1>0, <2>1, ArrivesTypes
  <2>3. Adds(p)
    BY <2>1, <2>2 DEF Adds, Resolved, folderVars, stateVars
  <2> QED
    BY <1>0, <2>1, <2>3 DEF Others, Follows, Resolved
<1>2. CASE Move(p)
  <2>1. /\ Then(p, job[p].name) /\ pc[p] = "act"
        /\ UNCHANGED <<folderVars, stateVars, missing, seen, drawn, lost>>
    BY <1>2 DEF Move, Acts
  <2>2. where' = [where EXCEPT ![job[p].msg] = job[p].name] \/ where' = where
    BY <1>2 DEF Move
  <2>3. \A m \in Mails' : m \in Mails /\ (where'[m] = where[m] \/ where'[m] = job[p].name)
    BY <2>2 DEF Mails
  <2>4. Adds(p)
    BY <2>1, <2>3 DEF Adds, Resolved, folderVars, stateVars
  <2> QED
    BY <1>0, <2>1, <2>4 DEF Others, Follows, Resolved
<1>3. CASE Select(p)
  <2>1. PICK f \in boxes : seen' = [seen EXCEPT ![p] = [next |-> Greatest(In(f)) + 1, members |-> In(f)]]
                           /\ Then(p, f)
    BY <1>3 DEF Select
  <2>2. /\ UNCHANGED <<folderVars, stateVars, mailVars, drawn, lost>>
        /\ missing' = [missing EXCEPT ![p] = {}]
    BY <1>3 DEF Select
  <2>3. Others(p)
    BY <1>0, <2>1, <2>2 DEF Others, TypeInv, ProcTypes, ProcFuns
  <2> QED
    BY <1>0, <2>1, <2>2, <2>3, SameFolders DEF Follows, folderVars, stateVars
<1>4. CASE Draw(p)
  <2>1. /\ pc[p] = "validity" /\ pc' = [pc EXCEPT ![p] = "save"]
        /\ UNCHANGED <<folderVars, validity, mailVars, job, missing, seen, lost>>
    BY <1>4 DEF Draw, Goto, history
  <2>2. drawn' = [drawn EXCEPT ![p] = [value |-> draws', first |-> validity[job[p].name] = 0]]
    BY <1>4 DEF Draw
  <2>3. Others(p) /\ Follows(p)
    BY <2>1, <2>2 DEF Others, Follows, Resolved, TypeInv, ProcTypes, ProcFuns
  <2> QED
    BY <2>1, <2>3, SameFolders DEF folderVars
<1> QED
  BY <1>1, <1>2, <1>3, <1>4

LEMMA Kinds ==
  ASSUME TypeInv, NEW p \in Procs, Step(p)
  PROVE  Others(p) /\ Follows(p) /\ (Adds(p) \/ Delete(p) \/ Rename(p))
<1>1. CASE Delete(p) \/ Rename(p)
  BY <1>1, ReturnKind DEF Delete, Rename
<1> QED
  BY <1>1, EnsureKind, ReturningKind, AskingKind DEF Step

-----------------------------------------------------------------------------
(* Nothing lies outside the folders, and the system folders stay: because a*)
(* process has resolved a folder that exists, or that was taken from it,   *)
(* and EnsureSystem creates at least what is missing.                      *)
JobInv == \A p \in Procs : Resolved(p) => job[p].name \in boxes \union lost
EnsureInv == \A p \in Procs : pc[p] = "ensure" => System \ boxes \subseteq missing[p]
TidyInv == TypeInv /\ JobInv /\ EnsureInv /\ SystemStays /\ NoOrphans

\* What Delete and Rename do, the names by the job.
LEMMA DeleteEffect ==
  ASSUME TypeInv, NEW p \in Procs, Delete(p)
  PROVE  \E f \in Custom :
           /\ In(f) = {} /\ boxes' = boxes \ {f} /\ silent' = silent \ {f}
           /\ lost' = lost \union Taken(f, p) /\ excused' = (excused \/ Cached(f))
           /\ f \in boxes /\ validity' = [validity EXCEPT ![f] = 0]
           /\ UNCHANGED <<draws, mailVars, cache, moved>>
<1>1. PICK f \in Removable : /\ In(f) = {} /\ boxes' = boxes \ {f} /\ silent' = silent \ {f}
                             /\ Gone(f, Taken(f, p))
  BY DEF Delete
<1>2. f \in Custom /\ f \in boxes
  BY DEF Removable, TypeInv, TableTypes, Names
<1>3. UNCHANGED <<draws, mailVars, cache, moved>>
  BY DEF Delete
<1> QED
  BY <1>1, <1>2, <1>3 DEF Gone

LEMMA RenameEffect ==
  ASSUME TypeInv, NEW p \in Procs, Rename(p)
  PROVE  \/ UNCHANGED <<folderVars, stateVars, mailVars, excused, cache, moved, lost>>
         \/ \E f, g \in Custom :
              /\ f # g /\ (f \notin boxes \/ g \notin boxes)
              /\ boxes' = (boxes \ {f}) \union (IF f \in boxes THEN {g} ELSE {})
              /\ silent' = (silent \ {f}) \union (IF f \in silent THEN {g} ELSE {})
              /\ where' = [m \in Mails |-> IF where[m] = f THEN g ELSE where[m]]
              /\ lost' = lost \union Taken(f, p) \union Merged(f, g)
              /\ excused' = (excused \/ Cached(f)) /\ validity' = [validity EXCEPT ![f] = 0]
              /\ UNCHANGED <<draws, lastMail, cache, moved>>
<1> DEFINE f == job[p].name
           g == job[p].to
<1>1. f \in Custom /\ g \in Custom /\ f # g
  BY DEF Rename, Acts, TypeInv, ProcTypes, ProcOK
<1>2. UNCHANGED <<draws, lastMail, cache, moved>>
  BY DEF Rename
<1>3. \/ UNCHANGED <<folderVars, validity, where, excused, lost>>
      \/ /\ f \notin boxes \/ g \notin boxes
         /\ boxes' = (boxes \ {f}) \union (IF f \in boxes THEN {g} ELSE {})
         /\ silent' = (silent \ {f}) \union (IF f \in silent THEN {g} ELSE {})
         /\ where' = [m \in Mails |-> IF where[m] = f THEN g ELSE where[m]]
         /\ Gone(f, Taken(f, p) \union Merged(f, g))
  BY DEF Rename
<1> HIDE DEF f, g
<1>4. Gone(f, Taken(f, p) \union Merged(f, g)) =>
        /\ lost' = lost \union Taken(f, p) \union Merged(f, g)
        /\ excused' = (excused \/ Cached(f)) /\ validity' = [validity EXCEPT ![f] = 0]
  BY DEF Gone
<1>5. CASE UNCHANGED <<folderVars, validity, where, excused, lost>>
  BY <1>2, <1>5 DEF stateVars, mailVars
<1>6. CASE /\ f \notin boxes \/ g \notin boxes
           /\ boxes' = (boxes \ {f}) \union (IF f \in boxes THEN {g} ELSE {})
           /\ silent' = (silent \ {f}) \union (IF f \in silent THEN {g} ELSE {})
           /\ where' = [m \in Mails |-> IF where[m] = f THEN g ELSE where[m]]
           /\ Gone(f, Taken(f, p) \union Merged(f, g))
  BY <1>1, <1>2, <1>4, <1>6
<1> QED
  BY <1>3, <1>5, <1>6

\* A folder that is taken away is lost to those that use it.
LEMMA UsersLose ==
  ASSUME NEW p \in Procs, NEW f, NEW q \in Procs \ {p}, Resolved(q), job[q].name = f
  PROVE  Taken(f, p) = {f}
BY DEF Taken, Used, Resolved

LEMMA ServiceAdds ==
  ASSUME TypeInv, Deliver \/ Expunge
  PROVE  /\ UNCHANGED <<folderVars, stateVars, procVars, cache, excused, moved, lost, ensured>>
         /\ \A m \in Mails' : (m \in Mails /\ where'[m] = where[m]) \/ where'[m] = Inbox
<1>1. UNCHANGED <<folderVars, stateVars, procVars, cache, excused, moved, lost, ensured>>
  BY DEF Deliver, Expunge, history
<1>2. CASE Deliver
  BY <1>1, <1>2, MailboxAssumption, ArrivesTypes DEF Deliver, Names
<1>3. CASE Expunge
  <2>1. PICK m \in Mails : where' = [k \in Mails \ {m} |-> where[k]]
    BY <1>3 DEF Expunge
  <2>2. Mails' = Mails \ {m} /\ \A k \in Mails \ {m} : where'[k] = where[k]
    BY <2>1 DEF Mails
  <2> QED
    BY <1>1, <2>2
<1> QED
  BY <1>2, <1>3

LEMMA JobStep ==
  ASSUME TypeInv, JobInv, [Next]_vars
  PROVE  JobInv'
<1>1. ASSUME NEW p \in Procs, Step(p) PROVE JobInv'
  <2>1. Others(p) /\ Follows(p) /\ (Adds(p) \/ Delete(p) \/ Rename(p))
    BY <1>1, Kinds
  <2>2. CASE Adds(p)
    BY <2>1, <2>2 DEF JobInv, Others, Follows, Adds, Resolved
  <2>3. CASE Delete(p) \/ Rename(p)
    <3>1. ~ Resolved(p)'
      BY <2>3, Returned DEF Delete, Rename, Resolved
    <3>2. \/ boxes' = boxes /\ lost' = lost
          \/ \E f \in Custom : boxes \ {f} \subseteq boxes' /\ lost \union Taken(f, p) \subseteq lost'
      BY <2>3, DeleteEffect, RenameEffect DEF folderVars
    <3>3. ASSUME NEW q \in Procs \ {p}, Resolved(q)
          PROVE  job[q].name \in boxes' \union lost'
      BY <3>2, <3>3, UsersLose DEF JobInv
    <3> QED
      BY <2>1, <3>1, <3>3 DEF JobInv, Others, Resolved
  <2> QED
    BY <2>1, <2>2, <2>3
<1>2. CASE Deliver \/ Expunge
  BY <1>2, ServiceAdds DEF JobInv, Resolved, procVars, folderVars
<1>3. CASE UNCHANGED vars
  BY <1>3 DEF JobInv, Resolved, vars, procVars, folderVars, history
<1> QED
  BY <1>1, <1>2, <1>3 DEF Next, Step

\* No step takes a system folder.
LEMMA SystemGrows ==
  ASSUME TypeInv, [Next]_vars
  PROVE  System \intersect boxes \subseteq boxes'
<1>1. ASSUME NEW p \in Procs, Step(p) PROVE System \intersect boxes \subseteq boxes'
  <2>1. CASE Adds(p)
    BY <2>1 DEF Adds
  <2>2. CASE Delete(p) \/ Rename(p)
    <3>1. boxes' = boxes \/ \E f \in Custom : boxes \ {f} \subseteq boxes'
      BY <2>2, DeleteEffect, RenameEffect DEF folderVars
    <3> QED
      BY <3>1, MailboxAssumption
  <2> QED
    BY <1>1, <2>1, <2>2, Kinds
<1>2. CASE Deliver \/ Expunge
  BY <1>2, ServiceAdds DEF folderVars
<1>3. CASE UNCHANGED vars
  BY <1>3 DEF vars, folderVars
<1> QED
  BY <1>1, <1>2, <1>3 DEF Next, Step

\* A process that is ready has seen all system folders, or created what it had not.
LEMMA ReadyHasSystem ==
  ASSUME EnsureInv, NEW p \in Procs, Ready(p)
  PROVE  System \subseteq boxes
BY DEF EnsureInv, Ready

LEMMA SystemStep ==
  ASSUME TypeInv, EnsureInv, SystemStays, [Next]_vars
  PROVE  EnsureInv' /\ SystemStays'
<1>0. System \intersect boxes \subseteq boxes'
  BY SystemGrows
<1>1. ASSUME NEW p \in Procs, Step(p) PROVE EnsureInv' /\ SystemStays'
  <2>1. Others(p)
    BY <1>1, Kinds
  <2>2. pc'[p] = "ensure" => System \ boxes' \subseteq missing'[p]
    <3>1. CASE EnsureRead(p)
      BY <3>1 DEF EnsureRead, folderVars, TypeInv, ProcTypes, ProcFuns
    <3>2. CASE EnsureCreate(p)
      <4>1. PICK f \in missing[p] \ boxes : boxes' = boxes \union {f} /\ missing' = [missing EXCEPT ![p] = @ \ {f}]
        BY <3>2 DEF EnsureCreate
      <4>2. missing'[p] = missing[p] \ {f} /\ pc[p] = "ensure"
        BY <3>2, <4>1 DEF EnsureCreate, TypeInv, ProcTypes, ProcFuns
      <4> QED
        BY <4>1, <4>2 DEF EnsureInv
    <3>3. CASE Lookup(p)
      BY <3>3 DEF Lookup, Goto, TypeInv, ProcTypes, ProcFuns
    <3>4. CASE Append(p) \/ Move(p) \/ Select(p)
      <4>1. \E f : Then(p, f)
        BY <3>4 DEF Append, Move, Select
      <4> QED
        BY <4>1 DEF Then, Goto, TypeInv, ProcTypes, ProcFuns
    <3>5. CASE Draw(p)
      BY <3>5 DEF Draw, Goto, TypeInv, ProcTypes, ProcFuns
    <3>6. CASE \/ EnsureFails(p) \/ Create(p) \/ SetSubscribed(p) \/ Delete(p) \/ Rename(p)
               \/ Fails(p) \/ Known(p) \/ FallsBack(p) \/ Save(p)
      <4>1. Return(p)
        BY <3>6 DEF EnsureFails, Create, SetSubscribed, Delete, Rename, Fails, Known, FallsBack, Save
      <4> QED
        BY <4>1 DEF Return, Goto, TypeInv, ProcTypes, ProcFuns
    <3> QED
      BY <1>1, <3>1, <3>2, <3>3, <3>4, <3>5, <3>6 DEF Step
  <2>3. EnsureInv'
    BY <1>0, <2>1, <2>2 DEF EnsureInv, Others
  <2>4. ensured' = ensured \/ Ready(p)
    <3>1. CASE Lookup(p) \/ Create(p) \/ SetSubscribed(p) \/ Delete(p) \/ Select(p)
      BY <3>1 DEF Lookup, Create, SetSubscribed, Delete, Select
    <3>2. CASE \/ EnsureRead(p) \/ EnsureCreate(p) \/ EnsureFails(p) \/ Append(p) \/ Fails(p) \/ Draw(p)
      BY <3>2 DEF EnsureRead, EnsureCreate, EnsureFails, Append, Fails, Draw, history
    <3>3. CASE Rename(p) \/ Move(p) \/ Known(p) \/ FallsBack(p) \/ Save(p)
      BY <3>3 DEF Rename, Move, Known, FallsBack, Save
    <3> QED
      BY <1>1, <3>1, <3>2, <3>3 DEF Step
  <2>5. SystemStays'
    BY <1>0, <2>4, ReadyHasSystem DEF SystemStays
  <2> QED
    BY <2>3, <2>5
<1>2. CASE Deliver \/ Expunge
  BY <1>2, ServiceAdds DEF EnsureInv, SystemStays, procVars, folderVars
<1>3. CASE UNCHANGED vars
  BY <1>3 DEF EnsureInv, SystemStays, vars, procVars, folderVars, history
<1> QED
  BY <1>1, <1>2, <1>3 DEF Next, Step

LEMMA OrphanStep ==
  ASSUME TypeInv, JobInv, NoOrphans, [Next]_vars
  PROVE  NoOrphans'
<1> SUFFICES ASSUME NEW h \in Names, h \notin System, h \notin boxes', h \notin lost'
             PROVE  In(h)' = {} /\ validity'[h] = 0
  BY DEF NoOrphans
<1>0. h # Inbox
  BY MailboxAssumption
<1>1. ASSUME NEW p \in Procs, Step(p) PROVE In(h)' = {} /\ validity'[h] = 0
  <2>1. CASE Adds(p)
    <3>1. h \notin boxes \union lost
      BY <2>1 DEF Adds
    <3>2. In(h) = {} /\ validity[h] = 0 /\ (Resolved(p) => job[p].name # h)
      BY <3>1 DEF NoOrphans, JobInv
    <3>3. \A m \in Mails' : where'[m] = h => m \in Mails /\ where[m] = h
      BY <2>1, <3>2 DEF Adds
    <3>4. validity'[h] = 0
      BY <2>1, <3>2 DEF Adds
    <3> QED
      BY <3>2, <3>3, <3>4 DEF In
  <2>2. CASE Delete(p)
    <3>1. PICK f \in Custom : /\ In(f) = {} /\ boxes' = boxes \ {f} /\ validity' = [validity EXCEPT ![f] = 0]
                              /\ lost' = lost \union Taken(f, p) /\ UNCHANGED mailVars
      BY <2>2, DeleteEffect
    <3>2. In(h)' = In(h)
      BY <3>1 DEF In, Mails, mailVars
    <3>3. validity \in [Names -> 0..draws]
      BY DEF TypeInv, TableTypes
    <3>4. CASE h = f
      BY <3>1, <3>2, <3>3, <3>4
    <3>5. CASE h # f
      BY <3>1, <3>2, <3>3, <3>5 DEF NoOrphans
    <3> QED
      BY <3>4, <3>5
  <2>3. CASE Rename(p)
    <3>1. CASE UNCHANGED <<folderVars, stateVars, mailVars, excused, cache, moved, lost>>
      BY <3>1 DEF NoOrphans, In, Mails, folderVars, stateVars, mailVars
    <3>2. ASSUME NEW f \in Custom, NEW g \in Custom, f # g, f \notin boxes \/ g \notin boxes,
                 boxes' = (boxes \ {f}) \union (IF f \in boxes THEN {g} ELSE {}),
                 where' = [m \in Mails |-> IF where[m] = f THEN g ELSE where[m]],
                 lost' = lost \union Taken(f, p) \union Merged(f, g),
                 validity' = [validity EXCEPT ![f] = 0]
          PROVE  In(h)' = {} /\ validity'[h] = 0
      <4>1. Mails' = Mails /\ \A m \in Mails : where'[m] = IF where[m] = f THEN g ELSE where[m]
        BY <3>2 DEF Mails
      <4>2. validity \in [Names -> 0..draws]
        BY DEF TypeInv, TableTypes
      <4>3. CASE h = f
        BY <3>2, <4>1, <4>2, <4>3 DEF In
      <4>4. CASE h # f
        <5>1. h \notin boxes \union lost
          BY <3>2, <4>4
        <5>2. In(h) = {} /\ validity[h] = 0
          BY <5>1 DEF NoOrphans
        <5>3. h = g => In(f) = {}
          BY <3>2 DEF Merged
        <5>4. In(h)' = {}
          BY <4>1, <4>4, <5>2, <5>3 DEF In
        <5> QED
          BY <3>2, <4>2, <4>4, <5>2, <5>4
      <4> QED
        BY <4>3, <4>4
    <3> QED
      BY <2>3, <3>1, <3>2, RenameEffect
  <2> QED
    BY <1>1, <2>1, <2>2, <2>3, Kinds
<1>2. CASE Deliver \/ Expunge
  <2>1. UNCHANGED <<boxes, lost, validity>> /\ \A m \in Mails' : (m \in Mails /\ where'[m] = where[m]) \/ where'[m] = Inbox
    BY <1>2, ServiceAdds DEF folderVars, stateVars
  <2> QED
    BY <1>0, <2>1 DEF NoOrphans, In
<1>3. CASE UNCHANGED vars
  BY <1>3 DEF NoOrphans, In, Mails, vars, folderVars, stateVars, mailVars, history
<1> QED
  BY <1>1, <1>2, <1>3 DEF Next, Step

LEMMA TidyInvariant == Spec => []TidyInv
<1>1. Init => TidyInv
  <2> SUFFICES ASSUME Init PROVE TidyInv
    OBVIOUS
  <2>1. JobInv /\ EnsureInv
    BY DEF Init, JobInv, EnsureInv, Resolved
  <2>2. SystemStays /\ NoOrphans
    BY DEF Init, SystemStays, NoOrphans, In, Mails
  <2> QED
    BY <2>1, <2>2, InitTypes DEF TidyInv
<1>2. TidyInv /\ [Next]_vars => TidyInv'
  BY StepTypes, JobStep, SystemStep, OrphanStep DEF TidyInv
<1> QED
  BY <1>1, <1>2, PTL DEF Spec

LEMMA TypeOKFollows ==
  ASSUME TypeInv
  PROVE  TypeOK
<1>1. silent \subseteq boxes /\ boxes \subseteq Names /\ draws \in 0..MaxDraws /\ validity \in [Names -> 0..draws]
  BY DEF TypeInv, TableTypes
<1>2. /\ lastMail \in 0..MaxMail /\ Mails \subseteq 1..lastMail
      /\ \A m \in Mails : where[m] \in Names
      /\ moved \subseteq 1..lastMail /\ lost \subseteq Custom
  BY DEF TypeInv, MailTypes, HistoryTypes
<1>3. Cardinality(cache) <= 1 /\ \A t \in cache : t.validity \in 1..Fallback
  <2>1. CASE cache = {}
    <3>1. Cardinality(cache) = 0
      BY <2>1, FS_EmptySet
    <3> QED
      BY <2>1, <3>1
  <2>2. ASSUME NEW t, cache = {t}, t.validity \in 1..Fallback
        PROVE  Cardinality(cache) <= 1 /\ \A u \in cache : u.validity \in 1..Fallback
    <3>1. Cardinality(cache) = 1
      BY <2>2, FS_Singleton
    <3> QED
      BY <2>2, <3>1
  <2> QED
    BY <2>1, <2>2 DEF TypeInv, HistoryTypes
<1>4. ASSUME NEW p \in Procs
      PROVE  /\ pc[p] \in {"idle", "ensure", "act", "validity", "save"}
             /\ pc[p] \in {"idle", "ensure"} <=> job[p] = NoJob
             /\ missing[p] \subseteq System
             /\ drawn[p].value \in 0..draws
             /\ drawn[p].value # 0 <=> pc[p] = "save"
  BY Validities DEF TypeInv, ProcTypes, ProcFuns, ProcOK
<1> QED
  BY <1>1, <1>2, <1>3, <1>4 DEF TypeOK

(* The system folders stay, and neither message nor UIDVALIDITY lies in a  *)
(* folder that is not listed and was not taken from a session that used it *)
(* (EnsureSystem, Delete, Rename, Append, UidValidity).                    *)
THEOREM FolderInvCorrect == Spec => []FolderInv
<1>1. TidyInv => FolderInv
  BY TypeOKFollows DEF TidyInv, FolderInv
<1> QED
  BY <1>1, TidyInvariant, PTL

(* EnsureSystem, run by every operation of every session, never subscribes *)
(* a folder again that the user has unsubscribed.                          *)
THEOREM KeepsChoiceCorrect == Spec => KeepsChoice
<1>1. TypeInv /\ [Next]_vars =>
        [\A f \in silent \ silent' :
           \/ f \notin boxes'
           \/ \E p \in Procs : SetSubscribed(p)]_vars
  <2> SUFFICES ASSUME TypeInv, [Next]_vars, NEW f \in silent \ silent', f \in boxes'
               PROVE  \E p \in Procs : SetSubscribed(p)
    OBVIOUS
  <2>1. ASSUME NEW p \in Procs, Step(p) PROVE SetSubscribed(p)
    <3>1. CASE Delete(p) \/ Rename(p)
      <4>1. \/ silent' = silent
            \/ \E g \in Custom : silent \ {g} \subseteq silent' /\ g \notin boxes'
        BY <3>1, DeleteEffect, RenameEffect DEF folderVars
      <4> QED
        BY <4>1
    <3>2. CASE \/ EnsureRead(p) \/ EnsureCreate(p) \/ EnsureFails(p) \/ Lookup(p) \/ Create(p)
               \/ Append(p) \/ Move(p) \/ Select(p) \/ Fails(p)
               \/ Known(p) \/ FallsBack(p) \/ Draw(p) \/ Save(p)
      <4>1. silent' = silent
        BY <3>2 DEF EnsureRead, EnsureCreate, EnsureFails, Lookup, Create, Append, Move, Select, Fails,
                    Known, FallsBack, Draw, Save, folderVars
      <4> QED
        BY <4>1
    <3> QED
      BY <2>1, <3>1, <3>2 DEF Step
  <2>2. CASE Deliver \/ Expunge
    BY <2>2, ServiceAdds DEF folderVars
  <2>3. CASE UNCHANGED vars
    BY <2>3 DEF vars, folderVars
  <2> QED
    BY <2>1, <2>2, <2>3 DEF Next, Step
<1> QED
  BY <1>1, Types, PTL DEF Spec, KeepsChoice

-----------------------------------------------------------------------------
(* A client's cache stands: a value about to be saved is found nowhere     *)
(* else, and what SELECT has counted stays good until the client hears of  *)
(* it, as the cache does afterwards.                                       *)
Fresh(p) ==
  /\ drawn[p].first
  /\ \A f \in Names : validity[f] # drawn[p].value
  /\ \A q \in Procs \ {p} : drawn[q].value # drawn[p].value
  /\ \A t \in cache : t.validity # drawn[p].value
FreshInv == \A p \in Procs : pc[p] = "save" => Fresh(p)

SeenOK(p) ==
  /\ seen[p].next <= lastMail + 1
  /\ job[p].name \notin lost =>
       \A m \in In(job[p].name) : m < seen[p].next => m \in seen[p].members \union moved
SeenInv == \A p \in Procs : seen[p] # NoSight => SeenOK(p)

CacheInv ==
  \A t \in cache :
    /\ t.folder \in Names /\ t.next \in Nat /\ t.next <= lastMail + 1
    /\ t.validity \in 1..draws \/ t.validity = Fallback

WatchInv == TidyInv /\ FreshInv /\ SeenInv /\ CacheInv /\ Stable /\ Vouched

\* The client that is watched hears of the folder.
Told(p, v) ==
  /\ cache = {} /\ seen[p] # NoSight
  /\ cache' = {[folder |-> job[p].name, validity |-> v,
                next |-> seen[p].next, members |-> seen[p].members]}

Quiet(p) ==
  \/ EnsureRead(p) \/ EnsureCreate(p) \/ EnsureFails(p) \/ Lookup(p)
  \/ Create(p) \/ SetSubscribed(p) \/ Delete(p) \/ Rename(p)
  \/ Append(p) \/ Move(p) \/ Select(p) \/ Fails(p)

LEMMA Telling ==
  ASSUME NEW p, NEW v, Tells(p, v)
  PROVE  cache' = cache \/ Told(p, v)
BY DEF Tells, Told

\* Most steps tell nothing, draw nothing, and only drop a UIDVALIDITY.
LEMMA QuietStep ==
  ASSUME TypeInv, NEW p \in Procs, Quiet(p)
  PROVE  /\ UNCHANGED <<draws, cache>> /\ pc'[p] # "save"
         /\ excused => excused'
         /\ \A f \in Names : validity'[f] = validity[f] \/ (validity'[f] = 0 /\ (Cached(f) => excused'))
<1>0. validity \in [Names -> 0..draws]
  BY DEF TypeInv, TableTypes
<1>1. CASE EnsureRead(p)
  BY <1>1 DEF EnsureRead, Goto, TypeInv, ProcTypes, ProcFuns, stateVars, history
<1>2. CASE EnsureCreate(p)
  BY <1>2 DEF EnsureCreate, stateVars, history
<1>3. CASE Lookup(p)
  BY <1>3 DEF Lookup, Goto, TypeInv, ProcTypes, ProcFuns, stateVars
<1>4. CASE Append(p) \/ Move(p) \/ Select(p)
  <2>1. \E f : Then(p, f)
    BY <1>4 DEF Append, Move, Select
  <2>2. pc'[p] # "save"
    BY <2>1 DEF Then, Goto, TypeInv, ProcTypes, ProcFuns
  <2>3. UNCHANGED <<draws, cache, excused, validity>>
    BY <1>4 DEF Append, Move, Select, stateVars, history
  <2> QED
    BY <2>2, <2>3
<1>5. CASE EnsureFails(p) \/ Create(p) \/ SetSubscribed(p) \/ Fails(p)
  <2>1. Return(p) /\ UNCHANGED <<draws, cache, excused, validity>>
    BY <1>5 DEF EnsureFails, Create, SetSubscribed, Fails, stateVars, history
  <2>2. pc'[p] # "save"
    BY <2>1 DEF Return, Goto, TypeInv, ProcTypes, ProcFuns
  <2> QED
    BY <2>1, <2>2
<1>6. CASE Delete(p) \/ Rename(p)
  <2>1. Return(p) /\ draws' = draws
    BY <1>6 DEF Delete, Rename
  <2>2. pc'[p] # "save"
    BY <2>1 DEF Return, Goto, TypeInv, ProcTypes, ProcFuns
  <2>3. \/ UNCHANGED <<cache, validity, excused>>
        \/ \E f \in Custom : /\ validity' = [validity EXCEPT ![f] = 0] /\ cache' = cache
                             /\ excused' = (excused \/ Cached(f))
    BY <1>6, DeleteEffect, RenameEffect DEF stateVars
  <2>4. CASE UNCHANGED <<cache, validity, excused>>
    BY <2>1, <2>2, <2>4
  <2>5. ASSUME NEW f \in Custom, validity' = [validity EXCEPT ![f] = 0], cache' = cache,
               excused' = (excused \/ Cached(f))
        PROVE  /\ cache' = cache /\ (excused => excused')
               /\ \A h \in Names : validity'[h] = validity[h] \/ (validity'[h] = 0 /\ (Cached(h) => excused'))
    <3>1. (excused => excused') /\ (Cached(f) => excused')
      BY <2>5
    <3>2. \A h \in Names : (h # f /\ validity'[h] = validity[h]) \/ (h = f /\ validity'[h] = 0)
      BY <1>0, <2>5
    <3> QED
      BY <2>5, <3>1, <3>2
  <2> QED
    BY <2>1, <2>2, <2>3, <2>4, <2>5
<1> QED
  BY <1>1, <1>2, <1>3, <1>4, <1>5, <1>6 DEF Quiet

LEMMA AnswerStep ==
  ASSUME TypeInv, NEW p \in Procs, Known(p) \/ FallsBack(p) \/ Save(p)
  PROVE  /\ UNCHANGED <<folderVars, draws, mailVars, moved, lost>> /\ pc'[p] # "save"
         /\ excused => excused'
         /\ \/ cache' = cache
            \/ Known(p) /\ Told(p, validity[job[p].name])
            \/ FallsBack(p) /\ Told(p, Fallback) /\ excused'
            \/ Save(p) /\ Told(p, drawn[p].value)
         /\ \/ validity' = validity
            \/ /\ Save(p) /\ validity' = [validity EXCEPT ![job[p].name] = drawn[p].value]
               /\ (drawn[p].first /\ Cached(job[p].name)) => excused'
<1>1. Return(p) /\ UNCHANGED <<folderVars, draws, mailVars, moved, lost>> /\ (excused => excused')
  <2>1. CASE Known(p)
    BY <2>1 DEF Known, stateVars
  <2>2. CASE FallsBack(p)
    BY <2>2 DEF FallsBack, stateVars
  <2>3. CASE Save(p)
    BY <2>3 DEF Save
  <2> QED
    BY <2>1, <2>2, <2>3
<1>2. pc'[p] # "save"
  BY <1>1 DEF Return, Goto, TypeInv, ProcTypes, ProcFuns
<1>3. CASE Known(p)
  BY <1>1, <1>2, <1>3, Telling DEF Known, stateVars
<1>4. CASE FallsBack(p)
  <2>1. validity' = validity /\ Tells(p, Fallback) /\ (cache' # cache => excused')
    BY <1>4 DEF FallsBack, stateVars
  <2> QED
    BY <1>1, <1>2, <1>4, <2>1, Telling
<1>5. CASE Save(p)
  <2>1. /\ validity' = [validity EXCEPT ![job[p].name] = drawn[p].value] /\ Tells(p, drawn[p].value)
        /\ ((drawn[p].first /\ Cached(job[p].name)) => excused')
    BY <1>5 DEF Save
  <2> QED
    BY <1>1, <1>2, <1>5, <2>1, Telling
<1> QED
  BY <1>3, <1>4, <1>5

\* What is only added to.
LEMMA Growth ==
  ASSUME TypeInv, [Next]_vars
  PROVE  /\ moved \subseteq moved' /\ lost \subseteq lost' /\ (excused => excused')
         /\ lastMail \in Nat /\ lastMail' \in Nat /\ lastMail <= lastMail'
         /\ draws \in Nat /\ draws' \in Nat /\ draws <= draws'
<1>0. lastMail \in Nat /\ draws \in Nat
  BY MailboxAssumption DEF TypeInv, MailTypes, TableTypes
<1>1. ASSUME NEW p \in Procs, Step(p)
      PROVE  /\ moved \subseteq moved' /\ lost \subseteq lost' /\ (excused => excused')
             /\ lastMail' \in {lastMail, lastMail + 1} /\ draws' \in {draws, draws + 1}
  <2>1. CASE EnsureRead(p) \/ EnsureCreate(p) \/ EnsureFails(p) \/ Fails(p) \/ Draw(p)
    BY <2>1 DEF EnsureRead, EnsureCreate, EnsureFails, Fails, Draw, history, mailVars, stateVars
  <2>2. CASE Lookup(p) \/ Create(p) \/ SetSubscribed(p) \/ Select(p)
    BY <2>2 DEF Lookup, Create, SetSubscribed, Select, mailVars, stateVars
  <2>3. CASE Append(p) \/ Move(p)
    BY <2>3 DEF Append, Move, Arrives, history, stateVars
  <2>4. CASE Delete(p) \/ Rename(p)
    BY <2>4, DeleteEffect, RenameEffect DEF mailVars, stateVars
  <2>5. CASE Known(p) \/ FallsBack(p) \/ Save(p)
    BY <2>5, AnswerStep DEF mailVars
  <2> QED
    BY <1>1, <2>1, <2>2, <2>3, <2>4, <2>5 DEF Step
<1>2. CASE Deliver \/ Expunge
  BY <1>0, <1>2 DEF Deliver, Expunge, Arrives, history, stateVars
<1>3. CASE UNCHANGED vars
  BY <1>0, <1>3 DEF vars, history, mailVars, stateVars
<1> QED
  BY <1>0, <1>1, <1>2, <1>3 DEF Next, Step

\* A message that comes into a folder that exists has a new UID, or was moved there.
LEMMA Arrivals ==
  ASSUME TypeInv, NoOrphans, [Next]_vars,
         NEW h \in Names, h \notin lost', h \in boxes \/ validity[h] # 0, NEW m \in In(h)'
  PROVE  m \in In(h) \/ m \in moved' \/ m = lastMail + 1
<1>0. m \in Mails' /\ where'[m] = h
  BY DEF In
<1> SUFFICES ASSUME ~ (m \in Mails /\ where[m] = h), m # lastMail + 1 PROVE m \in moved'
  BY DEF In
<1>1. ASSUME NEW p \in Procs, Step(p) PROVE m \in moved'
  <2>1. CASE Append(p)
    <3>1. Arrives(job[p].name)
      BY <2>1 DEF Append
    <3>2. where' = [k \in Mails \union {lastMail'} |-> IF k = lastMail' THEN job[p].name ELSE where[k]]
          /\ lastMail' = lastMail + 1
      BY <3>1 DEF Arrives
    <3> QED
      BY <1>0, <3>2 DEF Mails
  <2>2. CASE Move(p)
    <3>1. CASE job[p].msg \in Mails
      <4>1. where' = [where EXCEPT ![job[p].msg] = job[p].name] /\ moved' = moved \union {job[p].msg}
        BY <2>2, <3>1 DEF Move
      <4> QED
        BY <1>0, <4>1 DEF Mails
    <3>2. CASE job[p].msg \notin Mails
      BY <1>0, <2>2, <3>2 DEF Move, Mails
    <3> QED
      BY <3>1, <3>2
  <2>3. CASE Rename(p)
    <3>1. CASE UNCHANGED <<folderVars, stateVars, mailVars, excused, cache, moved, lost>>
      BY <1>0, <3>1 DEF mailVars, Mails
    <3>2. ASSUME NEW f \in Custom, NEW g \in Custom, f # g, f \notin boxes \/ g \notin boxes,
                 where' = [k \in Mails |-> IF where[k] = f THEN g ELSE where[k]],
                 lost' = lost \union Taken(f, p) \union Merged(f, g)
          PROVE  FALSE
      <4>1. m \in Mails /\ where[m] = f /\ h = g
        BY <1>0, <3>2 DEF Mails
      <4>2. m \in In(f)
        BY <4>1 DEF In
      <4>3. f \in boxes
        BY <3>2, <4>1, <4>2 DEF Merged
      <4>4. g \in Names \ (System \union boxes \union lost)
        BY <3>2, <4>1, <4>3, MailboxAssumption DEF Names
      <4>5. validity[g] = 0
        BY <4>4 DEF NoOrphans
      <4> QED
        BY <4>1, <4>4, <4>5
    <3> QED
      BY <2>3, <3>1, <3>2, RenameEffect
  <2>4. CASE \/ EnsureRead(p) \/ EnsureCreate(p) \/ EnsureFails(p) \/ Lookup(p)
             \/ Create(p) \/ SetSubscribed(p) \/ Delete(p) \/ Select(p) \/ Fails(p)
             \/ Known(p) \/ FallsBack(p) \/ Draw(p) \/ Save(p)
    <3>1. where' = where
      BY <2>4 DEF EnsureRead, EnsureCreate, EnsureFails, Lookup, Create, SetSubscribed, Delete, Select,
                  Fails, Known, FallsBack, Draw, Save, mailVars
    <3> QED
      BY <1>0, <3>1 DEF Mails
  <2> QED
    BY <1>1, <2>1, <2>2, <2>3, <2>4 DEF Step
<1>2. CASE Deliver
  <2>1. where' = [k \in Mails \union {lastMail'} |-> IF k = lastMail' THEN Inbox ELSE where[k]]
        /\ lastMail' = lastMail + 1
    BY <1>2 DEF Deliver, Arrives
  <2> QED
    BY <1>0, <2>1 DEF Mails
<1>3. CASE Expunge
  <2>1. PICK k \in Mails : where' = [n \in Mails \ {k} |-> where[n]]
    BY <1>3 DEF Expunge
  <2> QED
    BY <1>0, <2>1 DEF Mails
<1>4. CASE UNCHANGED vars
  BY <1>0, <1>4 DEF vars, mailVars, Mails
<1> QED
  BY <1>1, <1>2, <1>3, <1>4 DEF Next, Step

LEMMA FreshStep ==
  ASSUME TypeInv, FreshInv, CacheInv, [Next]_vars
  PROVE  FreshInv'
<1>0. TypeInv' /\ draws \in Nat /\ MaxDraws \in Nat /\ draws <= MaxDraws /\ Fallback = MaxDraws + 1
  BY StepTypes, Validities
<1>1. \A q \in Procs : drawn[q].value \in 0..draws
  BY Validities
<1>2. ASSUME NEW p \in Procs, Quiet(p) \/ Known(p) \/ FallsBack(p) \/ Save(p)
      PROVE  FreshInv'
  <2>1. Others(p)
    BY <1>2, Kinds DEF Quiet, Step
  <2>2. pc'[p] # "save" /\ \A f \in Names : validity'[f] \in {validity[f], 0, drawn[p].value}
    <3>1. CASE Quiet(p)
      BY <3>1, QuietStep
    <3>2. CASE Known(p) \/ FallsBack(p) \/ Save(p)
      <4>1. validity \in [Names -> 0..draws]
        BY DEF TypeInv, TableTypes
      <4> QED
        BY <3>2, <4>1, AnswerStep
    <3> QED
      BY <1>2, <3>1, <3>2
  <2>3. \A t \in cache' : t \in cache \/ t.validity \in {validity[job[p].name], Fallback, drawn[p].value}
    BY <1>2, QuietStep, AnswerStep DEF Told
  <2>4. drawn'[p].value = 0 /\ job[p].name \in Names
    BY <1>0, <2>2 DEF TypeInv, ProcTypes, ProcFuns, ProcOK, Jobable
  <2>5. ASSUME NEW q \in Procs, pc'[q] = "save" PROVE Fresh(q)'
    <3>1. q # p /\ pc[q] = "save" /\ drawn'[q] = drawn[q]
      BY <2>1, <2>2, <2>5 DEF Others
    <3>2. Fresh(q)
      BY <3>1 DEF FreshInv
    <3>3. drawn[q].value # 0 /\ drawn[q].value # Fallback
      BY <1>0, <1>1, <3>1 DEF TypeInv, ProcTypes, ProcOK
    <3>4. drawn[q].value # drawn[p].value
      BY <3>1, <3>2 DEF Fresh
    <3>5. \A f \in Names : validity'[f] # drawn[q].value
      BY <2>2, <3>2, <3>3, <3>4 DEF Fresh
    <3>6. \A r \in Procs \ {q} : drawn'[r].value # drawn[q].value
      BY <2>1, <2>4, <3>2, <3>3 DEF Fresh, Others
    <3>7. \A t \in cache' : t.validity # drawn[q].value
      BY <2>3, <2>4, <3>2, <3>3, <3>4 DEF Fresh
    <3>8. drawn'[q].first
      BY <3>1, <3>2 DEF Fresh
    <3> QED
      BY <3>1, <3>5, <3>6, <3>7, <3>8 DEF Fresh
  <2> QED
    BY <2>5 DEF FreshInv
<1>3. ASSUME NEW p \in Procs, Draw(p)
      PROVE  FreshInv'
  <2>1. Others(p)
    BY <1>3, Kinds DEF Step
  <2>2. /\ draws < MaxDraws /\ UNCHANGED <<validity, cache>>
        /\ drawn' = [drawn EXCEPT ![p] = [value |-> draws + 1, first |-> validity[job[p].name] = 0]]
        /\ validity[job[p].name] = 0
    BY <1>3 DEF Draw, Unknown, history
  <2>3. drawn'[p].value = draws + 1 /\ drawn'[p].first
    BY <2>2 DEF TypeInv, ProcTypes, ProcFuns
  <2>4. ASSUME NEW q \in Procs, pc'[q] = "save" PROVE Fresh(q)'
    <3>1. CASE q = p
      <4>1. \A f \in Names : validity'[f] # draws + 1
        BY <1>0, <2>2 DEF TypeInv, TableTypes
      <4>2. \A r \in Procs \ {p} : drawn'[r].value # draws + 1
        BY <1>0, <1>1, <2>1 DEF Others
      <4>3. \A t \in cache' : t.validity # draws + 1
        BY <1>0, <2>2 DEF CacheInv
      <4> QED
        BY <2>3, <3>1, <4>1, <4>2, <4>3 DEF Fresh
    <3>2. CASE q # p
      <4>1. pc[q] = "save" /\ drawn'[q] = drawn[q]
        BY <2>1, <2>4, <3>2 DEF Others
      <4>2. Fresh(q) /\ drawn[q].value # draws + 1
        BY <1>0, <1>1, <4>1 DEF FreshInv
      <4>3. \A r \in Procs \ {q} : drawn'[r].value # drawn[q].value
        BY <2>1, <2>3, <4>2 DEF Fresh, Others
      <4> QED
        BY <2>2, <4>1, <4>2, <4>3 DEF Fresh
    <3> QED
      BY <3>1, <3>2
  <2> QED
    BY <2>4 DEF FreshInv
<1>4. CASE Deliver \/ Expunge \/ UNCHANGED vars
  <2>1. UNCHANGED <<validity, cache, drawn, pc>>
    BY <1>4, ServiceAdds DEF vars, stateVars, procVars, history
  <2> QED
    BY <2>1 DEF FreshInv, Fresh
<1> QED
  BY <1>2, <1>3, <1>4 DEF Next, Quiet

\* What one process sees of what another does to the folders.
LEMMA CacheStep ==
  ASSUME TypeInv, CacheInv, SeenInv, [Next]_vars
  PROVE  CacheInv'
<1>0. /\ lastMail \in Nat /\ lastMail' \in Nat /\ lastMail <= lastMail'
      /\ draws \in Nat /\ draws' \in Nat /\ draws <= draws'
  BY Growth
<1>1. ASSUME NEW t \in cache' \ cache
      PROVE  /\ t.folder \in Names /\ t.next \in Nat /\ t.next <= lastMail + 1
             /\ t.validity \in 1..draws \/ t.validity = Fallback
  <2>1. ASSUME NEW p \in Procs, Step(p)
        PROVE  /\ t.folder \in Names /\ t.next \in Nat /\ t.next <= lastMail + 1
               /\ t.validity \in 1..draws \/ t.validity = Fallback
    <3>1. CASE Quiet(p) \/ Draw(p)
      BY <3>1, QuietStep DEF Draw, history
    <3>2. ASSUME NEW v, Told(p, v), v \in 1..draws \/ v = Fallback
          PROVE  /\ t.folder \in Names /\ t.next \in Nat /\ t.next <= lastMail + 1
                 /\ t.validity \in 1..draws \/ t.validity = Fallback
      <4>1. t.folder = job[p].name /\ t.next = seen[p].next /\ t.validity = v /\ seen[p] # NoSight
        BY <3>2 DEF Told
      <4>2. job[p].name \in Names /\ seen[p].next \in Nat
        BY DEF TypeInv, ProcTypes, ProcFuns, Jobable, Sight
      <4> QED
        BY <3>2, <4>1, <4>2 DEF SeenInv, SeenOK
    <3>3. CASE Known(p) /\ Told(p, validity[job[p].name])
      <4>1. validity[job[p].name] \in 0..draws /\ validity[job[p].name] # 0
        BY <3>3 DEF Known, TypeInv, TableTypes, ProcTypes, ProcFuns, Jobable
      <4> QED
        BY <1>0, <3>2, <3>3, <4>1
    <3>4. CASE FallsBack(p) /\ Told(p, Fallback)
      BY <3>2, <3>4
    <3>5. CASE Save(p) /\ Told(p, drawn[p].value)
      <4>1. drawn[p].value \in 0..draws /\ drawn[p].value # 0
        BY <3>5, Validities DEF Save, TypeInv, ProcTypes, ProcOK
      <4> QED
        BY <1>0, <3>2, <3>5, <4>1
    <3>6. CASE Known(p) \/ FallsBack(p) \/ Save(p)
      BY <3>3, <3>4, <3>5, <3>6, AnswerStep
    <3> QED
      BY <2>1, <3>1, <3>6 DEF Step, Quiet
  <2>2. CASE Deliver \/ Expunge \/ UNCHANGED vars
    BY <2>2, ServiceAdds DEF vars, history
  <2> QED
    BY <2>1, <2>2 DEF Next, Step
<1>2. ASSUME NEW t \in cache'
      PROVE  /\ t.folder \in Names /\ t.next \in Nat /\ t.next <= lastMail + 1
             /\ t.validity \in 1..draws \/ t.validity = Fallback
  BY <1>1 DEF CacheInv
<1> QED
  BY <1>0, <1>2 DEF CacheInv, Fallback

\* What SELECT has counted is kept with the name until the answer.
LEMMA SeenKept ==
  ASSUME TypeInv, NEW p \in Procs, Step(p), NEW q \in Procs, seen'[q] # NoSight
  PROVE  (seen'[q] = seen[q] /\ job'[q].name = job[q].name) \/ (q = p /\ Select(p))
<1>1. CASE q # p
  BY <1>1, Kinds DEF Others
<1>2. CASE q = p /\ Draw(p)
  BY <1>2 DEF Draw
<1>3. CASE q = p /\ (EnsureRead(p) \/ EnsureCreate(p) \/ Lookup(p) \/ Append(p) \/ Move(p))
  <2>1. seen' = seen /\ pc[p] \notin {"validity", "save"}
    BY <1>3 DEF EnsureRead, EnsureCreate, Lookup, Append, Move, Acts, Ready
  <2> QED
    BY <1>3, <2>1 DEF TypeInv, ProcTypes, ProcOK
<1>4. CASE q = p /\ (\/ EnsureFails(p) \/ Create(p) \/ SetSubscribed(p) \/ Delete(p) \/ Rename(p)
                     \/ Fails(p) \/ Known(p) \/ FallsBack(p) \/ Save(p))
  <2>1. Return(p)
    BY <1>4 DEF EnsureFails, Create, SetSubscribed, Delete, Rename, Fails, Known, FallsBack, Save
  <2> QED
    BY <1>4, <2>1 DEF Return, TypeInv, ProcTypes, ProcFuns
<1> QED
  BY <1>1, <1>2, <1>3, <1>4 DEF Step

LEMMA SeenStep ==
  ASSUME TypeInv, NoOrphans, JobInv, SeenInv, [Next]_vars
  PROVE  SeenInv'
<1>0. /\ lastMail \in Nat /\ lastMail' \in Nat /\ lastMail <= lastMail'
      /\ lost \subseteq lost' /\ moved \subseteq moved'
  BY Growth
<1>1. ASSUME NEW q \in Procs, seen'[q] # NoSight, seen'[q] = seen[q], job'[q].name = job[q].name
      PROVE  SeenOK(q)'
  <2>1. SeenOK(q) /\ Resolved(q) /\ job[q].name \in Names /\ seen[q].next \in Nat
    BY <1>1 DEF SeenInv, Resolved, TypeInv, ProcTypes, ProcFuns, ProcOK, Jobable, Sight
  <2>2. PICK h \in Names : h = job[q].name
    BY <2>1
  <2>3. ASSUME h \notin lost', NEW m \in In(h)', m < seen[q].next
        PROVE  m \in seen[q].members \union moved'
    <3>1. h \in boxes
      BY <1>0, <2>1, <2>2, <2>3 DEF JobInv
    <3>2. m \in In(h) \/ m \in moved' \/ m = lastMail + 1
      BY <2>3, <3>1, Arrivals
    <3>3. m # lastMail + 1
      BY <1>0, <2>1, <2>3 DEF SeenOK
    <3> QED
      BY <1>0, <2>1, <2>2, <2>3, <3>2, <3>3 DEF SeenOK
  <2>4. seen[q].next <= lastMail' + 1
    BY <1>0, <2>1 DEF SeenOK
  <2> QED
    BY <1>1, <2>2, <2>3, <2>4 DEF SeenOK, In
<1>2. ASSUME NEW p \in Procs, Select(p) PROVE SeenOK(p)'
  <2>1. PICK f \in boxes :
          /\ seen' = [seen EXCEPT ![p] = [next |-> Greatest(In(f)) + 1, members |-> In(f)]]
          /\ Then(p, f)
    BY <1>2 DEF Select
  <2>2. lastMail' = lastMail /\ where' = where
    BY <1>2 DEF Select, mailVars
  <2>3. seen'[p].next = Greatest(In(f)) + 1 /\ seen'[p].members = In(f) /\ job'[p].name = f
    BY <2>1 DEF Then, NoJob, TypeInv, ProcTypes, ProcFuns
  <2>4. Greatest(In(f)) \in 0..lastMail
    BY Bounded DEF TypeInv
  <2>5. In(f)' = In(f)
    BY <2>2 DEF In, Mails
  <2> QED
    BY <1>0, <2>2, <2>3, <2>4, <2>5 DEF SeenOK, In
<1>3. ASSUME NEW p \in Procs, Step(p) PROVE SeenInv'
  BY <1>1, <1>2, <1>3, SeenKept DEF SeenInv
<1>4. CASE Deliver \/ Expunge \/ UNCHANGED vars
  <2>1. seen' = seen /\ job' = job
    BY <1>4, ServiceAdds DEF vars, procVars
  <2> QED
    BY <1>1, <2>1 DEF SeenInv
<1> QED
  BY <1>3, <1>4 DEF Next, Step

\* What becomes of the UIDVALIDITY of a folder.
LEMMA ValidityStep ==
  ASSUME TypeInv, FreshInv, [Next]_vars, NEW f \in Names
  PROVE  \/ validity'[f] = validity[f]
         \/ validity'[f] = 0 /\ (Cached(f) => excused')
         \/ /\ \A t \in cache : t.validity # validity'[f]
            /\ Cached(f) => excused'
<1>1. ASSUME NEW p \in Procs, Step(p)
      PROVE  \/ validity'[f] = validity[f]
             \/ validity'[f] = 0 /\ (Cached(f) => excused')
             \/ /\ \A t \in cache : t.validity # validity'[f]
                /\ Cached(f) => excused'
  <2>1. CASE Quiet(p)
    BY <2>1, QuietStep
  <2>2. CASE Draw(p)
    BY <2>2 DEF Draw
  <2>3. CASE Known(p) \/ FallsBack(p) \/ Save(p)
    <3>1. CASE validity' = validity
      BY <3>1
    <3>2. CASE /\ Save(p) /\ validity' = [validity EXCEPT ![job[p].name] = drawn[p].value]
               /\ (drawn[p].first /\ Cached(job[p].name)) => excused'
      <4>1. Fresh(p)
        BY <3>2 DEF Save, FreshInv
      <4>2. validity'[f] = validity[f] \/ (f = job[p].name /\ validity'[f] = drawn[p].value)
        BY <3>2 DEF TypeInv, TableTypes
      <4>3. CASE validity'[f] = validity[f]
        BY <4>3
      <4>4. CASE f = job[p].name /\ validity'[f] = drawn[p].value
        BY <3>2, <4>1, <4>4 DEF Fresh
      <4> QED
        BY <4>2, <4>3, <4>4
    <3> QED
      BY <2>3, <3>1, <3>2, AnswerStep
  <2> QED
    BY <1>1, <2>1, <2>2, <2>3 DEF Step, Quiet
<1>2. CASE Deliver \/ Expunge \/ UNCHANGED vars
  BY <1>2, ServiceAdds DEF vars, stateVars
<1> QED
  BY <1>1, <1>2 DEF Next, Step

\* What is put into the cache.
LEMMA Filled ==
  ASSUME TypeInv, [Next]_vars, NEW t \in cache' \ cache
  PROVE  \E p \in Procs :
           /\ seen[p] # NoSight /\ UNCHANGED <<mailVars, moved, lost>>
           /\ t.folder = job[p].name /\ t.next = seen[p].next /\ t.members = seen[p].members
           /\ t.validity = validity'[t.folder] \/ excused'
<1>1. ASSUME NEW p \in Procs, Step(p)
      PROVE  /\ seen[p] # NoSight /\ UNCHANGED <<mailVars, moved, lost>>
             /\ t.folder = job[p].name /\ t.next = seen[p].next /\ t.members = seen[p].members
             /\ t.validity = validity'[t.folder] \/ excused'
  <2>1. CASE Quiet(p) \/ Draw(p)
    BY <2>1, QuietStep DEF Draw, history
  <2>2. ASSUME NEW v, Told(p, v)
        PROVE  /\ seen[p] # NoSight /\ t.validity = v
               /\ t.folder = job[p].name /\ t.next = seen[p].next /\ t.members = seen[p].members
    BY <2>2 DEF Told
  <2>3. CASE Known(p) \/ FallsBack(p) \/ Save(p)
    <3>1. UNCHANGED <<mailVars, moved, lost>>
      BY <2>3, AnswerStep
    <3>2. CASE Known(p) /\ Told(p, validity[job[p].name])
      BY <2>2, <3>1, <3>2 DEF Known, stateVars
    <3>3. CASE FallsBack(p) /\ Told(p, Fallback) /\ excused'
      BY <2>2, <3>1, <3>3
    <3>4. CASE Save(p) /\ Told(p, drawn[p].value)
      <4>1. validity' = [validity EXCEPT ![job[p].name] = drawn[p].value]
        BY <3>4 DEF Save
      <4>2. validity'[job[p].name] = drawn[p].value
        BY <4>1 DEF TypeInv, TableTypes, ProcTypes, ProcFuns, Jobable
      <4> QED
        BY <2>2, <3>1, <3>4, <4>2
    <3> QED
      BY <2>3, <3>2, <3>3, <3>4, AnswerStep
  <2> QED
    BY <1>1, <2>1, <2>3 DEF Step, Quiet
<1>2. CASE Deliver \/ Expunge \/ UNCHANGED vars
  BY <1>2, ServiceAdds DEF vars, history
<1> QED
  BY <1>1, <1>2 DEF Next, Step

LEMMA StableStep ==
  ASSUME TypeInv, FreshInv, Stable, CacheInv, [Next]_vars
  PROVE  Stable'
<1> SUFFICES ASSUME NEW t \in cache', t.folder \notin lost'
             PROVE  t.validity = validity'[t.folder] \/ excused'
  BY DEF Stable
<1>1. CASE t \notin cache
  BY <1>1, Filled
<1>2. CASE t \in cache
  <2>1. t.folder \in Names /\ (t.validity = validity[t.folder] \/ excused) /\ (excused => excused')
    BY <1>2, Growth DEF Stable, CacheInv
  <2>2. t.validity = validity[t.folder] => Cached(t.folder)
    BY <1>2 DEF Cached
  <2> QED
    BY <2>1, <2>2, ValidityStep
<1> QED
  BY <1>1, <1>2

LEMMA VouchedStep ==
  ASSUME TypeInv, NoOrphans, FreshInv, SeenInv, CacheInv, Vouched, [Next]_vars
  PROVE  Vouched'
<1> SUFFICES ASSUME NEW t \in cache', t.folder \notin lost', t.validity = validity'[t.folder],
                    NEW m \in In(t.folder)', m < t.next
             PROVE  m \in t.members \union moved'
  BY DEF Vouched, In
<1>0. lost \subseteq lost' /\ moved \subseteq moved' /\ lastMail \in Nat
  BY Growth
<1>1. CASE t \notin cache
  <2>1. PICK p \in Procs :
           /\ seen[p] # NoSight /\ UNCHANGED <<mailVars, moved, lost>>
           /\ t.folder = job[p].name /\ t.next = seen[p].next /\ t.members = seen[p].members
    BY <1>1, Filled
  <2>2. In(t.folder)' = In(job[p].name)
    BY <2>1 DEF In, Mails, mailVars
  <2>3. SeenOK(p)
    BY <2>1 DEF SeenInv
  <2> QED
    BY <2>1, <2>2, <2>3 DEF SeenOK
<1>2. CASE t \in cache
  <2>1. t.folder \in Names /\ t.next \in Nat /\ t.next <= lastMail + 1 /\ t.validity # 0
    BY <1>2, MailboxAssumption DEF CacheInv, Fallback
  <2>2. validity'[t.folder] = validity[t.folder]
    BY <1>2, <2>1, ValidityStep
  <2>3. m \in In(t.folder) \/ m \in moved' \/ m = lastMail + 1
    BY <2>1, <2>2, Arrivals
  <2>4. m # lastMail + 1
    BY <1>0, <2>1
  <2>5. CASE m \in In(t.folder)
    <3>1. m \in t.members \union moved
      BY <1>0, <1>2, <2>2, <2>5 DEF Vouched
    <3> QED
      BY <1>0, <3>1
  <2> QED
    BY <2>3, <2>4, <2>5
<1> QED
  BY <1>1, <1>2

LEMMA WatchInvariant == Spec => []WatchInv
<1>1. Init => FreshInv /\ SeenInv /\ CacheInv /\ Stable /\ Vouched
  BY DEF Init, FreshInv, SeenInv, CacheInv, Stable, Vouched
<1>2. /\ TidyInv /\ FreshInv /\ SeenInv /\ CacheInv /\ Stable /\ Vouched /\ [Next]_vars
      => (FreshInv /\ SeenInv /\ CacheInv /\ Stable /\ Vouched)'
  BY FreshStep, SeenStep, CacheStep, StableStep, VouchedStep DEF TidyInv
<1> QED
  BY <1>1, <1>2, TidyInvariant, PTL DEF Spec, WatchInv

(* A client's cache of a folder stands as long as its UIDVALIDITY, and that*)
(* as long as the folder, whatever sessions append, move, rename and delete*)
(* with names they resolved before (UidValidity, Rename, Select).          *)
THEOREM CacheStandsCorrect == Spec => []CacheStands
<1>1. WatchInv => CacheStands
  BY DEF WatchInv, CacheStands
<1> QED
  BY <1>1, WatchInvariant, PTL
=============================================================================
