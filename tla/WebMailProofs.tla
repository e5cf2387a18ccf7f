--------------------------- MODULE WebMailProofs ----------------------------
(***************************************************************************)
(* The storage quota of a user, proved for any number of requests, of      *)
(* messages and of attachments, and for any quota.                         *)
(***************************************************************************)
EXTENDS WebMailProperties, FiniteSetTheorems, TLAPS

-----------------------------------------------------------------------------
(* Types, with what the program point of a request says of its variables.  *)
AllRows == [mail : Nat, n : 1..MaxFiles]
Storing(p) == pc[p] \in {"attach", "deliver"}
Purging(p) == pc[p] \in {"purge", "release"}

AccountTypes ==
  /\ used \in Int /\ quota \in 0..MaxQuota
  /\ form = {} \/ \E f \in [used : Int, quota : 0..MaxQuota] : form = {f}
  /\ blame \subseteq Causes /\ over \in BOOLEAN
StoreTypes ==
  /\ lastMail \in 0..MaxMail /\ mails \subseteq 1..lastMail /\ trash \subseteq mails
  /\ atts \in SUBSET AllRows /\ files \in SUBSET AllRows /\ IsFiniteSet(atts)
  /\ \A a \in atts \union files : a.mail \in 1..lastMail
RequestFuns ==
  /\ pc \in [Requests -> {"idle", "read", "queued", "attach", "deliver", "purge", "release"}]
  /\ left \in [Requests -> 0..MaxFiles] /\ reserved \in [Requests -> 0..MaxFiles]
  /\ owed \in [Requests -> {0, 1}] /\ mail \in [Requests -> Nat]
  /\ plan \in [Requests -> SUBSET Nat]
  /\ listed \in [Requests -> SUBSET AllRows] /\ released \in [Requests -> SUBSET AllRows]
SendOK(p) ==
  /\ reserved[p] = (IF pc[p] \in {"read", "queued", "attach"} THEN left[p] ELSE 0)
  /\ owed[p] = 1 => pc[p] = "deliver"
  /\ mail[p] \in 0..lastMail /\ (Storing(p) => mail[p] # 0)
PurgeOK(p) ==
  /\ plan[p] \subseteq 1..lastMail
  /\ \A a \in listed[p] : a.mail \in plan[p] /\ a.mail = mail[p]
  /\ \A a \in released[p] : a.mail \in plan[p]
  /\ ~Purging(p) => plan[p] = {} /\ released[p] = {}
  /\ pc[p] # "release" => listed[p] = {}
  /\ pc[p] = "release" => mail[p] \in plan[p]
RequestTypes == RequestFuns /\ \A p \in Requests : SendOK(p) /\ PurgeOK(p)
TypeInv == AccountTypes /\ StoreTypes /\ RequestTypes

\* The variables of the other requests stay as they are.
SameOf(q) ==
  /\ pc'[q] = pc[q] /\ left'[q] = left[q] /\ reserved'[q] = reserved[q] /\ owed'[q] = owed[q]
  /\ mail'[q] = mail[q] /\ plan'[q] = plan[q] /\ listed'[q] = listed[q] /\ released'[q] = released[q]
Others(p) == \A q \in Requests \ {p} : SameOf(q)

LEMMA Numbers ==
  /\ MaxFiles \in Nat /\ MaxMail \in Nat /\ MaxQuota \in Nat
  /\ MayFail \in BOOLEAN /\ IsFiniteSet(Requests)
BY MailAssumption DEF MailAssumption

LEMMA Counters ==
  ASSUME StoreTypes
  PROVE  lastMail \in Nat /\ lastMail <= MaxMail
BY Numbers DEF StoreTypes

\* The keys that a request holds are those of messages that have existed.
LEMMA OneMoves ==
  ASSUME TypeInv, NEW p \in Requests, RequestFuns', Others(p), SendOK(p)', PurgeOK(p)',
         lastMail' \in Nat, lastMail' >= lastMail
  PROVE  RequestTypes'
<1>0. lastMail \in Nat
  BY Counters DEF TypeInv
<1>1. ASSUME NEW q \in Requests \ {p} PROVE SendOK(q)' /\ PurgeOK(q)'
  <2>1. SendOK(q) /\ PurgeOK(q) /\ SameOf(q)
    BY DEF TypeInv, RequestTypes, Others
  <2>2. SendOK(q)'
    BY <1>0, <2>1 DEF SendOK, Storing, SameOf
  <2>3. 1..lastMail \subseteq 1..lastMail'
    BY <1>0
  <2>4. PurgeOK(q)'
    BY <2>1, <2>3 DEF PurgeOK, Purging, SameOf
  <2> QED
    BY <2>2, <2>4
<1> QED
  BY <1>1 DEF RequestTypes

LEMMA SameAccount ==
  ASSUME AccountTypes, UNCHANGED <<rowVars, form, over>>, blame' \subseteq Causes
  PROVE  AccountTypes'
BY DEF AccountTypes, rowVars

LEMMA SameStore ==
  ASSUME StoreTypes, UNCHANGED <<mailVars, fileVars>>
  PROVE  StoreTypes'
BY DEF StoreTypes, mailVars, fileVars

LEMMA InitTypes == Init => TypeInv
<1> SUFFICES ASSUME Init PROVE TypeInv
  OBVIOUS
<1>1. AccountTypes
  <2>1. used = 0 /\ quota \in 0..MaxQuota /\ form = {} /\ blame = {} /\ over = FALSE
    BY DEF Init
  <2>2. used \in Int /\ blame \subseteq Causes
    BY <2>1
  <2>3. over \in BOOLEAN
    BY <2>1
  <2> QED
    BY <2>1, <2>2, <2>3 DEF AccountTypes
<1>2. StoreTypes
  BY Numbers, FS_EmptySet DEF Init, StoreTypes
<1>3. RequestFuns
  BY Numbers DEF Init, RequestFuns
<1>4. ASSUME NEW p \in Requests PROVE SendOK(p) /\ PurgeOK(p)
  BY DEF Init, SendOK, PurgeOK, Storing, Purging
<1> QED
  BY <1>1, <1>2, <1>3, <1>4 DEF TypeInv, RequestTypes

-----------------------------------------------------------------------------
(* Every step keeps the types.                                             *)

\* UpdateUsedBytes.
LEMMA AddsTypes ==
  ASSUME AccountTypes, NEW n \in Int, Adds(n)
  PROVE  used' \in Int /\ blame' \subseteq Causes
<1>1. used \in Int /\ blame \subseteq Causes /\ "failure" \in Causes
  BY DEF AccountTypes, Causes
<1>2. used' \in {used, used + n} /\ blame' \in {blame, blame \union {"failure"}}
  <2>1. CASE used' = used + n /\ Blames({})
    BY <2>1 DEF Blames
  <2>2. CASE UNCHANGED used /\ Blames({"failure"})
    BY <2>2 DEF Blames
  <2> QED
    BY <2>1, <2>2 DEF Adds
<1> QED
  BY <1>1, <1>2

LEMMA BlamesTypes ==
  ASSUME AccountTypes, NEW c \in Causes, NEW b, Blames(If(b, c))
  PROVE  blame' \subseteq Causes
BY DEF AccountTypes, Blames, If

\* What is written for a request that sends: its counters and its point.
LEMMA GiveBackTypes ==
  ASSUME TypeInv, NEW p \in Requests, GiveBack(p), left[p] > 0, pc[p] \in {"read", "attach"},
         UNCHANGED <<quota, form, pc, owed, mail, purgeVars, over, lastMail>>
  PROVE  AccountTypes' /\ RequestTypes'
<1>1. AccountTypes'
  BY AddsTypes DEF GiveBack, TypeInv, AccountTypes
<1>2. reserved[p] = left[p] /\ left[p] \in 0..MaxFiles
  BY DEF TypeInv, RequestTypes, RequestFuns, SendOK
<1>3. left[p] - 1 \in 0..MaxFiles
  BY <1>2, Numbers
<1>4. reserved' = [reserved EXCEPT ![p] = left[p] - 1] /\ left' = [left EXCEPT ![p] = left[p] - 1]
  BY <1>2 DEF GiveBack
<1>5. RequestFuns' /\ Others(p)
  BY <1>3, <1>4 DEF TypeInv, RequestTypes, RequestFuns, Others, SameOf, purgeVars
<1>6. reserved'[p] = left'[p]
  BY <1>4 DEF TypeInv, RequestTypes, RequestFuns
<1>7. SendOK(p)' /\ PurgeOK(p)'
  BY <1>6 DEF TypeInv, RequestTypes, SendOK, PurgeOK, Storing, Purging, purgeVars
<1> QED
  BY <1>1, <1>5, <1>7, OneMoves, Counters DEF TypeInv

LEMMA ReserveTypes ==
  ASSUME TypeInv, NEW p \in Requests, Reserve(p)
  PROVE  TypeInv'
<1>1. PICK n \in 0..MaxFiles : /\ used' = used + n
                               /\ reserved' = [reserved EXCEPT ![p] = n]
                               /\ left' = [left EXCEPT ![p] = n]
  BY DEF Reserve
<1>2. /\ pc[p] = "idle" /\ pc' = [pc EXCEPT ![p] = "read"]
      /\ UNCHANGED <<quota, form, mailVars, fileVars, owed, mail, purgeVars, blame, over>>
  BY DEF Reserve, Goto
<1>3. AccountTypes'
  BY <1>1, <1>2, Numbers DEF TypeInv, AccountTypes
<1>4. StoreTypes'
  BY <1>2, SameStore DEF TypeInv
<1>5. RequestFuns' /\ Others(p)
  BY <1>1, <1>2 DEF TypeInv, RequestTypes, RequestFuns, Others, SameOf, purgeVars
<1>6. reserved'[p] = n /\ left'[p] = n /\ pc'[p] = "read"
  BY <1>1, <1>2 DEF TypeInv, RequestTypes, RequestFuns
<1>7. SendOK(p)' /\ PurgeOK(p)'
  BY <1>2, <1>6 DEF TypeInv, RequestTypes, SendOK, PurgeOK, Storing, Purging, purgeVars, mailVars
<1>8. lastMail' \in Nat /\ lastMail' >= lastMail
  BY <1>2, Counters DEF TypeInv, mailVars
<1> QED
  BY <1>3, <1>4, <1>5, <1>7, <1>8, OneMoves DEF TypeInv

LEMMA AbandonTypes ==
  ASSUME TypeInv, NEW p \in Requests, Abandon(p), pc[p] \in {"read", "queued"}
  PROVE  TypeInv'
<1>1. /\ reserved' = [reserved EXCEPT ![p] = 0] /\ left' = [left EXCEPT ![p] = 0]
      /\ Blames(If(reserved[p] > 0, "abort"))
      /\ pc' = [pc EXCEPT ![p] = "idle"]
      /\ UNCHANGED <<rowVars, form, mailVars, fileVars, owed, mail, purgeVars, over>>
  BY DEF Abandon, Goto
<1>2. AccountTypes' /\ StoreTypes'
  <2>1. "abort" \in Causes
    BY DEF Causes
  <2>2. blame' \subseteq Causes
    BY <1>1, <2>1, BlamesTypes DEF TypeInv
  <2> QED
    BY <1>1, <2>2, SameAccount, SameStore DEF TypeInv
<1>3. RequestFuns' /\ Others(p)
  BY <1>1, Numbers DEF TypeInv, RequestTypes, RequestFuns, Others, SameOf, purgeVars
<1>4. reserved'[p] = 0 /\ left'[p] = 0 /\ pc'[p] = "idle"
  BY <1>1 DEF TypeInv, RequestTypes, RequestFuns
<1>5. SendOK(p)' /\ PurgeOK(p)'
  BY <1>1, <1>4 DEF TypeInv, RequestTypes, SendOK, PurgeOK, Storing, Purging, purgeVars, mailVars
<1>6. lastMail' \in Nat /\ lastMail' >= lastMail
  BY <1>1, Counters DEF TypeInv, mailVars
<1> QED
  BY <1>2, <1>3, <1>5, <1>6, OneMoves DEF TypeInv

\* A new message gets the next key.
LEMMA InsertedTypes ==
  ASSUME TypeInv, NEW p \in Requests, Inserted(p), UNCHANGED fileVars
  PROVE  /\ StoreTypes' /\ lastMail' = lastMail + 1 /\ lastMail' \in Nat /\ lastMail' >= lastMail
         /\ mail' = [mail EXCEPT ![p] = lastMail'] /\ lastMail' # 0
<1>1. /\ lastMail \in Nat /\ lastMail < MaxMail /\ lastMail' = lastMail + 1
      /\ mails' = mails \union {lastMail'} /\ trash' = trash
  BY Counters DEF Inserted, TypeInv
<1>2. 1..lastMail \subseteq 1..lastMail' /\ lastMail' \in 1..lastMail' /\ lastMail' \in 0..MaxMail
  BY <1>1, Numbers
<1>3. StoreTypes'
  BY <1>1, <1>2 DEF TypeInv, StoreTypes, fileVars
<1> QED
  BY <1>1, <1>3 DEF Inserted

LEMMA QueuedTypes ==
  ASSUME TypeInv, NEW p \in Requests, Queued(p) \/ SentInserted(p)
  PROVE  TypeInv'
<1>1. CASE Queued(p)
  <2>1. /\ pc[p] = "read" /\ pc' = [pc EXCEPT ![p] = "queued"]
        /\ UNCHANGED <<rowVars, form, mailVars, fileVars, sendVars, purgeVars, blame, over>>
    BY <1>1 DEF Queued, Goto
  <2>2. AccountTypes' /\ StoreTypes'
    BY <2>1, SameAccount, SameStore DEF TypeInv, AccountTypes
  <2>3. RequestFuns' /\ Others(p)
    BY <2>1 DEF TypeInv, RequestTypes, RequestFuns, Others, SameOf, sendVars, purgeVars
  <2>4. pc'[p] = "queued"
    BY <2>1 DEF TypeInv, RequestTypes, RequestFuns
  <2>5. SendOK(p)' /\ PurgeOK(p)'
    BY <2>1, <2>4 DEF TypeInv, RequestTypes, SendOK, PurgeOK, Storing, Purging, sendVars, purgeVars, mailVars
  <2>6. lastMail' \in Nat /\ lastMail' >= lastMail
    BY <2>1, Counters DEF TypeInv, mailVars
  <2> QED
    BY <2>2, <2>3, <2>5, <2>6, OneMoves DEF TypeInv
<1>2. CASE SentInserted(p)
  <2>1. /\ pc[p] = "queued" /\ Inserted(p) /\ pc' = [pc EXCEPT ![p] = "attach"]
        /\ UNCHANGED <<rowVars, form, fileVars, reserved, owed, left, purgeVars, blame, over>>
    BY <1>2 DEF SentInserted, Goto
  <2>2. /\ StoreTypes' /\ lastMail' = lastMail + 1 /\ lastMail' \in Nat /\ lastMail' >= lastMail
        /\ mail' = [mail EXCEPT ![p] = lastMail'] /\ lastMail' # 0
    BY <2>1, InsertedTypes
  <2>3. AccountTypes'
    BY <2>1, SameAccount DEF TypeInv, AccountTypes
  <2>4. RequestFuns' /\ Others(p)
    BY <2>1, <2>2 DEF TypeInv, RequestTypes, RequestFuns, Others, SameOf, purgeVars
  <2>5. pc'[p] = "attach" /\ mail'[p] = lastMail'
    BY <2>1, <2>2 DEF TypeInv, RequestTypes, RequestFuns
  <2>6. SendOK(p)'
    BY <2>1, <2>2, <2>5 DEF TypeInv, RequestTypes, SendOK, Storing
  <2>7. PurgeOK(p)'
    BY <2>1, <2>5 DEF TypeInv, RequestTypes, PurgeOK, Purging, purgeVars
  <2> QED
    BY <2>2, <2>3, <2>4, <2>6, <2>7, OneMoves DEF TypeInv
<1> QED
  BY <1>1, <1>2

\* The row of the next attachment.
LEMMA RowTypes ==
  ASSUME TypeInv, NEW p \in Requests, Storing(p), left[p] > 0
  PROVE  Row(p) \in AllRows /\ Row(p).mail = mail[p] /\ Row(p).n = left[p] /\ mail[p] \in 1..lastMail
<1>1. mail[p] \in 1..lastMail
  BY Counters DEF TypeInv, RequestTypes, SendOK
<1>2. left[p] \in 1..MaxFiles
  BY Numbers DEF TypeInv, RequestTypes, RequestFuns
<1> QED
  BY <1>1, <1>2, Counters DEF Row, AllRows, TypeInv

LEMMA StoredTypes ==
  ASSUME TypeInv, NEW r \in AllRows, r.mail \in 1..lastMail, UNCHANGED mailVars,
         files' \in {files, files \union {r}}, atts' \in {atts, atts \union {r}}
  PROVE  StoreTypes'
<1>1. IsFiniteSet(atts')
  BY FS_AddElement DEF TypeInv, StoreTypes
<1>2. atts' \in SUBSET AllRows /\ files' \in SUBSET AllRows
  BY DEF TypeInv, StoreTypes
<1>3. \A a \in atts' \union files' : a.mail \in 1..lastMail
  BY DEF TypeInv, StoreTypes
<1> QED
  BY <1>1, <1>2, <1>3 DEF TypeInv, StoreTypes, mailVars

LEMMA AttachTypes ==
  ASSUME TypeInv, NEW p \in Requests, Attach(p)
  PROVE  TypeInv'
<1>1. /\ pc[p] = "attach" /\ left[p] > 0
      /\ UNCHANGED <<quota, form, mailVars, pc, owed, mail, purgeVars, over>>
  BY DEF Attach
<1>2. /\ Row(p) \in AllRows /\ Row(p).mail \in 1..lastMail
  BY <1>1, RowTypes DEF Storing
<1>3. CASE /\ files' = files \union {Row(p)} /\ atts' = atts \union {Row(p)}
           /\ reserved' = [reserved EXCEPT ![p] = @ - 1] /\ left' = [left EXCEPT ![p] = @ - 1]
           /\ Blames(If(Late(p), "overlap")) /\ UNCHANGED used
  <2>1. AccountTypes'
    <3>1. "overlap" \in Causes
      BY DEF Causes
    <3>2. blame' \subseteq Causes
      BY <1>3, <3>1, BlamesTypes DEF TypeInv
    <3> QED
      BY <1>1, <1>3, <3>2, SameAccount DEF TypeInv, rowVars
  <2>2. StoreTypes'
    BY <1>1, <1>2, <1>3, StoredTypes
  <2>3. reserved[p] = left[p] /\ left[p] - 1 \in 0..MaxFiles
    BY <1>1, Numbers DEF TypeInv, RequestTypes, RequestFuns, SendOK
  <2>4. RequestFuns' /\ Others(p)
    BY <1>1, <1>3, <2>3 DEF TypeInv, RequestTypes, RequestFuns, Others, SameOf, purgeVars
  <2>5. reserved'[p] = left'[p]
    BY <1>3, <2>3 DEF TypeInv, RequestTypes, RequestFuns
  <2>6. SendOK(p)' /\ PurgeOK(p)'
    BY <1>1, <2>5 DEF TypeInv, RequestTypes, SendOK, PurgeOK, Storing, Purging, purgeVars, mailVars
  <2> QED
    BY <1>1, <2>1, <2>2, <2>4, <2>6, OneMoves, Counters DEF TypeInv, mailVars
<1>4. CASE files' \in {files, files \union {Row(p)}} /\ GiveBack(p) /\ UNCHANGED atts
  <2>1. AccountTypes' /\ RequestTypes'
    BY <1>1, <1>4, GiveBackTypes DEF mailVars
  <2>2. StoreTypes'
    BY <1>1, <1>2, <1>4, StoredTypes
  <2> QED
    BY <2>1, <2>2 DEF TypeInv
<1> QED
  BY <1>3, <1>4 DEF Attach

LEMMA UnreadableTypes ==
  ASSUME TypeInv, NEW p \in Requests, UnreadableFile(p)
  PROVE  TypeInv'
BY GiveBackTypes, SameStore DEF UnreadableFile, TypeInv, mailVars

\* Steps of a request that delivers, and the end of storing.
LEMMA DeliverTypes ==
  ASSUME TypeInv, NEW p \in Requests, Deliver(p) \/ Done(p)
  PROVE  TypeInv'
<1>1. CASE Deliver(p)
  <2>1. PICK n \in 0..MaxFiles : left' = [left EXCEPT ![p] = n]
    BY <1>1 DEF Deliver
  <2>2. /\ pc[p] = "idle" /\ Inserted(p) /\ pc' = [pc EXCEPT ![p] = "deliver"]
        /\ UNCHANGED <<rowVars, form, fileVars, reserved, owed, purgeVars, blame, over>>
    BY <1>1 DEF Deliver, Goto
  <2>3. /\ StoreTypes' /\ lastMail' = lastMail + 1 /\ lastMail' \in Nat /\ lastMail' >= lastMail
        /\ mail' = [mail EXCEPT ![p] = lastMail'] /\ lastMail' # 0
    BY <2>2, InsertedTypes
  <2>4. AccountTypes'
    BY <2>2, SameAccount DEF TypeInv, AccountTypes
  <2>5. RequestFuns' /\ Others(p)
    BY <2>1, <2>2, <2>3 DEF TypeInv, RequestTypes, RequestFuns, Others, SameOf, purgeVars
  <2>6. pc'[p] = "deliver" /\ mail'[p] = lastMail'
    BY <2>2, <2>3 DEF TypeInv, RequestTypes, RequestFuns
  <2>7. SendOK(p)'
    BY <2>2, <2>3, <2>6 DEF TypeInv, RequestTypes, SendOK, Storing
  <2>8. PurgeOK(p)'
    <3>1. plan[p] = {} /\ released[p] = {} /\ listed[p] = {}
      BY <2>2 DEF TypeInv, RequestTypes, PurgeOK, Purging
    <3> QED
      BY <2>2, <2>6, <3>1 DEF PurgeOK, Purging, purgeVars
  <2> QED
    BY <2>3, <2>4, <2>5, <2>7, <2>8, OneMoves DEF TypeInv
<1>2. CASE Done(p)
  <2>1. /\ pc[p] \in {"attach", "deliver"} /\ left[p] = 0 /\ owed[p] = 0
        /\ mail' = [mail EXCEPT ![p] = 0] /\ pc' = [pc EXCEPT ![p] = "idle"]
        /\ UNCHANGED <<rowVars, form, mailVars, fileVars, reserved, owed, left, purgeVars, blame, over>>
    BY <1>2 DEF Done, Goto
  <2>2. AccountTypes' /\ StoreTypes'
    BY <2>1, SameAccount, SameStore DEF TypeInv, AccountTypes
  <2>3. RequestFuns' /\ Others(p)
    BY <2>1 DEF TypeInv, RequestTypes, RequestFuns, Others, SameOf, purgeVars
  <2>4. pc'[p] = "idle" /\ mail'[p] = 0
    BY <2>1 DEF TypeInv, RequestTypes, RequestFuns
  <2>5. lastMail \in Nat /\ lastMail' = lastMail
    BY <2>1, Counters DEF TypeInv, mailVars
  <2>6. SendOK(p)'
    BY <2>1, <2>4, <2>5 DEF TypeInv, RequestTypes, SendOK, Storing
  <2>7. PurgeOK(p)'
    <3>1. plan[p] = {} /\ released[p] = {} /\ listed[p] = {}
      BY <2>1 DEF TypeInv, RequestTypes, PurgeOK, Purging
    <3> QED
      BY <2>1, <2>4, <3>1 DEF PurgeOK, Purging, purgeVars
  <2> QED
    BY <2>2, <2>3, <2>5, <2>6, <2>7, OneMoves DEF TypeInv
<1> QED
  BY <1>1, <1>2

LEMMA DeliverFileTypes ==
  ASSUME TypeInv, NEW p \in Requests, DeliverFile(p) \/ DeliverCount(p)
  PROVE  TypeInv'
<1>0. lastMail \in Nat
  BY Counters DEF TypeInv
<1>1. CASE DeliverFile(p)
  <2>1. /\ pc[p] = "deliver" /\ left[p] > 0 /\ owed[p] = 0 /\ left' = [left EXCEPT ![p] = @ - 1]
        /\ UNCHANGED <<rowVars, form, mailVars, pc, reserved, mail, purgeVars, over>>
    BY <1>1 DEF DeliverFile
  <2>2. /\ files' \in {files, files \union {Row(p)}} /\ atts' \in {atts, atts \union {Row(p)}}
        /\ owed' \in {owed, [owed EXCEPT ![p] = 1]}
        /\ Blames(If(Late(p), "overlap")) \/ UNCHANGED blame
    BY <1>1 DEF DeliverFile
  <2>3. Row(p) \in AllRows /\ Row(p).mail \in 1..lastMail
    BY <2>1, RowTypes DEF Storing
  <2>4. StoreTypes'
    BY <2>1, <2>2, <2>3, StoredTypes
  <2>5. AccountTypes'
    <3>1. "overlap" \in Causes
      BY DEF Causes
    <3>2. blame' \subseteq Causes
      BY <2>2, <3>1, BlamesTypes DEF TypeInv, AccountTypes
    <3> QED
      BY <2>1, <3>2, SameAccount DEF TypeInv
  <2>6. RequestFuns' /\ Others(p)
    <3>1. left[p] - 1 \in 0..MaxFiles
      BY <2>1, Numbers DEF TypeInv, RequestTypes, RequestFuns
    <3> QED
      BY <2>1, <2>2, <3>1 DEF TypeInv, RequestTypes, RequestFuns, Others, SameOf, purgeVars
  <2>7. SendOK(p)' /\ PurgeOK(p)'
    BY <2>1 DEF TypeInv, RequestTypes, SendOK, PurgeOK, Storing, Purging, purgeVars, mailVars
  <2> QED
    BY <1>0, <2>1, <2>4, <2>5, <2>6, <2>7, OneMoves DEF TypeInv, mailVars
<1>2. CASE DeliverCount(p)
  <2>1. /\ owed[p] = 1 /\ owed' = [owed EXCEPT ![p] = 0] /\ Adds(1)
        /\ UNCHANGED <<quota, form, mailVars, fileVars, pc, reserved, left, mail, purgeVars>>
        /\ over' = (over \/ used' > quota)
    BY <1>2 DEF DeliverCount
  <2>2. AccountTypes'
    <3>1. used' \in Int /\ blame' \subseteq Causes
      BY <2>1, AddsTypes DEF TypeInv
    <3>2. over' \in BOOLEAN
      BY <2>1 DEF TypeInv, AccountTypes
    <3> QED
      BY <2>1, <3>1, <3>2 DEF TypeInv, AccountTypes
  <2>3. StoreTypes'
    BY <2>1, SameStore DEF TypeInv
  <2>4. RequestFuns' /\ Others(p)
    BY <2>1 DEF TypeInv, RequestTypes, RequestFuns, Others, SameOf, purgeVars
  <2>5. owed'[p] = 0
    BY <2>1 DEF TypeInv, RequestTypes, RequestFuns
  <2>6. SendOK(p)' /\ PurgeOK(p)'
    BY <2>1, <2>5 DEF TypeInv, RequestTypes, SendOK, PurgeOK, Storing, Purging, purgeVars, mailVars
  <2> QED
    BY <1>0, <2>1, <2>2, <2>3, <2>4, <2>6, OneMoves DEF TypeInv, mailVars
<1> QED
  BY <1>1, <1>2

\* Steps of a request that purges.
LEMMA PurgeReadTypes ==
  ASSUME TypeInv, NEW p \in Requests, PurgeRead(p)
  PROVE  TypeInv'
<1>1. PICK S \in {{m} : m \in mails} \union ({trash, mails \ trash} \ {{}}) :
        plan' = [plan EXCEPT ![p] = S]
  BY DEF PurgeRead
<1>2. /\ pc[p] = "idle" /\ pc' = [pc EXCEPT ![p] = "purge"]
      /\ UNCHANGED <<rowVars, form, mailVars, fileVars, sendVars, listed, released, blame, over>>
  BY DEF PurgeRead, Goto
<1>3. S \subseteq 1..lastMail /\ S \in SUBSET Nat /\ lastMail \in Nat
  <2>0. trash \subseteq mails
    BY DEF TypeInv, StoreTypes
  <2>1. S \subseteq mails
    <3>1. (\E m \in mails : S = {m}) \/ S = trash \/ S = mails \ trash
      BY <1>1
    <3> QED
      BY <2>0, <3>1
  <2>2. mails \subseteq 1..lastMail
    BY DEF TypeInv, StoreTypes
  <2>3. lastMail \in Nat
    BY Counters DEF TypeInv
  <2>4. 1..lastMail \subseteq Nat
    BY <2>3
  <2>5. S \subseteq 1..lastMail
    BY <2>1, <2>2
  <2>6. S \subseteq Nat
    BY <2>4, <2>5
  <2> QED
    BY <2>3, <2>5, <2>6
<1>4. AccountTypes' /\ StoreTypes'
  BY <1>2, SameAccount, SameStore DEF TypeInv, AccountTypes
<1>5. RequestFuns' /\ Others(p)
  <2>1. RequestFuns
    BY DEF TypeInv, RequestTypes
  <2>2. /\ plan' \in [Requests -> SUBSET Nat]
        /\ pc' \in [Requests -> {"idle", "read", "queued", "attach", "deliver", "purge", "release"}]
    BY <1>1, <1>2, <1>3, <2>1 DEF RequestFuns
  <2>3. UNCHANGED <<left, reserved, owed, mail, listed, released>>
    BY <1>2 DEF sendVars, mailVars
  <2>4. \A q \in Requests \ {p} : plan'[q] = plan[q] /\ pc'[q] = pc[q]
    BY <1>1, <1>2, <2>1 DEF RequestFuns
  <2>5. RequestFuns'
    BY <2>1, <2>2, <2>3 DEF RequestFuns
  <2>6. Others(p)
    BY <2>3, <2>4 DEF Others, SameOf
  <2> QED
    BY <2>5, <2>6
<1>6. plan'[p] = S /\ pc'[p] = "purge"
  BY <1>1, <1>2 DEF TypeInv, RequestTypes, RequestFuns
<1>7. SendOK(p)'
  BY <1>2, <1>6 DEF TypeInv, RequestTypes, SendOK, Storing, sendVars, mailVars
<1>8. PurgeOK(p)'
  <2>1. released[p] = {} /\ listed[p] = {}
    BY <1>2 DEF TypeInv, RequestTypes, PurgeOK, Purging
  <2> QED
    BY <1>2, <1>3, <1>6, <2>1 DEF PurgeOK, Purging, mailVars
<1> QED
  BY <1>2, <1>3, <1>4, <1>5, <1>7, <1>8, OneMoves DEF TypeInv, mailVars

LEMMA PurgeListTypes ==
  ASSUME TypeInv, NEW p \in Requests, NEW m, PurgeList(p, m)
  PROVE  TypeInv'
<1>1. /\ pc[p] = "purge" /\ m \in plan[p] /\ mail' = [mail EXCEPT ![p] = m]
      /\ pc' = [pc EXCEPT ![p] = "release"]
      /\ UNCHANGED <<rowVars, form, mailVars, fileVars, reserved, owed, left, plan, released, over>>
  BY DEF PurgeList, Goto
<1>9. /\ listed' = [listed EXCEPT ![p] = Of(m)] \/ UNCHANGED listed
      /\ blame' \subseteq blame \union {"failure"}
  BY DEF PurgeList, Blames
<1>10. listed[p] = {}
  BY <1>1 DEF TypeInv, RequestTypes, PurgeOK, Purging
<1>2. lastMail \in Nat /\ m \in 1..lastMail /\ m \in Nat
  BY <1>1, Counters DEF TypeInv, RequestTypes, PurgeOK
<1>3. Of(m) \in SUBSET AllRows /\ \A a \in Of(m) : a.mail = m
  BY DEF Of, TypeInv, StoreTypes
<1>4. AccountTypes' /\ StoreTypes'
  <2>1. blame' \subseteq Causes
    BY <1>9 DEF TypeInv, AccountTypes, Causes
  <2> QED
    BY <1>1, <2>1, SameAccount, SameStore DEF TypeInv
<1>5. RequestFuns' /\ Others(p)
  BY <1>1, <1>2, <1>3, <1>9 DEF TypeInv, RequestTypes, RequestFuns, Others, SameOf
<1>6. mail'[p] = m /\ listed'[p] \in {Of(m), {}} /\ pc'[p] = "release"
  BY <1>1, <1>9, <1>10 DEF TypeInv, RequestTypes, RequestFuns
<1>7. SendOK(p)'
  BY <1>1, <1>2, <1>6 DEF TypeInv, RequestTypes, SendOK, Storing, mailVars
<1>8. PurgeOK(p)'
  BY <1>1, <1>3, <1>6 DEF TypeInv, RequestTypes, PurgeOK, Purging, mailVars
<1> QED
  BY <1>1, <1>2, <1>4, <1>5, <1>7, <1>8, OneMoves DEF TypeInv, mailVars

LEMMA ReleaseTypes ==
  ASSUME TypeInv, NEW p \in Requests, Release(p)
  PROVE  TypeInv'
<1>1. /\ pc[p] = "release"
      /\ UNCHANGED <<quota, form, mailVars, atts, pc, sendVars, plan, over>>
  BY DEF Release
<1>2. PICK a \in listed[p] :
        /\ files' = files \ {a}
        /\ \/ used' = used - 1 /\ Blames(If(a \notin atts \/ \E q \in Requests : a \in released[q], "twice"))
           \/ UNCHANGED used /\ Blames({"failure"})
        /\ listed' = [listed EXCEPT ![p] = @ \ {a}]
        /\ released' = [released EXCEPT ![p] = @ \union {a}]
  BY DEF Release
<1>3. AccountTypes'
  <2>1. "twice" \in Causes /\ "failure" \in Causes
    BY DEF Causes
  <2>2. used' \in Int /\ blame' \subseteq Causes
    <3>1. CASE used' = used - 1 /\ Blames(If(a \notin atts \/ \E q \in Requests : a \in released[q], "twice"))
      BY <2>1, <3>1, BlamesTypes DEF TypeInv, AccountTypes
    <3>2. CASE UNCHANGED used /\ Blames({"failure"})
      BY <2>1, <3>2 DEF Blames, TypeInv, AccountTypes
    <3> QED
      BY <1>2, <3>1, <3>2
  <2> QED
    BY <1>1, <2>2 DEF TypeInv, AccountTypes
<1>4. StoreTypes'
  BY <1>1, <1>2 DEF TypeInv, StoreTypes, mailVars
<1>5. a \in AllRows
  BY <1>2 DEF TypeInv, RequestTypes, RequestFuns
<1>6. RequestFuns' /\ Others(p)
  BY <1>1, <1>2, <1>5 DEF TypeInv, RequestTypes, RequestFuns, Others, SameOf, sendVars
<1>7. listed'[p] = listed[p] \ {a} /\ released'[p] = released[p] \union {a}
  BY <1>2 DEF TypeInv, RequestTypes, RequestFuns
<1>8. SendOK(p)'
  BY <1>1 DEF TypeInv, RequestTypes, SendOK, Storing, sendVars, mailVars
<1>9. PurgeOK(p)'
  BY <1>1, <1>2, <1>7 DEF TypeInv, RequestTypes, PurgeOK, Purging, sendVars, mailVars
<1> QED
  BY <1>1, <1>3, <1>4, <1>6, <1>8, <1>9, OneMoves, Counters DEF TypeInv, mailVars

LEMMA PurgeRowsTypes ==
  ASSUME TypeInv, NEW p \in Requests, PurgeRows(p)
  PROVE  TypeInv'
<1>1. /\ pc[p] = "release" /\ listed[p] = {} /\ pc' = [pc EXCEPT ![p] = "purge"]
      /\ UNCHANGED <<rowVars, form, mailVars, files, sendVars, purgeVars, over>>
  BY DEF PurgeRows, Goto
<1>2. \/ atts' = atts \ Of(mail[p]) /\ Blames(If(Of(mail[p]) \ released[p] # {}, "overlap"))
      \/ UNCHANGED atts /\ Blames({"failure"})
  BY DEF PurgeRows
<1>3. AccountTypes'
  <2>1. "overlap" \in Causes /\ "failure" \in Causes
    BY DEF Causes
  <2>2. blame' \subseteq Causes
    <3>1. CASE Blames(If(Of(mail[p]) \ released[p] # {}, "overlap"))
      BY <2>1, <3>1, BlamesTypes DEF TypeInv
    <3>2. CASE Blames({"failure"})
      BY <2>1, <3>2 DEF Blames, TypeInv, AccountTypes
    <3> QED
      BY <1>2, <3>1, <3>2
  <2> QED
    BY <1>1, <2>2, SameAccount DEF TypeInv
<1>4. StoreTypes'
  <2>1. atts' \in SUBSET atts
    BY <1>2
  <2>2. IsFiniteSet(atts')
    BY <2>1, FS_Subset DEF TypeInv, StoreTypes
  <2> QED
    BY <1>1, <2>1, <2>2 DEF TypeInv, StoreTypes, mailVars
<1>5. RequestFuns' /\ Others(p)
  BY <1>1 DEF TypeInv, RequestTypes, RequestFuns, Others, SameOf, sendVars, purgeVars
<1>6. pc'[p] = "purge"
  BY <1>1 DEF TypeInv, RequestTypes, RequestFuns
<1>7. SendOK(p)' /\ PurgeOK(p)'
  BY <1>1, <1>6 DEF TypeInv, RequestTypes, SendOK, PurgeOK, Storing, Purging, sendVars, purgeVars, mailVars
<1> QED
  BY <1>1, <1>3, <1>4, <1>5, <1>7, OneMoves, Counters DEF TypeInv, mailVars

LEMMA PurgeMailsTypes ==
  ASSUME TypeInv, NEW p \in Requests, PurgeMails(p)
  PROVE  TypeInv'
<1>1. /\ pc[p] = "purge" /\ plan' = [plan EXCEPT ![p] = {}] /\ released' = [released EXCEPT ![p] = {}]
      /\ mail' = [mail EXCEPT ![p] = 0] /\ pc' = [pc EXCEPT ![p] = "idle"]
      /\ UNCHANGED <<rowVars, form, lastMail, fileVars, reserved, owed, left, listed, over>>
  BY DEF PurgeMails, Goto
<1>2. \/ /\ mails' = mails \ plan[p] /\ trash' = trash \ plan[p]
         /\ Blames(If(\E m \in plan[p] : Of(m) \ released[p] # {}, "overlap"))
      \/ UNCHANGED <<mails, trash>> /\ Blames({"failure"})
  BY DEF PurgeMails
<1>3. AccountTypes'
  <2>1. "overlap" \in Causes /\ "failure" \in Causes
    BY DEF Causes
  <2>2. blame' \subseteq Causes
    <3>1. CASE Blames(If(\E m \in plan[p] : Of(m) \ released[p] # {}, "overlap"))
      BY <2>1, <3>1, BlamesTypes DEF TypeInv
    <3>2. CASE Blames({"failure"})
      BY <2>1, <3>2 DEF Blames, TypeInv, AccountTypes
    <3> QED
      BY <1>2, <3>1, <3>2
  <2> QED
    BY <1>1, <2>2, SameAccount DEF TypeInv
<1>4. StoreTypes'
  BY <1>1, <1>2 DEF TypeInv, StoreTypes, fileVars
<1>5. RequestFuns' /\ Others(p)
  BY <1>1 DEF TypeInv, RequestTypes, RequestFuns, Others, SameOf
<1>6. pc'[p] = "idle" /\ plan'[p] = {} /\ released'[p] = {} /\ mail'[p] = 0 /\ listed'[p] = {}
  BY <1>1 DEF TypeInv, RequestTypes, RequestFuns, PurgeOK
<1>7. SendOK(p)'
  BY <1>1, <1>6, Counters DEF TypeInv, RequestTypes, SendOK, Storing
<1>8. PurgeOK(p)'
  BY <1>6 DEF PurgeOK, Purging
<1> QED
  BY <1>1, <1>3, <1>4, <1>5, <1>7, <1>8, OneMoves, Counters DEF TypeInv

\* Steps of no request.
LEMMA OtherTypes ==
  ASSUME TypeInv, (\E m \in mails : MoveToTrash(m) \/ Restore(m) \/ Expunge(m)) \/ UpdateUserRead \/ UpdateUserSave
  PROVE  TypeInv'
<1>1. UNCHANGED <<pc, sendVars, purgeVars, lastMail, atts, files>>
  BY DEF MoveToTrash, Restore, Expunge, UpdateUserRead, UpdateUserSave, mailVars, fileVars
<1>2. RequestTypes'
  BY <1>1 DEF TypeInv, RequestTypes, RequestFuns, SendOK, PurgeOK, Storing, Purging, sendVars, purgeVars
<1>3. ASSUME NEW m \in mails, MoveToTrash(m) \/ Restore(m) \/ Expunge(m)
      PROVE  AccountTypes' /\ StoreTypes'
  <2>1. mails' \subseteq mails /\ trash' \subseteq mails'
    BY <1>3 DEF MoveToTrash, Restore, Expunge, TypeInv, StoreTypes
  <2>2. blame' \subseteq Causes
    <3>1. "unlinked" \in Causes
      BY DEF Causes
    <3>2. blame' = blame \/ Blames(If(Of(m) # {}, "unlinked"))
      BY <1>3 DEF MoveToTrash, Restore, Expunge
    <3> QED
      BY <3>1, <3>2, BlamesTypes DEF TypeInv, AccountTypes
  <2>3. UNCHANGED <<rowVars, form, over>>
    BY <1>3 DEF MoveToTrash, Restore, Expunge
  <2> QED
    BY <1>1, <2>1, <2>2, <2>3, SameAccount DEF TypeInv, StoreTypes
<1>4. CASE UpdateUserRead
  <2>1. UNCHANGED <<rowVars, mailVars, fileVars, blame, over>>
        /\ form' = {[used |-> used, quota |-> quota]}
    BY <1>4 DEF UpdateUserRead
  <2>2. [used |-> used, quota |-> quota] \in [used : Int, quota : 0..MaxQuota]
    BY DEF TypeInv, AccountTypes
  <2> QED
    BY <1>2, <2>1, <2>2, SameStore DEF TypeInv, AccountTypes, rowVars
<1>5. CASE UpdateUserSave
  <2>1. PICK f \in form : used' = f.used /\ quota' \in 0..MaxQuota /\ Blames(If(used # f.used, "stale"))
    BY <1>5 DEF UpdateUserSave
  <2>2. UNCHANGED <<mailVars, fileVars>> /\ form' = {} /\ over' = (over \/ used' > quota')
    BY <1>5 DEF UpdateUserSave
  <2>3. used' \in Int /\ blame' \subseteq Causes /\ over' \in BOOLEAN
    <3>1. "stale" \in Causes
      BY DEF Causes
    <3>2. f.used \in Int
      BY DEF TypeInv, AccountTypes
    <3> QED
      BY <2>1, <2>2, <3>1, <3>2, BlamesTypes DEF TypeInv, AccountTypes
  <2> QED
    BY <1>2, <2>1, <2>2, <2>3, SameStore DEF TypeInv, AccountTypes
<1> QED
  BY <1>2, <1>3, <1>4, <1>5 DEF TypeInv

LEMMA CrashTypes ==
  ASSUME TypeInv, Crash
  PROVE  TypeInv'
<1>1. /\ pc' = [p \in Requests |-> "idle"] /\ reserved' = [p \in Requests |-> 0]
      /\ owed' = [p \in Requests |-> 0] /\ left' = [p \in Requests |-> 0]
      /\ mail' = [p \in Requests |-> 0] /\ plan' = [p \in Requests |-> {}]
      /\ listed' = [p \in Requests |-> {}] /\ released' = [p \in Requests |-> {}]
      /\ form' = {} /\ Blames(If(\E p \in Requests : pc[p] # "idle", "crash"))
      /\ UNCHANGED <<rowVars, mailVars, fileVars, over>>
  BY DEF Crash
<1>2. AccountTypes'
  <2>1. "crash" \in Causes
    BY DEF Causes
  <2>2. blame' \subseteq Causes
    BY <1>1, <2>1, BlamesTypes DEF TypeInv
  <2> QED
    BY <1>1, <2>2 DEF TypeInv, AccountTypes, rowVars
<1>3. StoreTypes' /\ lastMail' \in Nat
  BY <1>1, SameStore, Counters DEF TypeInv, mailVars
<1>4. RequestFuns'
  BY <1>1, Numbers DEF RequestFuns
<1>5. ASSUME NEW p \in Requests PROVE SendOK(p)' /\ PurgeOK(p)'
  BY <1>1, <1>3 DEF SendOK, PurgeOK, Storing, Purging
<1> QED
  BY <1>2, <1>3, <1>4, <1>5 DEF TypeInv, RequestTypes

LEMMA StepTypes == TypeInv /\ [Next]_vars => TypeInv'
<1> SUFFICES ASSUME TypeInv, [Next]_vars PROVE TypeInv'
  OBVIOUS
<1>1. ASSUME NEW p \in Requests, Send(p) PROVE TypeInv'
  <2>1. ASSUME NotQueued(p) \/ NotInserted(p) PROVE TypeInv'
    BY <2>1, AbandonTypes DEF NotQueued, NotInserted
  <2> QED
    BY <1>1, <2>1, ReserveTypes, UnreadableTypes, QueuedTypes, AttachTypes, DeliverTypes DEF Send
<1>2. ASSUME NEW p \in Requests, Smtp(p) PROVE TypeInv'
  BY <1>2, DeliverTypes, DeliverFileTypes DEF Smtp
<1>3. ASSUME NEW p \in Requests, Purge(p) PROVE TypeInv'
  BY <1>3, PurgeReadTypes, PurgeListTypes, ReleaseTypes, PurgeRowsTypes, PurgeMailsTypes DEF Purge
<1>4. CASE UNCHANGED vars
  BY <1>4 DEF vars, rowVars, mailVars, fileVars, sendVars, purgeVars, TypeInv, AccountTypes,
       StoreTypes, RequestTypes, RequestFuns, SendOK, PurgeOK, Storing, Purging
<1> QED
  BY <1>1, <1>2, <1>3, <1>4, OtherTypes, CrashTypes DEF Next

LEMMA Types == Spec => []TypeInv
<1> QED
  BY InitTypes, StepTypes, PTL DEF Spec

(* However many sends run at once, none brings the used bytes above the    *)
(* quota; only SMTP and the administrator do (TryReserveQuota).            *)
THEOREM QuotaHoldsCorrect == Spec => []QuotaHolds
<1>1. Init => QuotaHolds
  BY Numbers DEF Init, QuotaHolds
<1>2. TypeInv /\ QuotaHolds /\ [Next]_vars => QuotaHolds'
  <2> SUFFICES ASSUME TypeInv, QuotaHolds, [Next]_vars PROVE QuotaHolds'
    OBVIOUS
  <2>0. used \in Int /\ quota \in Int
    BY Numbers DEF TypeInv, AccountTypes
  <2>1. \A n \in Int : n <= 0 /\ Adds(n) => used' \in Int /\ used' <= used
    BY <2>0 DEF Adds
  <2>2. ASSUME NEW p \in Requests, Send(p) \/ Smtp(p) \/ Purge(p), ~Reserve(p), ~DeliverCount(p)
        PROVE  used' \in Int /\ used' <= used /\ quota' = quota /\ over' = over
    <3>1. CASE UnreadableFile(p) \/ Attach(p)
      <4>1. quota' = quota /\ over' = over /\ (used' = used \/ Adds(-1))
        BY <3>1 DEF UnreadableFile, Attach, GiveBack
      <4> QED
        BY <2>0, <2>1, <4>1
    <3>2. CASE NotQueued(p) \/ NotInserted(p) \/ Queued(p) \/ SentInserted(p) \/ Done(p)
      <4>1. used' = used /\ quota' = quota /\ over' = over
        BY <3>2 DEF NotQueued, NotInserted, Abandon, Queued, SentInserted, Done, rowVars
      <4> QED
        BY <2>0, <4>1
    <3>3. CASE Deliver(p) \/ DeliverFile(p) \/ PurgeRead(p)
      <4>1. used' = used /\ quota' = quota /\ over' = over
        BY <3>3 DEF Deliver, DeliverFile, PurgeRead, rowVars
      <4> QED
        BY <2>0, <4>1
    <3>4. CASE (\E m \in mails \union plan[p] : PurgeList(p, m)) \/ PurgeRows(p) \/ PurgeMails(p)
      <4>1. used' = used /\ quota' = quota /\ over' = over
        BY <3>4 DEF PurgeList, PurgeRows, PurgeMails, rowVars
      <4> QED
        BY <2>0, <4>1
    <3>5. CASE Release(p)
      <4>1. quota' = quota /\ over' = over /\ (used' = used \/ used' = used - 1)
        BY <3>5 DEF Release
      <4> QED
        BY <2>0, <4>1
    <3> QED
      BY <2>2, <3>1, <3>2, <3>3, <3>4, <3>5 DEF Send, Smtp, Purge
  <2>3. ASSUME NEW p \in Requests, Reserve(p)
        PROVE  (used' = used \/ used' <= quota) /\ quota' = quota /\ over' = over
    <3>1. PICK n \in 0..MaxFiles : (n > 0 => used + n <= quota) /\ used' = used + n
      BY <2>3 DEF Reserve, TryReserveQuota
    <3>2. quota' = quota /\ over' = over
      BY <2>3 DEF Reserve
    <3> QED
      BY <2>0, <3>1, <3>2
  <2>4. CASE (\E p \in Requests : DeliverCount(p)) \/ UpdateUserSave
    <3>1. used' > quota' => over'
      BY <2>4 DEF DeliverCount, UpdateUserSave
    <3> QED
      BY <3>1 DEF QuotaHolds
  <2>5. CASE (\E m \in mails : MoveToTrash(m) \/ Restore(m) \/ Expunge(m)) \/ UpdateUserRead \/ Crash
    <3>1. used' = used /\ quota' = quota /\ over' = over
      BY <2>5 DEF MoveToTrash, Restore, Expunge, UpdateUserRead, Crash, rowVars
    <3> QED
      BY <3>1 DEF QuotaHolds
  <2>6. CASE UNCHANGED vars
    BY <2>6 DEF QuotaHolds, vars, rowVars
  <2>7. CASE \E p \in Requests : Send(p) \/ Smtp(p) \/ Purge(p)
    <3>1. PICK p \in Requests : Send(p) \/ Smtp(p) \/ Purge(p)
      BY <2>7
    <3>2. CASE Reserve(p)
      <4>1. (used' = used \/ used' <= quota) /\ quota' = quota /\ over' = over
        BY <2>3, <3>2
      <4>2. used' \in Int
        BY <3>2, ReserveTypes DEF TypeInv, AccountTypes
      <4>3. used' > quota' => used > quota
        BY <2>0, <4>1, <4>2
      <4>4. used > quota => over
        BY DEF QuotaHolds
      <4> QED
        BY <4>1, <4>3, <4>4 DEF QuotaHolds
    <3>3. CASE DeliverCount(p)
      BY <2>4, <3>3
    <3>4. CASE ~Reserve(p) /\ ~DeliverCount(p)
      <4>1. used' \in Int /\ used' <= used /\ quota' = quota /\ over' = over
        BY <2>2, <3>1, <3>4
      <4>2. used' > quota' => used > quota
        BY <2>0, <4>1
      <4>3. used > quota => over
        BY DEF QuotaHolds
      <4> QED
        BY <4>1, <4>2, <4>3 DEF QuotaHolds
    <3> QED
      BY <3>2, <3>3, <3>4
  <2> QED
    BY <2>4, <2>5, <2>6, <2>7 DEF Next
<1> QED
  BY <1>1, <1>2, Types, PTL DEF Spec

-----------------------------------------------------------------------------
(* The row of the next attachment is a new one: nobody else stores those   *)
(* of the message, and the numbers go down.                                *)
Rows == atts \union UNION {listed[p] \union released[p] : p \in Requests}
StoringInv ==
  \A p \in Requests : Storing(p) =>
    /\ \A a \in Rows : a.mail = mail[p] => a.n > left[p]
    /\ \A q \in Requests \ {p} : Storing(q) => mail[q] # mail[p]

Acts(p) == Send(p) \/ Smtp(p) \/ Purge(p)
Stores(p) == Attach(p) \/ DeliverFile(p)
Inserts(p) == SentInserted(p) \/ Deliver(p)

LEMMA Alone ==
  ASSUME TypeInv, NEW p \in Requests, Acts(p)
  PROVE  Others(p)
<1>0. RequestFuns
  BY DEF TypeInv, RequestTypes
<1>1. CASE Reserve(p)
  BY <1>0, <1>1 DEF Reserve, Goto, RequestFuns, Others, SameOf, purgeVars
<1>2. CASE UnreadableFile(p)
  BY <1>0, <1>2 DEF UnreadableFile, GiveBack, RequestFuns, Others, SameOf, purgeVars
<1>3. CASE NotQueued(p) \/ NotInserted(p)
  BY <1>0, <1>3 DEF NotQueued, NotInserted, Abandon, Goto, RequestFuns, Others, SameOf, purgeVars
<1>4. CASE Queued(p)
  BY <1>0, <1>4 DEF Queued, Goto, RequestFuns, Others, SameOf, sendVars, purgeVars
<1>5. CASE SentInserted(p)
  BY <1>0, <1>5 DEF SentInserted, Inserted, Goto, RequestFuns, Others, SameOf, purgeVars
<1>6. CASE Attach(p)
  BY <1>0, <1>6 DEF Attach, GiveBack, RequestFuns, Others, SameOf, purgeVars
<1>7. CASE Done(p)
  BY <1>0, <1>7 DEF Done, Goto, RequestFuns, Others, SameOf, purgeVars
<1>8. CASE Deliver(p)
  <2>1. PICK n \in 0..MaxFiles : left' = [left EXCEPT ![p] = n]
    BY <1>8 DEF Deliver
  <2> QED
    BY <1>0, <1>8, <2>1 DEF Deliver, Inserted, Goto, RequestFuns, Others, SameOf, purgeVars
<1>9. CASE DeliverFile(p) \/ DeliverCount(p)
  BY <1>0, <1>9 DEF DeliverFile, DeliverCount, RequestFuns, Others, SameOf, purgeVars
<1>10. CASE PurgeRead(p)
  BY <1>0, <1>10 DEF PurgeRead, Goto, RequestFuns, Others, SameOf, sendVars
<1>11. CASE \E m \in mails \union plan[p] : PurgeList(p, m)
  BY <1>0, <1>11 DEF PurgeList, Goto, RequestFuns, Others, SameOf
<1>12. CASE Release(p)
  BY <1>0, <1>12 DEF Release, RequestFuns, Others, SameOf, sendVars
<1>13. CASE PurgeRows(p) \/ PurgeMails(p)
  BY <1>0, <1>13 DEF PurgeRows, PurgeMails, Goto, RequestFuns, Others, SameOf, sendVars, purgeVars
<1> QED
  BY <1>1, <1>2, <1>3, <1>4, <1>5, <1>6, <1>7, <1>8, <1>9, <1>10, <1>11, <1>12, <1>13
  DEF Acts, Send, Smtp, Purge

LEMMA RowsOf ==
  ASSUME NEW p \in Requests
  PROVE  listed[p] \subseteq Rows /\ released[p] \subseteq Rows /\ atts \subseteq Rows
BY DEF Rows

\* Only storing an attachment brings a new row, and only inserting a message a new key.
LEMMA KeepsRows ==
  ASSUME TypeInv, NEW p \in Requests, Acts(p), ~Stores(p), ~Inserts(p)
  PROVE  /\ Rows' \subseteq Rows
         /\ Storing(p)' => Storing(p) /\ mail'[p] = mail[p] /\ left'[p] = left[p]
<1>0. RequestFuns /\ Others(p)
  BY Alone DEF TypeInv, RequestTypes
<1>1. ASSUME listed'[p] \union released'[p] \subseteq Rows, atts' \subseteq atts
      PROVE  Rows' \subseteq Rows
  <2> SUFFICES ASSUME NEW a \in Rows' PROVE a \in Rows
    OBVIOUS
  <2>1. CASE a \in atts'
    BY <1>1, <2>1 DEF Rows
  <2>2. ASSUME NEW q \in Requests, a \in listed'[q] \union released'[q] PROVE a \in Rows
    BY <1>0, <1>1, <2>2 DEF Rows, Others, SameOf
  <2> QED
    BY <2>1, <2>2 DEF Rows
<1>2. CASE Reserve(p) \/ UnreadableFile(p) \/ NotQueued(p) \/ NotInserted(p) \/ Queued(p)
  <2>1. UNCHANGED <<atts, listed, released>>
    BY <1>2 DEF Reserve, UnreadableFile, NotQueued, NotInserted, Abandon, Queued, fileVars, purgeVars
  <2>2. pc'[p] \in {"read", "queued", "idle"}
    BY <1>0, <1>2 DEF Reserve, UnreadableFile, NotQueued, NotInserted, Abandon, Queued, Goto, RequestFuns
  <2> QED
    BY <1>1, <2>1, <2>2, RowsOf DEF Storing
<1>3. CASE Done(p)
  <2>1. UNCHANGED <<atts, listed, released>> /\ pc'[p] = "idle"
    BY <1>0, <1>3 DEF Done, fileVars, purgeVars, Goto, RequestFuns
  <2> QED
    BY <1>1, <2>1, RowsOf DEF Storing
<1>4. CASE DeliverCount(p)
  BY <1>1, <1>4, RowsOf DEF DeliverCount, fileVars, purgeVars, Storing
<1>5. CASE PurgeRead(p)
  <2>1. UNCHANGED <<atts, listed, released>> /\ pc'[p] = "purge"
    BY <1>0, <1>5 DEF PurgeRead, fileVars, Goto, RequestFuns
  <2> QED
    BY <1>1, <2>1, RowsOf DEF Storing
<1>6. ASSUME NEW m, PurgeList(p, m)
      PROVE  Rows' \subseteq Rows /\ ~Storing(p)'
  <2>1. UNCHANGED <<atts, released>> /\ pc'[p] = "release" /\ listed'[p] \in {Of(m), listed[p]}
    BY <1>0, <1>6 DEF PurgeList, fileVars, Goto, RequestFuns
  <2> QED
    BY <1>1, <2>1, RowsOf DEF Storing, Of
<1>7. CASE Release(p)
  <2>1. PICK a \in listed[p] : listed' = [listed EXCEPT ![p] = @ \ {a}] /\ released' = [released EXCEPT ![p] = @ \union {a}]
    BY <1>7 DEF Release
  <2>2. UNCHANGED <<atts, pc>> /\ pc[p] = "release"
    BY <1>7 DEF Release
  <2>3. listed'[p] = listed[p] \ {a} /\ released'[p] = released[p] \union {a}
    BY <1>0, <2>1 DEF RequestFuns
  <2> QED
    BY <1>1, <2>1, <2>2, <2>3, RowsOf DEF Storing
<1>8. CASE PurgeRows(p)
  <2>1. UNCHANGED <<listed, released>> /\ pc'[p] = "purge" /\ atts' \subseteq atts
    BY <1>0, <1>8 DEF PurgeRows, purgeVars, Goto, RequestFuns
  <2> QED
    BY <1>1, <2>1, RowsOf DEF Storing
<1>9. CASE PurgeMails(p)
  <2>1. UNCHANGED <<listed, atts>> /\ pc'[p] = "idle" /\ released'[p] = {}
    BY <1>0, <1>9 DEF PurgeMails, fileVars, Goto, RequestFuns
  <2> QED
    BY <1>1, <2>1, RowsOf DEF Storing
<1> QED
  BY <1>2, <1>3, <1>4, <1>5, <1>6, <1>7, <1>8, <1>9 DEF Acts, Send, Smtp, Purge, Stores, Inserts

LEMMA StoresRow ==
  ASSUME TypeInv, NEW p \in Requests, Stores(p)
  PROVE  /\ Storing(p) /\ left[p] > 0 /\ left'[p] = left[p] - 1 /\ mail' = mail
         /\ Rows' \subseteq Rows \union {Row(p)} /\ UNCHANGED <<listed, released, mails>>
         /\ files \subseteq files' /\ pc' = pc
         /\ \/ atts' = atts
            \/ /\ atts' = atts \union {Row(p)} /\ Row(p) \in files'
               /\ Blames(If(Late(p), "overlap")) /\ used' = used
               /\ \/ reserved' = [reserved EXCEPT ![p] = @ - 1] /\ owed' = owed /\ pc[p] = "attach"
                  \/ owed' = [owed EXCEPT ![p] = 1] /\ owed[p] = 0 /\ reserved' = reserved
<1>1. CASE Attach(p)
  <2>1. /\ pc[p] = "attach" /\ left[p] > 0 /\ UNCHANGED <<pc, owed, mail, listed, released, mails>>
        /\ left' = [left EXCEPT ![p] = @ - 1]
        /\ files \subseteq files'
        /\ \/ atts' = atts
           \/ /\ atts' = atts \union {Row(p)} /\ Row(p) \in files'
              /\ Blames(If(Late(p), "overlap")) /\ used' = used
              /\ reserved' = [reserved EXCEPT ![p] = @ - 1]
    BY <1>1 DEF Attach, GiveBack, purgeVars, mailVars
  <2>2. left'[p] = left[p] - 1
    BY <2>1 DEF TypeInv, RequestTypes, RequestFuns
  <2>3. Rows' \subseteq Rows \union {Row(p)}
    BY <2>1 DEF Rows
  <2> QED
    BY <2>1, <2>2, <2>3 DEF Storing
<1>2. CASE DeliverFile(p)
  <2>1. /\ pc[p] = "deliver" /\ left[p] > 0 /\ UNCHANGED <<pc, mail, used, listed, released, reserved, mails>>
        /\ left' = [left EXCEPT ![p] = @ - 1]
        /\ files \subseteq files' /\ owed[p] = 0
        /\ \/ atts' = atts
           \/ /\ atts' = atts \union {Row(p)} /\ Row(p) \in files'
              /\ Blames(If(Late(p), "overlap"))
              /\ owed' = [owed EXCEPT ![p] = 1]
    BY <1>2 DEF DeliverFile, purgeVars, rowVars, mailVars
  <2>2. left'[p] = left[p] - 1
    BY <2>1 DEF TypeInv, RequestTypes, RequestFuns
  <2>3. Rows' \subseteq Rows \union {Row(p)}
    BY <2>1 DEF Rows
  <2> QED
    BY <2>1, <2>2, <2>3 DEF Storing
<1> QED
  BY <1>1, <1>2 DEF Stores

LEMMA InsertsKey ==
  ASSUME TypeInv, NEW p \in Requests, Inserts(p)
  PROVE  /\ mail'[p] = lastMail + 1 /\ UNCHANGED <<atts, files, listed, released, Rows>>
         /\ mails \subseteq mails' /\ UNCHANGED <<used, reserved, owed, blame>>
         /\ ~Purging(p) /\ ~Purging(p)'
<1>1. Inserted(p) /\ UNCHANGED <<rowVars, fileVars, reserved, owed, purgeVars, blame>>
  BY DEF Inserts, SentInserted, Deliver
<1>2. mail'[p] = lastMail + 1 /\ mails \subseteq mails'
  BY <1>1 DEF Inserted, TypeInv, RequestTypes, RequestFuns
<1>3. pc[p] \in {"queued", "idle"} /\ pc'[p] \in {"attach", "deliver"}
  BY DEF Inserts, SentInserted, Deliver, Goto, TypeInv, RequestTypes, RequestFuns
<1> QED
  BY <1>1, <1>2, <1>3 DEF Rows, rowVars, fileVars, purgeVars, Purging

\* Every row is that of a message that has existed.
LEMMA RowKeys ==
  ASSUME TypeInv, NEW a \in Rows
  PROVE  a.mail \in 1..lastMail /\ a.n \in 1..MaxFiles
<1>1. CASE a \in atts
  BY <1>1 DEF TypeInv, StoreTypes, AllRows
<1>2. ASSUME NEW p \in Requests, a \in listed[p] \union released[p]
      PROVE  a.mail \in 1..lastMail /\ a.n \in 1..MaxFiles
  <2>1. a \in AllRows
    BY <1>2 DEF TypeInv, RequestTypes, RequestFuns
  <2>2. a.mail \in 1..lastMail
    BY <1>2 DEF TypeInv, RequestTypes, PurgeOK
  <2> QED
    BY <2>1, <2>2 DEF AllRows
<1> QED
  BY <1>1, <1>2 DEF Rows

\* The other steps, but for a crash, leave requests and rows alone.
LEMMA OtherSteps ==
  ASSUME (\E m \in mails : MoveToTrash(m) \/ Restore(m) \/ Expunge(m)) \/ UpdateUserRead \/ UpdateUserSave \/ UNCHANGED vars
  PROVE  UNCHANGED <<pc, reserved, owed, left, mail, plan, listed, released, atts, files>>
<1>1. CASE (\E m \in mails : MoveToTrash(m) \/ Restore(m) \/ Expunge(m))
  BY <1>1 DEF MoveToTrash, Restore, Expunge, fileVars, sendVars, purgeVars
<1>2. CASE UpdateUserRead \/ UpdateUserSave \/ UNCHANGED vars
  BY <1>2 DEF UpdateUserRead, UpdateUserSave, vars, fileVars, sendVars, purgeVars
<1> QED
  BY <1>1, <1>2

LEMMA StoringStep ==
  ASSUME TypeInv, StoringInv, [Next]_vars
  PROVE  StoringInv'
<1>0. lastMail \in Nat /\ \A q \in Requests : mail[q] \in 0..lastMail
  BY Counters DEF TypeInv, RequestTypes, SendOK
<1>1. ASSUME NEW p \in Requests, Acts(p) PROVE StoringInv'
  <2>0. \A q \in Requests \ {p} : SameOf(q)
    BY <1>1, Alone DEF Others
  <2>1. CASE ~Stores(p) /\ ~Inserts(p)
    <3>1. /\ Rows' \subseteq Rows
          /\ Storing(p)' => Storing(p) /\ mail'[p] = mail[p] /\ left'[p] = left[p]
      BY <1>1, <2>1, KeepsRows
    <3>2. \A q \in Requests : Storing(q)' => Storing(q) /\ mail'[q] = mail[q] /\ left'[q] = left[q]
      BY <2>0, <3>1 DEF SameOf, Storing
    <3> QED
      BY <3>1, <3>2 DEF StoringInv
  <2>2. CASE Stores(p)
    <3>1. /\ Storing(p) /\ left[p] > 0 /\ left'[p] = left[p] - 1 /\ mail' = mail /\ pc' = pc
          /\ Rows' \subseteq Rows \union {Row(p)}
      BY <2>2, StoresRow
    <3>2. Row(p).mail = mail[p] /\ Row(p).n = left[p]
      BY <3>1, RowTypes
    <3>3. left[p] \in Nat
      BY DEF TypeInv, RequestTypes, RequestFuns
    <3>4. ASSUME NEW q \in Requests, Storing(q)'
          PROVE  /\ \A a \in Rows' : a.mail = mail'[q] => a.n > left'[q]
                 /\ \A r \in Requests \ {q} : Storing(r)' => mail'[r] # mail'[q]
      <4>1. Storing(q) /\ \A r \in Requests : Storing(r)' => Storing(r)
        BY <3>1, <3>4 DEF Storing
      <4>2. \A r \in Requests \ {q} : Storing(r)' => mail'[r] # mail'[q]
        BY <3>1, <4>1 DEF StoringInv
      <4>3. ASSUME NEW a \in Rows', a.mail = mail'[q] PROVE a.n > left'[q]
        <5>1. CASE q = p
          <6>1. CASE a \in Rows
            <7>1. a.n > left[p] /\ a.n \in Nat
              BY <3>1, <4>3, <5>1, <6>1, RowKeys DEF StoringInv
            <7> QED
              BY <3>1, <3>3, <5>1, <7>1
          <6>2. CASE a = Row(p)
            BY <3>1, <3>2, <3>3, <5>1, <6>2
          <6> QED
            BY <3>1, <6>1, <6>2
        <5>2. CASE q # p
          <6>1. mail[q] # mail[p] /\ left'[q] = left[q]
            BY <2>0, <3>1, <4>1, <5>2 DEF StoringInv, SameOf
          <6>2. a \in Rows
            BY <3>1, <3>2, <4>3, <6>1
          <6> QED
            BY <3>1, <4>1, <4>3, <6>1, <6>2 DEF StoringInv
        <5> QED
          BY <5>1, <5>2
      <4> QED
        BY <4>2, <4>3
    <3> QED
      BY <3>4 DEF StoringInv
  <2>3. CASE Inserts(p)
    <3>1. mail'[p] = lastMail + 1 /\ Rows' = Rows
      BY <2>3, InsertsKey
    <3>2. ASSUME NEW q \in Requests, Storing(q)'
          PROVE  /\ \A a \in Rows' : a.mail = mail'[q] => a.n > left'[q]
                 /\ \A r \in Requests \ {q} : Storing(r)' => mail'[r] # mail'[q]
      <4>1. CASE q = p
        <5>1. \A a \in Rows' : a.mail # mail'[p]
          BY <1>0, <3>1, RowKeys
        <5>2. \A r \in Requests \ {p} : mail'[r] # mail'[p]
          BY <1>0, <2>0, <3>1 DEF SameOf
        <5> QED
          BY <4>1, <5>1, <5>2
      <4>2. CASE q # p
        <5>1. Storing(q) /\ mail'[q] = mail[q] /\ left'[q] = left[q]
          BY <2>0, <3>2, <4>2 DEF SameOf, Storing
        <5>2. ASSUME NEW r \in Requests \ {q}, Storing(r)' PROVE mail'[r] # mail'[q]
          <6>1. CASE r = p
            BY <1>0, <3>1, <5>1, <6>1
          <6>2. CASE r # p
            BY <2>0, <5>1, <5>2, <6>2 DEF SameOf, Storing, StoringInv
          <6> QED
            BY <6>1, <6>2
        <5> QED
          BY <3>1, <5>1, <5>2 DEF StoringInv
      <4> QED
        BY <4>1, <4>2
    <3> QED
      BY <3>2 DEF StoringInv
  <2> QED
    BY <2>1, <2>2, <2>3
<1>2. CASE Crash
  BY <1>2 DEF Crash, StoringInv, Storing
<1>3. CASE (\E m \in mails : MoveToTrash(m) \/ Restore(m) \/ Expunge(m)) \/ UpdateUserRead \/ UpdateUserSave \/ UNCHANGED vars
  BY <1>3, OtherSteps DEF StoringInv, Storing, Rows
<1> QED
  BY <1>1, <1>2, <1>3 DEF Next, Acts

-----------------------------------------------------------------------------
(* What has been given back is gone from the table when the request that   *)
(* did so goes on, unless a statement failed.                              *)
ReleasedInv ==
  "failure" \notin blame =>
    \A p \in Requests : \A a \in released[p] \intersect atts : pc[p] = "release" /\ a.mail = mail[p]

LEMMA NewRow ==
  ASSUME TypeInv, StoringInv, NEW p \in Requests, Stores(p)
  PROVE  Row(p) \notin Rows
<1>1. Storing(p) /\ left[p] > 0
  BY StoresRow
<1>2. Row(p).mail = mail[p] /\ Row(p).n = left[p] /\ left[p] \in Nat
  BY <1>1, RowTypes DEF TypeInv, RequestTypes, RequestFuns
<1>3. ~(left[p] > left[p])
  BY <1>2
<1> QED
  BY <1>1, <1>2, <1>3 DEF StoringInv

LEMMA BlameGrows ==
  ASSUME [Next]_vars
  PROVE  blame \subseteq blame'
<1>1. \A n : Adds(n) => blame \subseteq blame'
  BY DEF Adds, Blames
<1>2. \A p : GiveBack(p) => blame \subseteq blame'
  BY <1>1 DEF GiveBack
<1>3. \A p \in Requests : Send(p) => blame \subseteq blame'
  <2> TAKE p \in Requests
  <2>1. CASE Reserve(p) \/ Queued(p) \/ SentInserted(p) \/ Done(p)
    BY <2>1 DEF Reserve, Queued, SentInserted, Done
  <2>2. CASE UnreadableFile(p) \/ Attach(p)
    BY <1>2, <2>2 DEF UnreadableFile, Attach, Blames
  <2>3. CASE NotQueued(p) \/ NotInserted(p)
    BY <2>3 DEF NotQueued, NotInserted, Abandon, Blames
  <2> QED
    BY <2>1, <2>2, <2>3 DEF Send
<1>4. \A p \in Requests : Smtp(p) => blame \subseteq blame'
  BY <1>1 DEF Smtp, Deliver, DeliverFile, DeliverCount, Blames
<1>5. \A p \in Requests : Purge(p) => blame \subseteq blame'
  <2> TAKE p \in Requests
  <2>1. CASE PurgeRead(p) \/ \E m \in mails \union plan[p] : PurgeList(p, m)
    BY <2>1 DEF PurgeRead, PurgeList, Blames
  <2>2. CASE Release(p) \/ PurgeRows(p) \/ PurgeMails(p)
    BY <2>2 DEF Release, PurgeRows, PurgeMails, Blames
  <2> QED
    BY <2>1, <2>2 DEF Purge
<1>6. CASE (\E m \in mails : MoveToTrash(m) \/ Restore(m) \/ Expunge(m)) \/ UpdateUserRead \/ UpdateUserSave \/ Crash
  BY <1>6 DEF MoveToTrash, Restore, Expunge, UpdateUserRead, UpdateUserSave, Crash, Blames
<1>7. CASE UNCHANGED vars
  BY <1>7 DEF vars
<1> QED
  BY <1>3, <1>4, <1>5, <1>6, <1>7 DEF Next

LEMMA ReleasedStep ==
  ASSUME TypeInv, StoringInv, ReleasedInv, [Next]_vars
  PROVE  ReleasedInv'
<1> SUFFICES ASSUME "failure" \notin blame', NEW q \in Requests, NEW a \in released'[q], a \in atts'
             PROVE  pc'[q] = "release" /\ a.mail = mail'[q]
  BY DEF ReleasedInv
<1>0. RequestFuns /\ \A r \in Requests : released[r] \intersect atts # {} => pc[r] = "release"
  BY BlameGrows DEF ReleasedInv, TypeInv, RequestTypes
<1>1. ASSUME a \in released[q] \intersect atts PROVE pc[q] = "release" /\ a.mail = mail[q]
  BY <1>1, BlameGrows DEF ReleasedInv
<1>2. ASSUME NEW p \in Requests, Acts(p) PROVE pc'[q] = "release" /\ a.mail = mail'[q]
  <2>0. q # p => SameOf(q)
    BY <1>2, Alone DEF Others
  <2>1. CASE Stores(p)
    <3>1. /\ atts' \subseteq atts \union {Row(p)} /\ released' = released /\ pc' = pc /\ mail' = mail
      BY <2>1, StoresRow
    <3>2. a # Row(p)
      BY <2>1, <3>1, NewRow, RowsOf
    <3> QED
      BY <1>1, <3>1, <3>2
  <2>2. CASE Inserts(p)
    <3>1. UNCHANGED <<atts, released>> /\ ~Purging(p)
      BY <2>2, InsertsKey
    <3>2. q # p
      BY <1>1, <3>1 DEF Purging
    <3> QED
      BY <1>1, <2>0, <3>1, <3>2 DEF SameOf
  <2>3. CASE Release(p)
    <3>1. PICK b \in listed[p] : released' = [released EXCEPT ![p] = @ \union {b}]
      BY <2>3 DEF Release
    <3>2. UNCHANGED <<atts, pc, mail>> /\ pc[p] = "release"
      BY <2>3 DEF Release, sendVars
    <3>3. b.mail = mail[p]
      BY <3>1 DEF TypeInv, RequestTypes, PurgeOK
    <3>4. a \in released[q] \/ (q = p /\ a = b)
      BY <1>0, <3>1 DEF RequestFuns
    <3> QED
      BY <1>1, <3>2, <3>3, <3>4
  <2>4. CASE PurgeRows(p)
    <3>1. UNCHANGED <<released, mail>> /\ pc' = [pc EXCEPT ![p] = "purge"]
      BY <2>4 DEF PurgeRows, Goto, sendVars, purgeVars
    <3>2. atts' = atts \ Of(mail[p])
      BY <2>4 DEF PurgeRows, Blames
    <3>3. q # p
      <4>1. q = p => a.mail = mail[p]
        BY <1>1, <3>1, <3>2
      <4> QED
        BY <3>2, <4>1 DEF Of
    <3> QED
      BY <1>1, <2>0, <3>1, <3>2, <3>3 DEF SameOf
  <2>5. CASE PurgeMails(p)
    <3>1. atts' = atts /\ released' = [released EXCEPT ![p] = {}]
      BY <2>5 DEF PurgeMails, fileVars
    <3>2. q # p
      BY <1>0, <3>1 DEF RequestFuns
    <3> QED
      BY <1>1, <2>0, <3>1, <3>2 DEF SameOf
  <2>6. CASE \E m \in mails \union plan[p] : PurgeList(p, m)
    <3>1. UNCHANGED <<atts, released>> /\ pc[p] = "purge"
      BY <2>6 DEF PurgeList, fileVars
    <3>2. q # p
      BY <1>1, <3>1
    <3> QED
      BY <1>1, <2>0, <3>1, <3>2 DEF SameOf
  <2>7. CASE \/ Reserve(p) \/ UnreadableFile(p) \/ NotQueued(p) \/ NotInserted(p) \/ Queued(p)
             \/ Done(p) \/ PurgeRead(p) \/ DeliverCount(p)
    <3>1. UNCHANGED <<atts, released>>
      BY <2>7 DEF Reserve, UnreadableFile, NotQueued, NotInserted, Abandon, Queued, Done, PurgeRead,
                  DeliverCount, fileVars, purgeVars
    <3>2. ~DeliverCount(p) => pc[p] # "release"
      BY <2>7 DEF Reserve, UnreadableFile, NotQueued, NotInserted, Queued, Done, PurgeRead
    <3>3. DeliverCount(p) => pc' = pc /\ mail' = mail
      BY DEF DeliverCount
    <3>4. CASE DeliverCount(p)
      BY <1>1, <3>1, <3>3, <3>4
    <3>5. CASE ~DeliverCount(p)
      BY <1>1, <2>0, <3>1, <3>2, <3>5 DEF SameOf
    <3> QED
      BY <3>4, <3>5
  <2> QED
    BY <1>2, <2>1, <2>2, <2>3, <2>4, <2>5, <2>6, <2>7 DEF Acts, Send, Smtp, Purge, Stores, Inserts
<1>3. CASE Crash
  BY <1>3 DEF Crash
<1>4. CASE (\E m \in mails : MoveToTrash(m) \/ Restore(m) \/ Expunge(m)) \/ UpdateUserRead \/ UpdateUserSave \/ UNCHANGED vars
  BY <1>1, <1>4, OtherSteps
<1> QED
  BY <1>2, <1>3, <1>4 DEF Next, Acts

StoreInv == TypeInv /\ StoringInv /\ ReleasedInv

LEMMA StoreInvariant == Spec => []StoreInv
<1>1. Init => StoreInv
  <2> SUFFICES ASSUME Init PROVE StoreInv
    OBVIOUS
  <2>1. StoringInv /\ ReleasedInv
    BY DEF Init, StoringInv, ReleasedInv, Storing
  <2> QED
    BY <2>1, InitTypes DEF StoreInv
<1>2. StoreInv /\ [Next]_vars => StoreInv'
  BY StepTypes, StoringStep, ReleasedStep DEF StoreInv
<1> QED
  BY <1>1, <1>2, PTL DEF Spec

-----------------------------------------------------------------------------
(* Messages, rows and files belong together.                               *)
LEMMA QuietSteps ==
  ASSUME NEW p \in Requests, Acts(p), ~Stores(p), ~Inserts(p), ~Release(p), ~PurgeMails(p)
  PROVE  atts' \subseteq atts /\ UNCHANGED <<mails, files, released>>
<1>1. CASE Reserve(p) \/ UnreadableFile(p) \/ NotQueued(p) \/ NotInserted(p) \/ Queued(p) \/ Done(p)
  BY <1>1 DEF Reserve, UnreadableFile, NotQueued, NotInserted, Abandon, Queued, Done, mailVars, fileVars, purgeVars
<1>2. CASE DeliverCount(p)
  BY <1>2 DEF DeliverCount, mailVars, fileVars, purgeVars
<1>3. CASE PurgeRead(p) \/ \E m \in mails \union plan[p] : PurgeList(p, m)
  BY <1>3 DEF PurgeRead, PurgeList, mailVars, fileVars
<1>4. CASE PurgeRows(p)
  BY <1>4 DEF PurgeRows, mailVars, purgeVars
<1> QED
  BY <1>1, <1>2, <1>3, <1>4 DEF Acts, Send, Smtp, Purge, Stores, Inserts

LEMMA LinkedStep ==
  ASSUME StoreInv, Linked, [Next]_vars
  PROVE  Linked'
<1> SUFFICES ASSUME ~Blamed({"unlinked", "overlap", "failure"})', NEW a \in atts'
             PROVE  a.mail \in mails'
  BY DEF Linked
<1>0. /\ {"unlinked", "overlap", "failure"} \intersect blame' = {}
      /\ \A b \in atts : b.mail \in mails
  BY BlameGrows DEF Linked, Blamed
<1>1. ASSUME NEW p \in Requests, Acts(p) PROVE a.mail \in mails'
  <2>1. CASE Stores(p)
    <3>1. /\ Storing(p) /\ left[p] > 0 /\ mails' = mails
          /\ \/ atts' = atts
             \/ atts' = atts \union {Row(p)} /\ Blames(If(Late(p), "overlap"))
      BY <2>1, StoresRow DEF StoreInv
    <3>2. Row(p).mail = mail[p]
      BY <3>1, RowTypes DEF StoreInv
    <3>3. Blames(If(Late(p), "overlap")) => mail[p] \in mails
      BY <1>0 DEF Blames, If, Late
    <3> QED
      BY <1>0, <3>1, <3>2, <3>3
  <2>2. CASE Inserts(p)
    BY <1>0, <2>2, InsertsKey DEF StoreInv
  <2>3. CASE Release(p)
    BY <1>0, <2>3 DEF Release, mailVars
  <2>4. CASE PurgeMails(p)
    <3>1. pc[p] = "purge" /\ atts' = atts
      BY <2>4 DEF PurgeMails, fileVars
    <3>2. mails' = mails \ plan[p] /\ ~ \E m \in plan[p] : Of(m) \ released[p] # {}
      BY <1>0, <2>4 DEF PurgeMails, Blames, If
    <3>3. a \notin released[p]
      BY <1>0, <3>1, BlameGrows DEF StoreInv, ReleasedInv
    <3>4. a.mail \notin plan[p]
      BY <3>1, <3>2, <3>3 DEF Of
    <3> QED
      BY <1>0, <3>1, <3>2, <3>4
  <2>5. CASE ~Stores(p) /\ ~Inserts(p) /\ ~Release(p) /\ ~PurgeMails(p)
    BY <1>0, <1>1, <2>5, QuietSteps
  <2> QED
    BY <2>1, <2>2, <2>3, <2>4, <2>5
<1>2. ASSUME NEW m \in mails, Expunge(m) PROVE a.mail \in mails'
  <2>1. mails' = mails \ {m} /\ atts' = atts /\ Of(m) = {}
    BY <1>0, <1>2 DEF Expunge, Blames, If, fileVars
  <2> QED
    BY <1>0, <2>1 DEF Of
<1>3. CASE (\E m \in mails : MoveToTrash(m) \/ Restore(m)) \/ UpdateUserRead \/ UpdateUserSave \/ Crash
  BY <1>0, <1>3 DEF MoveToTrash, Restore, UpdateUserRead, UpdateUserSave, Crash, mailVars, fileVars
<1>4. CASE UNCHANGED vars
  BY <1>0, <1>4 DEF vars, mailVars, fileVars
<1> QED
  BY <1>1, <1>2, <1>3, <1>4 DEF Next, Acts

LEMMA DownloadableStep ==
  ASSUME StoreInv, Downloadable, [Next]_vars
  PROVE  Downloadable'
<1> SUFFICES ASSUME ~Blamed({"failure", "crash"})', NEW a \in atts'
             PROVE  a \in files' \/ \E p \in Requests : a \in released'[p]
  BY DEF Downloadable
<1>0. /\ {"failure", "crash"} \intersect blame' = {}
      /\ \A b \in atts : b \in files \/ \E p \in Requests : b \in released[p]
  BY BlameGrows DEF Downloadable, Blamed
<1>1. ASSUME NEW p \in Requests, Acts(p) PROVE a \in files' \/ \E q \in Requests : a \in released'[q]
  <2>1. CASE Stores(p)
    <3>1. /\ files \subseteq files' /\ released' = released
          /\ atts' = atts \/ (atts' = atts \union {Row(p)} /\ Row(p) \in files')
      BY <2>1, StoresRow DEF StoreInv
    <3> QED
      BY <1>0, <3>1
  <2>2. CASE Inserts(p)
    BY <1>0, <2>2, InsertsKey DEF StoreInv
  <2>3. CASE Release(p)
    <3>1. PICK b \in listed[p] : files' = files \ {b} /\ released' = [released EXCEPT ![p] = @ \union {b}]
      BY <2>3 DEF Release
    <3>2. atts' = atts
      BY <2>3 DEF Release
    <3>3. b \in released'[p] /\ \A q \in Requests : released[q] \subseteq released'[q]
      BY <3>1 DEF StoreInv, TypeInv, RequestTypes, RequestFuns
    <3> QED
      BY <1>0, <3>1, <3>2, <3>3
  <2>4. CASE PurgeMails(p)
    <3>1. pc[p] = "purge" /\ atts' = atts /\ files' = files /\ released' = [released EXCEPT ![p] = {}]
      BY <2>4 DEF PurgeMails, fileVars
    <3>2. a \notin released[p]
      BY <1>0, <3>1, BlameGrows DEF StoreInv, ReleasedInv
    <3>3. \A q \in Requests \ {p} : released'[q] = released[q]
      BY <3>1 DEF StoreInv, TypeInv, RequestTypes, RequestFuns
    <3> QED
      BY <1>0, <3>1, <3>2, <3>3
  <2>5. CASE ~Stores(p) /\ ~Inserts(p) /\ ~Release(p) /\ ~PurgeMails(p)
    BY <1>0, <1>1, <2>5, QuietSteps
  <2> QED
    BY <2>1, <2>2, <2>3, <2>4, <2>5
<1>2. CASE Crash
  <2>1. UNCHANGED <<atts, files>> /\ \A p \in Requests : pc[p] = "idle"
    BY <1>0, <1>2 DEF Crash, Blames, If, fileVars
  <2>2. \A p \in Requests : released[p] = {}
    BY <2>1 DEF StoreInv, TypeInv, RequestTypes, PurgeOK, Purging
  <2> QED
    BY <1>0, <2>1, <2>2
<1>3. CASE (\E m \in mails : MoveToTrash(m) \/ Restore(m) \/ Expunge(m)) \/ UpdateUserRead \/ UpdateUserSave \/ UNCHANGED vars
  BY <1>0, <1>3, OtherSteps
<1> QED
  BY <1>1, <1>2, <1>3 DEF Next, Acts

LEMMA TypeOKFollows ==
  ASSUME TypeInv
  PROVE  TypeOK
<1>1. /\ used \in Int /\ quota \in 0..MaxQuota
      /\ blame \subseteq Causes /\ over \in BOOLEAN
  BY DEF TypeInv, AccountTypes
<1>2. form \subseteq [used : Int, quota : 0..MaxQuota] /\ Cardinality(form) <= 1
  <2>1. CASE form = {}
    <3>1. Cardinality(form) = 0
      BY <2>1, FS_EmptySet
    <3> QED
      BY <2>1, <3>1
  <2>2. ASSUME NEW f \in [used : Int, quota : 0..MaxQuota], form = {f}
        PROVE  form \subseteq [used : Int, quota : 0..MaxQuota] /\ Cardinality(form) <= 1
    <3>1. Cardinality(form) = 1
      BY <2>2, FS_Singleton
    <3> QED
      BY <2>2, <3>1
  <2> QED
    BY <2>1, <2>2 DEF TypeInv, AccountTypes
<1>3. /\ lastMail \in 0..MaxMail /\ mails \subseteq 1..lastMail /\ trash \subseteq mails
      /\ {atts, files} \subseteq SUBSET [mail : 1..lastMail, n : 1..MaxFiles]
  <2>1. \A a \in atts \union files : a \in [mail : 1..lastMail, n : 1..MaxFiles]
    BY DEF TypeInv, StoreTypes, AllRows
  <2> QED
    BY <2>1 DEF TypeInv, StoreTypes
<1>4. ASSUME NEW p \in Requests
      PROVE  /\ pc[p] \in {"idle", "read", "queued", "attach", "deliver", "purge", "release"}
             /\ left[p] \in 0..MaxFiles /\ owed[p] \in {0, 1}
             /\ reserved[p] = (IF pc[p] \in {"read", "queued", "attach"} THEN left[p] ELSE 0)
             /\ mail[p] \in 0..lastMail
             /\ plan[p] \subseteq 1..lastMail
             /\ {listed[p], released[p]} \subseteq SUBSET [mail : plan[p], n : 1..MaxFiles]
  <2>1. \A a \in listed[p] \union released[p] : a \in AllRows /\ a.mail \in plan[p]
    BY DEF TypeInv, RequestTypes, RequestFuns, PurgeOK
  <2>2. \A a \in listed[p] \union released[p] : a \in [mail : plan[p], n : 1..MaxFiles]
    BY <2>1 DEF AllRows
  <2> QED
    BY <2>2 DEF TypeInv, RequestTypes, RequestFuns, SendOK, PurgeOK
<1> QED
  BY <1>1, <1>2, <1>3, <1>4 DEF TypeOK

(* Every row of an attachment belongs to a message and has its file, except*)
(* by the causes named (DoSend, saveMessage, purgeMessages).               *)
THEOREM AttachedCorrect == Spec => []Attached
<1>1. Init => Linked /\ Downloadable
  BY DEF Init, Linked, Downloadable
<1>2. StoreInv /\ Linked /\ Downloadable /\ [Next]_vars => (Linked /\ Downloadable)'
  BY LinkedStep, DownloadableStep
<1>3. StoreInv /\ Linked /\ Downloadable => Attached
  BY TypeOKFollows DEF StoreInv, Attached
<1> QED
  BY <1>1, <1>2, <1>3, StoreInvariant, PTL DEF Spec

-----------------------------------------------------------------------------
(* The account. A byte promised is one of a request's, so that what one    *)
(* request reserves or gives back changes the number by as much.           *)
PromisedOf(f) == {k \in Requests \X (1..MaxFiles) : k[2] <= f[k[1]]}
RestOf(f, p) == {k \in PromisedOf(f) : k[1] # p}
UncountedOf(f) == {q \in Requests : f[q] = 1}

LEMMA PartsOf ==
  ASSUME NEW S, IsFiniteSet(S), NEW T \in SUBSET S
  PROVE  IsFiniteSet(T) /\ Cardinality(T) \in Nat
BY FS_Subset, FS_CardinalityType

LEMMA Slots == IsFiniteSet(Requests \X (1..MaxFiles))
<1>1. IsFiniteSet(1..MaxFiles)
  BY Numbers, FS_Interval
<1> QED
  BY <1>1, Numbers, FS_Product

LEMMA PromisedBytes ==
  ASSUME NEW f \in [Requests -> 0..MaxFiles], NEW p \in Requests
  PROVE  /\ IsFiniteSet(PromisedOf(f)) /\ Cardinality(RestOf(f, p)) \in Nat
         /\ Cardinality(PromisedOf(f)) = Cardinality(RestOf(f, p)) + f[p]
<1> DEFINE Mine == {p} \X (1..f[p])
<1>1. f[p] \in Nat /\ f[p] <= MaxFiles /\ MaxFiles \in Nat
  BY Numbers
<1>2. IsFiniteSet(Mine) /\ Cardinality(Mine) = f[p]
  <2>1. IsFiniteSet({p}) /\ Cardinality({p}) = 1
    BY FS_Singleton
  <2>2. IsFiniteSet(1..f[p]) /\ Cardinality(1..f[p]) = f[p]
    BY <1>1, FS_Interval
  <2>3. IsFiniteSet(Mine) /\ Cardinality(Mine) = Cardinality({p}) * Cardinality(1..f[p])
    BY <2>1, <2>2, FS_Product
  <2> QED
    BY <1>1, <2>1, <2>2, <2>3
<1>3. IsFiniteSet(PromisedOf(f))
  <2>1. PromisedOf(f) \in SUBSET (Requests \X (1..MaxFiles))
    BY DEF PromisedOf
  <2> QED
    BY <2>1, Slots, PartsOf
<1>4. IsFiniteSet(RestOf(f, p))
  <2>1. RestOf(f, p) \in SUBSET PromisedOf(f)
    BY DEF RestOf
  <2> QED
    BY <2>1, <1>3, PartsOf
<1>5. PromisedOf(f) = RestOf(f, p) \union Mine
  <2>1. ASSUME NEW k \in Mine PROVE k \in PromisedOf(f)
    <3>1. PICK n \in 1..f[p] : k = <<p, n>>
      OBVIOUS
    <3>2. n \in 1..MaxFiles /\ n <= f[p]
      BY <1>1
    <3>3. k \in Requests \X (1..MaxFiles) /\ k[1] = p /\ k[2] = n
      BY <3>1, <3>2
    <3>4. k[2] <= f[k[1]]
      BY <3>2, <3>3
    <3> QED
      BY <3>3, <3>4 DEF PromisedOf
  <2>2. ASSUME NEW k \in PromisedOf(f), k[1] = p PROVE k \in Mine
    <3>1. k = <<p, k[2]>> /\ k[2] \in 1..MaxFiles /\ k[2] <= f[p]
      BY <2>2 DEF PromisedOf
    <3>2. k[2] \in 1..f[p]
      BY <1>1, <3>1
    <3> QED
      BY <3>1, <3>2
  <2> QED
    BY <2>1, <2>2 DEF RestOf
<1>6. RestOf(f, p) \intersect Mine = {}
  BY DEF RestOf
<1>7. /\ Cardinality(RestOf(f, p)) \in Nat /\ Cardinality({}) = 0
      /\ Cardinality(PromisedOf(f)) = Cardinality(RestOf(f, p)) + Cardinality(Mine) - Cardinality({})
  BY <1>2, <1>4, <1>5, <1>6, FS_Union, FS_CardinalityType, FS_EmptySet
<1> HIDE DEF Mine
<1> QED
  BY <1>1, <1>2, <1>3, <1>7

LEMMA UncountedBytes ==
  ASSUME NEW f \in [Requests -> {0, 1}], NEW p \in Requests, NEW v \in {0, 1}
  PROVE  /\ Cardinality(UncountedOf(f)) \in Nat
         /\ Cardinality(UncountedOf([f EXCEPT ![p] = v])) = Cardinality(UncountedOf(f)) - f[p] + v
<1>1. IsFiniteSet(UncountedOf(f)) /\ Cardinality(UncountedOf(f)) \in Nat
  <2>1. UncountedOf(f) \in SUBSET Requests
    BY DEF UncountedOf
  <2> QED
    BY <2>1, Numbers, PartsOf
<1>2. CASE v = f[p]
  <2>1. [f EXCEPT ![p] = v] = f
    BY <1>2
  <2>2. f[p] \in Int
    OBVIOUS
  <2>3. Cardinality(UncountedOf(f)) = Cardinality(UncountedOf(f)) - f[p] + f[p]
    BY <1>1, <2>2
  <2> QED
    BY <1>1, <1>2, <2>1, <2>3
<1>3. CASE v = 1 /\ f[p] = 0
  <2>1. UncountedOf([f EXCEPT ![p] = v]) = UncountedOf(f) \union {p} /\ p \notin UncountedOf(f)
    BY <1>3 DEF UncountedOf
  <2>2. Cardinality(UncountedOf(f) \union {p}) = Cardinality(UncountedOf(f)) + 1
    BY <1>1, <2>1, FS_AddElement
  <2>3. Cardinality(UncountedOf(f)) + 1 = Cardinality(UncountedOf(f)) - f[p] + v
    BY <1>1, <1>3
  <2> QED
    BY <1>1, <2>1, <2>2, <2>3
<1>4. CASE v = 0 /\ f[p] = 1
  <2>1. UncountedOf([f EXCEPT ![p] = v]) = UncountedOf(f) \ {p} /\ p \in UncountedOf(f)
    BY <1>4 DEF UncountedOf
  <2>2. Cardinality(UncountedOf(f) \ {p}) = Cardinality(UncountedOf(f)) - 1
    BY <1>1, <2>1, FS_RemoveElement
  <2>3. Cardinality(UncountedOf(f)) - 1 = Cardinality(UncountedOf(f)) - f[p] + v
    BY <1>1, <1>4
  <2> QED
    BY <1>1, <2>1, <2>2, <2>3
<1>5. f[p] \in {0, 1}
  OBVIOUS
<1> QED
  BY <1>2, <1>3, <1>4, <1>5

\* The numbers the account is made of.
A == Cardinality(Counted)
B == Cardinality(Promised)
C == Cardinality(Uncounted)

LEMMA Numbering ==
  ASSUME TypeInv
  PROVE  /\ IsFiniteSet(Counted) /\ A \in Nat /\ B \in Nat /\ C \in Nat /\ used \in Int
         /\ Expected = A + B - C
<1>1. Counted \in SUBSET atts /\ IsFiniteSet(atts)
  BY DEF Counted, TypeInv, StoreTypes
<1>2. IsFiniteSet(Counted) /\ A \in Nat
  BY <1>1, PartsOf DEF A
<1>3. Promised \in SUBSET (Requests \X (1..MaxFiles)) /\ Uncounted \in SUBSET Requests
  BY DEF Promised, Uncounted
<1>4. B \in Nat
  BY <1>3, Slots, PartsOf DEF B
<1>5. C \in Nat
  BY <1>3, Numbers, PartsOf DEF C
<1> QED
  BY <1>2, <1>4, <1>5 DEF A, B, C, Expected, TypeInv, AccountTypes

LEMMA NumberingNext ==
  ASSUME TypeInv'
  PROVE  /\ IsFiniteSet(Counted') /\ A' \in Nat /\ B' \in Nat /\ C' \in Nat /\ used' \in Int
         /\ Expected' = A' + B' - C'
<1>1. Counted' \in SUBSET atts' /\ IsFiniteSet(atts')
  BY DEF Counted, TypeInv, StoreTypes
<1>2. IsFiniteSet(Counted') /\ A' \in Nat
  BY <1>1, PartsOf DEF A
<1>3. Promised' \in SUBSET (Requests \X (1..MaxFiles)) /\ Uncounted' \in SUBSET Requests
  BY DEF Promised, Uncounted
<1>4. B' \in Nat
  BY <1>3, Slots, PartsOf DEF B
<1>5. C' \in Nat
  BY <1>3, Numbers, PartsOf DEF C
<1> QED
  BY <1>2, <1>4, <1>5 DEF A, B, C, Expected, TypeInv, AccountTypes

LEMMA PromisedChanges ==
  ASSUME TypeInv, NEW p \in Requests, NEW n \in 0..MaxFiles, reserved' = [reserved EXCEPT ![p] = n]
  PROVE  B' = B - reserved[p] + n
<1>1. reserved \in [Requests -> 0..MaxFiles] /\ reserved' \in [Requests -> 0..MaxFiles]
  BY DEF TypeInv, RequestTypes, RequestFuns
<1>2. B = Cardinality(PromisedOf(reserved)) /\ B' = Cardinality(PromisedOf(reserved'))
  BY DEF B, Promised, PromisedOf
<1>3. RestOf(reserved', p) = RestOf(reserved, p)
  BY <1>1 DEF RestOf, PromisedOf
<1>4. /\ Cardinality(PromisedOf(reserved)) = Cardinality(RestOf(reserved, p)) + reserved[p]
      /\ Cardinality(RestOf(reserved, p)) \in Nat
  BY <1>1, PromisedBytes
<1>5. Cardinality(PromisedOf(reserved')) = Cardinality(RestOf(reserved', p)) + reserved'[p]
  BY <1>1, PromisedBytes
<1>6. reserved'[p] = n /\ reserved[p] \in Nat /\ n \in Nat
  BY <1>1, Numbers
<1> QED
  BY <1>2, <1>3, <1>4, <1>5, <1>6

LEMMA UncountedChanges ==
  ASSUME TypeInv, NEW p \in Requests, NEW v \in {0, 1}, owed' = [owed EXCEPT ![p] = v]
  PROVE  C' = C - owed[p] + v
<1>1. owed \in [Requests -> {0, 1}]
  BY DEF TypeInv, RequestTypes, RequestFuns
<1>2. C = Cardinality(UncountedOf(owed)) /\ C' = Cardinality(UncountedOf([owed EXCEPT ![p] = v]))
  BY DEF C, Uncounted, UncountedOf
<1> QED
  BY <1>1, <1>2, UncountedBytes

LEMMA SameCounted ==
  ASSUME UNCHANGED <<atts, released>>
  PROVE  A' = A
BY DEF A, Counted

LEMMA SamePromised ==
  ASSUME reserved' = reserved
  PROVE  B' = B
BY DEF B, Promised

LEMMA SameUncounted ==
  ASSUME owed' = owed
  PROVE  C' = C
BY DEF C, Uncounted

\* How far the used bytes are from what they should be, before and after a step.
High == {"abort", "overlap", "failure", "stale", "crash"}
Low == {"twice", "failure", "stale", "crash"}
Settles ==
  /\ blame' \intersect High = {} => used' - (A' + B' - C') <= used - (A + B - C)
  /\ blame' \intersect Low = {} => used' - (A' + B' - C') >= used - (A + B - C)

LEMMA Numbered ==
  ASSUME TypeInv, TypeInv'
  PROVE  /\ A \in Nat /\ B \in Nat /\ C \in Nat /\ used \in Int
         /\ A' \in Nat /\ B' \in Nat /\ C' \in Nat /\ used' \in Int
BY Numbering, NumberingNext

LEMMA AddsSettles ==
  ASSUME NEW n \in Int, Adds(n)
  PROVE  used' = used + n \/ (used' = used /\ "failure" \in blame')
BY DEF Adds, Blames

LEMMA BlamedBoth ==
  ASSUME "failure" \in blame' \/ "stale" \in blame' \/ "crash" \in blame'
  PROVE  Settles
BY DEF Settles, High, Low

LEMMA ReserveSettles ==
  ASSUME TypeInv, TypeInv', NEW p \in Requests, Reserve(p)
  PROVE  Settles
<1>1. PICK n \in 0..MaxFiles : used' = used + n /\ reserved' = [reserved EXCEPT ![p] = n]
  BY DEF Reserve
<1>2. reserved[p] = 0 /\ n \in Nat
  BY Numbers DEF Reserve, TypeInv, RequestTypes, SendOK
<1>3. B' = B - reserved[p] + n
  BY <1>1, PromisedChanges
<1>4. A' = A /\ C' = C
  BY SameCounted, SameUncounted DEF Reserve, fileVars, purgeVars
<1> QED
  BY <1>1, <1>2, <1>3, <1>4, Numbered DEF Settles

LEMMA GiveBackSettles ==
  ASSUME TypeInv, TypeInv', NEW p \in Requests, GiveBack(p), left[p] > 0, pc[p] \in {"read", "attach"},
         UNCHANGED <<atts, released, owed>>
  PROVE  Settles
<1>1. reserved[p] = left[p] /\ left[p] \in 0..MaxFiles
  BY DEF TypeInv, RequestTypes, RequestFuns, SendOK
<1>2. reserved[p] \in Nat /\ reserved[p] - 1 \in 0..MaxFiles
  BY <1>1, Numbers
<1>3. reserved' = [reserved EXCEPT ![p] = reserved[p] - 1]
  BY DEF GiveBack
<1>4. B' = B - reserved[p] + (reserved[p] - 1)
  BY <1>2, <1>3, PromisedChanges
<1>5. A' = A /\ C' = C
  BY SameCounted, SameUncounted
<1>6. CASE used' = used + (-1)
  BY <1>2, <1>4, <1>5, <1>6, Numbered DEF Settles
<1> QED
  BY <1>6, AddsSettles, BlamedBoth DEF GiveBack

LEMMA AbandonSettles ==
  ASSUME TypeInv, TypeInv', NEW p \in Requests, Abandon(p)
  PROVE  Settles
<1>1. reserved[p] \in Nat /\ 0 \in 0..MaxFiles
  BY Numbers DEF TypeInv, RequestTypes, RequestFuns
<1>2. B' = B - reserved[p] + 0
  BY <1>1, PromisedChanges DEF Abandon
<1>3. A' = A /\ C' = C /\ used' = used
  BY SameCounted, SameUncounted DEF Abandon, fileVars, purgeVars, rowVars
<1>4. reserved[p] > 0 => "abort" \in blame'
  BY DEF Abandon, Blames, If
<1>5. blame' \intersect High = {} => reserved[p] = 0
  BY <1>1, <1>4 DEF High
<1> QED
  BY <1>1, <1>2, <1>3, <1>5, Numbered DEF Settles

\* The new row is one more that counts.
LEMMA StoredCounts ==
  ASSUME TypeInv, StoringInv, NEW p \in Requests, Stores(p),
         atts' = atts \union {Row(p)}, released' = released
  PROVE  A' = A + 1
<1>1. \A q \in Requests : Row(p) \notin released[q]
  BY NewRow, RowsOf
<1>2. Row(p) \notin Counted
  BY NewRow, RowsOf DEF Counted
<1>3. Counted' = Counted \union {Row(p)}
  BY <1>1 DEF Counted
<1> QED
  BY <1>2, <1>3, Numbering, FS_AddElement DEF A

LEMMA StoresSettles ==
  ASSUME TypeInv, TypeInv', StoringInv, NEW p \in Requests, Stores(p)
  PROVE  Settles
<1>1. CASE Attach(p)
  <2>0. left[p] > 0 /\ pc[p] = "attach" /\ UNCHANGED <<owed, released>>
    BY <1>1 DEF Attach, purgeVars
  <2>1. CASE atts' = atts \union {Row(p)} /\ reserved' = [reserved EXCEPT ![p] = @ - 1] /\ used' = used
    <3>1. reserved[p] = left[p] /\ left[p] \in 0..MaxFiles
      BY <2>0 DEF TypeInv, RequestTypes, RequestFuns, SendOK
    <3>2. reserved[p] \in Nat /\ reserved[p] - 1 \in 0..MaxFiles
      BY <2>0, <3>1, Numbers
    <3>3. reserved' = [reserved EXCEPT ![p] = reserved[p] - 1]
      BY <2>1
    <3>4. B' = B - reserved[p] + (reserved[p] - 1)
      BY <3>2, <3>3, PromisedChanges
    <3>5. A' = A + 1 /\ C' = C
      BY <2>0, <2>1, StoredCounts, SameUncounted
    <3> QED
      BY <2>1, <3>2, <3>4, <3>5, Numbered DEF Settles
  <2>2. CASE GiveBack(p) /\ UNCHANGED atts
    BY <2>0, <2>2, GiveBackSettles
  <2> QED
    BY <1>1, <2>1, <2>2 DEF Attach
<1>2. CASE DeliverFile(p)
  <2>0. UNCHANGED <<used, released, reserved>> /\ owed[p] = 0 /\ B' = B
    BY <1>2, SamePromised DEF DeliverFile, purgeVars, rowVars
  <2>1. CASE atts' = atts \union {Row(p)} /\ owed' = [owed EXCEPT ![p] = 1]
    <3>1. A' = A + 1
      BY <2>0, <2>1, StoredCounts
    <3>2. C' = C - owed[p] + 1
      BY <2>1, UncountedChanges
    <3> QED
      BY <2>0, <3>1, <3>2, Numbered DEF Settles
  <2>2. CASE UNCHANGED <<atts, owed>>
    <3>1. A' = A /\ C' = C
      BY <2>0, <2>2, SameCounted, SameUncounted
    <3> QED
      BY <2>0, <3>1, Numbered DEF Settles
  <2> QED
    BY <1>2, <2>1, <2>2 DEF DeliverFile
<1> QED
  BY <1>1, <1>2 DEF Stores

LEMMA DeliverCountSettles ==
  ASSUME TypeInv, TypeInv', NEW p \in Requests, DeliverCount(p)
  PROVE  Settles
<1>1. owed' = [owed EXCEPT ![p] = 0] /\ owed[p] = 1 /\ Adds(1)
  BY DEF DeliverCount
<1>2. C' = C - 1 + 0
  BY <1>1, UncountedChanges
<1>3. A' = A /\ B' = B
  BY SameCounted, SamePromised DEF DeliverCount, fileVars, purgeVars
<1>4. CASE used' = used + 1
  BY <1>2, <1>3, <1>4, Numbered DEF Settles
<1> QED
  BY <1>1, <1>4, AddsSettles, BlamedBoth

LEMMA ReleaseSettles ==
  ASSUME TypeInv, TypeInv', NEW p \in Requests, Release(p)
  PROVE  Settles
<1>1. PICK a \in listed[p] :
        /\ released' = [released EXCEPT ![p] = @ \union {a}]
        /\ \/ /\ used' = used - 1
              /\ Blames(If(a \notin atts \/ \E q \in Requests : a \in released[q], "twice"))
           \/ "failure" \in blame'
  BY DEF Release, Blames
<1>2. B' = B /\ C' = C /\ atts' = atts
  BY SamePromised, SameUncounted DEF Release, sendVars
<1>3. Counted' = Counted \ {a}
  <2>1. /\ released'[p] = released[p] \union {a}
        /\ \A q \in Requests \ {p} : released'[q] = released[q]
    BY <1>1 DEF TypeInv, RequestTypes, RequestFuns
  <2>2. UNION {released'[q] : q \in Requests} = (UNION {released[q] : q \in Requests}) \union {a}
    BY <2>1
  <2> QED
    BY <1>2, <2>2 DEF Counted
<1>4. CASE a \in Counted
  <2>1. A' = A - 1
    BY <1>3, <1>4, Numbering, FS_RemoveElement DEF A
  <2>2. CASE used' = used - 1
    BY <1>2, <2>1, <2>2, Numbered DEF Settles
  <2> QED
    BY <1>1, <2>2, BlamedBoth
<1>5. CASE a \notin Counted
  <2>1. A' = A
    BY <1>3, <1>5 DEF A
  <2>2. a \notin atts \/ \E q \in Requests : a \in released[q]
    BY <1>5 DEF Counted
  <2>3. CASE used' = used - 1 /\ "twice" \in blame'
    BY <1>2, <2>1, <2>3, Numbered DEF Settles, Low
  <2> QED
    BY <1>1, <2>2, <2>3, BlamedBoth DEF Blames, If
<1> QED
  BY <1>4, <1>5

LEMMA PurgeRowsSettles ==
  ASSUME TypeInv, TypeInv', NEW p \in Requests, PurgeRows(p)
  PROVE  Settles
<1>1. B' = B /\ C' = C /\ used' = used /\ released' = released
  BY SamePromised, SameUncounted DEF PurgeRows, sendVars, purgeVars, rowVars
<1>2. CASE atts' = atts \ Of(mail[p]) /\ Blames(If(Of(mail[p]) \ released[p] # {}, "overlap"))
  <2>1. Counted' \subseteq Counted
    BY <1>1, <1>2 DEF Counted
  <2>2. A' <= A
    BY <2>1, Numbering, FS_Subset DEF A
  <2>3. "overlap" \notin blame' => Counted' = Counted
    <3>1. "overlap" \notin blame' => Of(mail[p]) \subseteq released[p]
      BY <1>2 DEF Blames, If
    <3> QED
      BY <1>1, <1>2, <3>1 DEF Counted
  <2>4. "overlap" \notin blame' => A' = A
    BY <2>3 DEF A
  <2>5. blame' \intersect High = {} => A' = A
    BY <2>4 DEF High
  <2> QED
    BY <1>1, <2>2, <2>5, Numbered DEF Settles
<1> QED
  BY <1>2, BlamedBoth DEF PurgeRows, Blames

LEMMA PurgeMailsSettles ==
  ASSUME TypeInv, TypeInv', ReleasedInv, "failure" \in blame => "failure" \in blame',
         NEW p \in Requests, PurgeMails(p)
  PROVE  Settles
<1>1. B' = B /\ C' = C /\ used' = used /\ atts' = atts
  BY SamePromised, SameUncounted DEF PurgeMails, fileVars, rowVars
<1>2. CASE "failure" \notin blame
  <2>1. released[p] \intersect atts = {}
    BY <1>2 DEF ReleasedInv, PurgeMails
  <2>2. released'[p] = {} /\ \A q \in Requests \ {p} : released'[q] = released[q]
    BY DEF PurgeMails, TypeInv, RequestTypes, RequestFuns
  <2>3. Counted' = Counted
    <3>1. ASSUME NEW a \in atts
          PROVE  (\E q \in Requests : a \in released'[q]) <=> (\E q \in Requests : a \in released[q])
      BY <2>1, <2>2
    <3> QED
      BY <1>1, <3>1 DEF Counted
  <2>4. A' = A
    BY <2>3 DEF A
  <2> QED
    BY <1>1, <2>4, Numbered DEF Settles
<1> QED
  BY <1>2, BlamedBoth

LEMMA CrashSettles ==
  ASSUME TypeInv, TypeInv', Crash
  PROVE  Settles
<1>1. CASE \A p \in Requests : pc[p] = "idle"
  <2>1. \A p \in Requests : reserved[p] = 0 /\ owed[p] = 0 /\ released[p] = {}
    BY <1>1 DEF TypeInv, RequestTypes, RequestFuns, SendOK, PurgeOK, Purging
  <2>2. reserved' = reserved /\ owed' = owed /\ released' = released
    BY <2>1 DEF Crash, TypeInv, RequestTypes, RequestFuns
  <2>3. A' = A /\ B' = B /\ C' = C /\ used' = used
    BY <2>2, SameCounted, SamePromised, SameUncounted DEF Crash, fileVars, rowVars
  <2> QED
    BY <2>3, Numbered DEF Settles
<1>2. CASE \E p \in Requests : pc[p] # "idle"
  BY <1>2, BlamedBoth DEF Crash, Blames, If
<1> QED
  BY <1>1, <1>2

LEMMA SaveSettles ==
  ASSUME TypeInv, TypeInv', UpdateUserSave
  PROVE  Settles
<1>1. A' = A /\ B' = B /\ C' = C
  BY SameCounted, SamePromised, SameUncounted DEF UpdateUserSave, fileVars, sendVars, purgeVars
<1>2. used' = used \/ "stale" \in blame'
  BY DEF UpdateUserSave, Blames, If
<1>3. CASE used' = used
  BY <1>1, <1>3, Numbered DEF Settles
<1> QED
  BY <1>2, <1>3, BlamedBoth

LEMMA OtherSettles ==
  ASSUME TypeInv, TypeInv', UNCHANGED <<used, atts, released, reserved, owed>>
  PROVE  Settles
<1>1. A' = A /\ B' = B /\ C' = C
  BY SameCounted, SamePromised, SameUncounted
<1> QED
  BY <1>1, Numbered DEF Settles

LEMMA ActsSettles ==
  ASSUME StoreInv, TypeInv', [Next]_vars, NEW p \in Requests, Acts(p)
  PROVE  Settles
<1>0. TypeInv /\ StoringInv /\ ReleasedInv
  BY DEF StoreInv
<1>1. CASE Reserve(p)
  BY <1>0, <1>1, ReserveSettles
<1>2. CASE UnreadableFile(p)
  BY <1>0, <1>2, GiveBackSettles DEF UnreadableFile, fileVars, purgeVars
<1>3. CASE NotQueued(p) \/ NotInserted(p)
  BY <1>0, <1>3, AbandonSettles DEF NotQueued, NotInserted
<1>4. CASE Stores(p)
  BY <1>0, <1>4, StoresSettles
<1>5. CASE DeliverCount(p)
  BY <1>0, <1>5, DeliverCountSettles
<1>6. CASE Release(p)
  BY <1>0, <1>6, ReleaseSettles
<1>7. CASE PurgeRows(p)
  BY <1>0, <1>7, PurgeRowsSettles
<1>8. CASE PurgeMails(p)
  BY <1>0, <1>8, PurgeMailsSettles, BlameGrows
<1>9. CASE Inserts(p)
  BY <1>0, <1>9, InsertsKey, OtherSettles
<1>10. CASE Queued(p) \/ Done(p) \/ PurgeRead(p) \/ \E m \in mails \union plan[p] : PurgeList(p, m)
  BY <1>0, <1>10, OtherSettles
  DEF Queued, Done, PurgeRead, PurgeList, rowVars, fileVars, sendVars, purgeVars
<1> QED
  BY <1>1, <1>2, <1>3, <1>4, <1>5, <1>6, <1>7, <1>8, <1>9, <1>10
  DEF Acts, Send, Smtp, Purge, Stores, Inserts

LEMMA StepSettles ==
  ASSUME StoreInv, TypeInv', [Next]_vars
  PROVE  Settles
<1>0. TypeInv
  BY DEF StoreInv
<1>1. ASSUME NEW p \in Requests, Acts(p) PROVE Settles
  BY <1>1, ActsSettles
<1>2. CASE (\E m \in mails : MoveToTrash(m) \/ Restore(m) \/ Expunge(m)) \/ UpdateUserRead \/ UNCHANGED vars
  <2>1. used' = used
    BY <1>2 DEF MoveToTrash, Restore, Expunge, UpdateUserRead, vars, rowVars
  <2> QED
    BY <1>0, <1>2, <2>1, OtherSteps, OtherSettles
<1>3. CASE UpdateUserSave
  BY <1>0, <1>3, SaveSettles
<1>4. CASE Crash
  BY <1>0, <1>4, CrashSettles
<1> QED
  BY <1>1, <1>2, <1>3, <1>4 DEF Next, Acts

LEMMA ChargedStep ==
  ASSUME StoreInv, Charged, [Next]_vars
  PROVE  Charged'
<1>0. TypeInv /\ TypeInv'
  BY StepTypes DEF StoreInv
<1>1. Settles /\ blame \subseteq blame'
  BY <1>0, StepSettles, BlameGrows
<1>2. /\ Expected = A + B - C /\ Expected' = A' + B' - C'
      /\ Expected \in Int /\ Expected' \in Int /\ used \in Int /\ used' \in Int
  BY <1>0, Numbering, NumberingNext
<1>3. NotTooHigh'
  <2> SUFFICES ASSUME blame' \intersect High = {} PROVE used' <= Expected'
    BY DEF NotTooHigh, Blamed, High
  <2>1. used <= Expected
    BY <1>1 DEF Charged, NotTooHigh, Blamed, High
  <2>2. used' - Expected' <= used - Expected
    BY <1>1, <1>2 DEF Settles
  <2> QED
    BY <1>2, <2>1, <2>2
<1>4. NotTooLow'
  <2> SUFFICES ASSUME blame' \intersect Low = {} PROVE used' >= Expected'
    BY DEF NotTooLow, Blamed, Low
  <2>1. used >= Expected
    BY <1>1 DEF Charged, NotTooLow, Blamed, Low
  <2>2. used' - Expected' >= used - Expected
    BY <1>1, <1>2 DEF Settles
  <2> QED
    BY <1>2, <2>1, <2>2
<1> QED
  BY <1>3, <1>4 DEF Charged

LEMMA InitCharged == Init => Charged
<1> SUFFICES ASSUME Init PROVE used = 0 /\ Expected = 0
  BY DEF Charged, NotTooHigh, NotTooLow
<1>1. Counted = {} /\ Uncounted = {}
  BY DEF Init, Counted, Uncounted
<1>2. Promised = {}
  <2> SUFFICES ASSUME NEW r \in Requests, NEW n \in 1..MaxFiles PROVE ~(n <= reserved[r])
    BY DEF Promised
  <2> QED
    BY Numbers DEF Init
<1>3. Cardinality({}) = 0
  BY FS_EmptySet
<1> QED
  BY <1>1, <1>2, <1>3 DEF Init, Expected

(* The used bytes are exactly those of the attachments and of the sends    *)
(* under way, whatever runs at once, except by the causes named, and each  *)
(* cause moves them in its own direction only (TryReserveQuota, DoSend,    *)
(* saveMessage, purgeMessages, ReleaseQuota, UpdateUser).                  *)
THEOREM ChargedCorrect == Spec => []Charged
<1>1. StoreInv /\ Charged /\ [Next]_vars => Charged'
  BY ChargedStep
<1> QED
  BY <1>1, InitCharged, StoreInvariant, PTL DEF Spec
=============================================================================
