----------------------------- MODULE Mailboxes ------------------------------
(***************************************************************************)
(* The folders of one user (imap_server/service.go, store/mailbox_store.go)*)
(* and the UIDVALIDITY of each (store/mailbox_state_store.go), as IMAP     *)
(* sessions and web requests of the user use them at once. Every operation *)
(* first makes sure that the system folders exist and resolves the name;   *)
(* what it does afterwards is a statement or a transaction of its own.     *)
(*                                                                         *)
(* The UID of a message is its identifier in the whole database. A random  *)
(* UIDVALIDITY is one that has not been drawn before.                      *)
(***************************************************************************)
EXTENDS Naturals, FiniteSets

CONSTANTS
  System,     \* the system folders, INBOX among them
  Inbox,
  Custom,     \* names of other folders
  Procs,      \* sessions and requests
  MaxMail,    \* bound: messages 1..MaxMail ever exist
  MaxDraws    \* bound: values of UIDVALIDITY 1..MaxDraws are ever drawn

Names == System \union Custom

ASSUME MailboxAssumption ==
  /\ Inbox \in System /\ System \intersect Custom = {}
  /\ {MaxMail, MaxDraws} \subseteq Nat

VARIABLES
  boxes,      \* rows of mailboxes
  silent,     \* those not subscribed
  validity,   \* mailbox_states: 0 where there is no row
  where,      \* the folder of each message that exists
  lastMail,   \* the last identifier of a message
  draws,      \* the last UIDVALIDITY drawn
  pc,         \* where each process is
  job,        \* what it does
  missing,    \* system folders EnsureSystem has yet to create
  seen,       \* what SELECT has counted
  drawn       \* the UIDVALIDITY the process is about to save, drawn because there was none

\* History.
VARIABLES
  cache,      \* what one client was told of one folder: {} or one record
  excused,    \* its UIDVALIDITY has been given up since
  moved,      \* messages that have been moved
  lost,       \* folders deleted or renamed while another process was using them,
              \* and those that a late renaming of what it left there has merged into
  ensured     \* some EnsureSystem has succeeded

folderVars == <<boxes, silent>>
stateVars == <<validity, draws>>
mailVars == <<where, lastMail>>
procVars == <<pc, job, missing, seen, drawn>>
history == <<cache, excused, moved, lost, ensured>>
vars == <<folderVars, stateVars, mailVars, procVars, history>>

NoJob == [do |-> "none", name |-> Inbox, to |-> Inbox, msg |-> 0]
NoSight == [next |-> 0, members |-> {}]
Fallback == MaxDraws + 1
NoDraw == [value |-> 0, first |-> FALSE]

-----------------------------------------------------------------------------
Init ==
  /\ boxes = {} /\ silent = {}
  /\ validity = [f \in Names |-> 0] /\ draws = 0
  /\ where = << >> /\ lastMail = 0
  /\ pc = [p \in Procs |-> "idle"] /\ job = [p \in Procs |-> NoJob]
  /\ missing = [p \in Procs |-> {}]
  /\ seen = [p \in Procs |-> NoSight] /\ drawn = [p \in Procs |-> NoDraw]
  /\ cache = {} /\ excused = FALSE
  /\ moved = {} /\ lost = {} /\ ensured = FALSE

Mails == DOMAIN where
In(f) == {m \in Mails : where[m] = f}
Goto(p, l) == pc' = [pc EXCEPT ![p] = l]
Greatest(S) == CHOOSE n \in S \union {0} : \A k \in S : k <= n

\* The process is done: its variables are forgotten.
Return(p) ==
  /\ Goto(p, "idle")
  /\ job' = [job EXCEPT ![p] = NoJob]
  /\ missing' = [missing EXCEPT ![p] = {}]
  /\ seen' = [seen EXCEPT ![p] = NoSight]
  /\ drawn' = [drawn EXCEPT ![p] = NoDraw]

-----------------------------------------------------------------------------
\* EnsureSystem reads the rows first; when none is missing it is done.
EnsureRead(p) ==
  /\ pc[p] = "idle"
  /\ System \ boxes # {}
  /\ missing' = [missing EXCEPT ![p] = System \ boxes]
  /\ Goto(p, "ensure")
  /\ UNCHANGED <<folderVars, stateVars, mailVars, job, seen, drawn, history>>

\* Mutant: a row that exists is written over.
EnsureCreate_Upserts(p) ==
  /\ pc[p] = "ensure"
  /\ \E f \in missing[p] :
       /\ boxes' = boxes \union {f} /\ silent' = silent \ {f}
       /\ missing' = [missing EXCEPT ![p] = @ \ {f}]
  /\ UNCHANGED <<stateVars, mailVars, pc, job, seen, drawn, history>>

\* It creates what it has not read; a row created by another meanwhile is a
\* violation of the unique index, and an error, as the statement may fail otherwise.
EnsureCreate(p) ==
  /\ pc[p] = "ensure"
  /\ \E f \in missing[p] \ boxes :
       /\ boxes' = boxes \union {f}
       /\ missing' = [missing EXCEPT ![p] = @ \ {f}]
  /\ UNCHANGED <<silent, stateVars, mailVars, pc, job, seen, drawn, history>>

EnsureFails(p) ==
  /\ pc[p] = "ensure"
  /\ missing[p] # {}
  /\ Return(p)
  /\ UNCHANGED <<folderVars, stateVars, mailVars, history>>

\* EnsureSystem has succeeded, and the name has been resolved.
Ready(p) ==
  \/ pc[p] = "idle" /\ System \subseteq boxes
  \/ pc[p] = "ensure" /\ missing[p] = {}

\* What takes a name now and uses it later; a name it may not use is refused.
Jobs ==
  [do : {"append"}, name : boxes, to : {Inbox}, msg : {0}]
  \union [do : {"move"}, name : boxes, to : {Inbox}, msg : Mails]
  \union [do : {"rename"}, name : boxes \ System, to : Custom \ boxes, msg : {0}]

\* Canonical, and for a new name GetByName.
Lookup(p) ==
  /\ Ready(p)
  /\ \E j \in Jobs : job' = [job EXCEPT ![p] = j]
  /\ missing' = [missing EXCEPT ![p] = {}]
  /\ ensured' = TRUE
  /\ Goto(p, "act")
  /\ UNCHANGED <<folderVars, stateVars, mailVars, seen, drawn,
                 cache, excused, moved, lost>>

-----------------------------------------------------------------------------
\* What follows the resolution in Create, SetSubscribed and Delete is decided by
\* one statement or transaction, by name: they are one step.
Create(p) ==
  /\ Ready(p)
  /\ \E f \in Names \ ({Inbox} \union boxes) : boxes' = boxes \union {f}
  /\ ensured' = TRUE
  /\ Return(p)
  /\ UNCHANGED <<silent, stateVars, mailVars, cache, excused, moved, lost>>

SetSubscribed(p) ==
  /\ Ready(p)
  /\ \E f \in boxes : silent' \in {silent \ {f}, silent \union {f}}
  /\ ensured' = TRUE
  /\ Return(p)
  /\ UNCHANGED <<boxes, stateVars, mailVars, cache, excused, moved, lost>>

\* Another process has resolved the folder, and is not through with it.
Used(f, p) ==
  \E q \in Procs \ {p} : pc[q] \in {"act", "validity", "save"} /\ f \in {job[q].name, job[q].to}

Cached(f) == \E t \in cache : t.folder = f /\ t.validity = validity[f]

Taken(f, p) == IF Used(f, p) THEN {f} ELSE {}

\* The folder ceases to exist under its name, and its UIDVALIDITY with it.
Gone(f, spoilt) ==
  /\ validity' = [validity EXCEPT ![f] = 0]
  /\ excused' = (excused \/ Cached(f))
  /\ lost' = lost \union spoilt

Removable == boxes \ System

\* Mutant: a folder is deleted with its messages in it.
Delete_Full(p) ==
  /\ Ready(p)
  /\ \E f \in Removable :
       /\ boxes' = boxes \ {f} /\ silent' = silent \ {f}
       /\ Gone(f, Taken(f, p))
  /\ ensured' = TRUE
  /\ Return(p)
  /\ UNCHANGED <<draws, mailVars, cache, moved>>

\* Delete: not if there are messages in the folder.
Delete(p) ==
  /\ Ready(p)
  /\ \E f \in Removable :
       /\ In(f) = {}
       /\ boxes' = boxes \ {f} /\ silent' = silent \ {f}
       /\ Gone(f, Taken(f, p))
  /\ ensured' = TRUE
  /\ Return(p)
  /\ UNCHANGED <<draws, mailVars, cache, moved>>

Acts(p, do) == pc[p] = "act" /\ job[p].do = do

\* Mutant: the UIDVALIDITY goes along with the messages.
Rename_Keeps(p) ==
  /\ Acts(p, "rename")
  /\ LET f == job[p].name
         g == job[p].to
     IN /\ g \notin boxes
        /\ boxes' = (boxes \ {f}) \union (IF f \in boxes THEN {g} ELSE {})
        /\ silent' = (silent \ {f}) \union (IF f \in silent THEN {g} ELSE {})
        /\ where' = [m \in Mails |-> IF where[m] = f THEN g ELSE where[m]]
  /\ Return(p)
  /\ UNCHANGED <<stateVars, lastMail, history>>

\* The row of f is gone, but not what a late APPEND has put there: it ends up in g.
Merged(f, g) == IF f \notin boxes /\ In(f) # {} THEN {g} ELSE {}

\* Rename, a transaction: the row if there still is one, the messages, the old
\* UIDVALIDITY.  The unique index undoes it if the new name has come up meanwhile.
Rename(p) ==
  /\ Acts(p, "rename")
  /\ LET f == job[p].name
         g == job[p].to
     IN IF f \in boxes /\ g \in boxes
          THEN UNCHANGED <<folderVars, validity, where, excused, lost>>
          ELSE /\ boxes' = (boxes \ {f}) \union (IF f \in boxes THEN {g} ELSE {})
               /\ silent' = (silent \ {f}) \union (IF f \in silent THEN {g} ELSE {})
               /\ where' = [m \in Mails |-> IF where[m] = f THEN g ELSE where[m]]
               /\ Gone(f, Taken(f, p) \union Merged(f, g))
  /\ Return(p)
  /\ UNCHANGED <<draws, lastMail, cache, moved, ensured>>

-----------------------------------------------------------------------------
\* UidValidity is next.
Then(p, f) ==
  /\ Goto(p, "validity")
  /\ job' = [job EXCEPT ![p] = [NoJob EXCEPT !.do = "uid", !.name = f]]

Arrives(f) ==
  /\ lastMail < MaxMail
  /\ lastMail' = lastMail + 1
  /\ where' = [m \in Mails \union {lastMail'} |-> IF m = lastMail' THEN f ELSE where[m]]

\* APPEND and COPY, into a folder that may be gone by now.
Append(p) ==
  /\ Acts(p, "append")
  /\ Arrives(job[p].name)
  /\ Then(p, job[p].name)
  /\ UNCHANGED <<folderVars, stateVars, missing, seen, drawn, history>>

\* The statement of any operation, or of UidValidity, may fail: the client hears so.
Fails(p) ==
  /\ pc[p] \in {"act", "validity"}
  /\ Return(p)
  /\ UNCHANGED <<folderVars, stateVars, mailVars, history>>

\* MOVE, and Delete and Restore of the web.
Move(p) ==
  /\ Acts(p, "move")
  /\ IF job[p].msg \in Mails
       THEN /\ where' = [where EXCEPT ![job[p].msg] = job[p].name]
            /\ moved' = moved \union {job[p].msg}
       ELSE UNCHANGED <<where, moved>>
  /\ Then(p, job[p].name)
  /\ UNCHANGED <<folderVars, stateVars, lastMail, missing, seen, drawn,
                 cache, excused, lost, ensured>>

\* SELECT and STATUS: UIDNEXT is the highest UID there is, plus 1; the client goes
\* on to fetch what is in the folder.
Select(p) ==
  /\ Ready(p)
  /\ \E f \in boxes :
       /\ seen' = [seen EXCEPT ![p] = [next |-> Greatest(In(f)) + 1, members |-> In(f)]]
       /\ Then(p, f)
  /\ missing' = [missing EXCEPT ![p] = {}]
  /\ ensured' = TRUE
  /\ UNCHANGED <<folderVars, stateVars, mailVars, drawn, cache, excused, moved, lost>>

\* The client, or one that shares its cache, may be the one we watch.
Tells(p, v) ==
  \/ UNCHANGED cache
  \/ /\ cache = {}
     /\ seen[p] # NoSight
     /\ cache' = {[folder |-> job[p].name, validity |-> v,
                   next |-> seen[p].next, members |-> seen[p].members]}

\* UidValidity: what is stored.
Known(p) ==
  /\ pc[p] = "validity" /\ validity[job[p].name] # 0
  /\ Tells(p, validity[job[p].name])
  /\ Return(p)
  /\ UNCHANGED <<folderVars, stateVars, mailVars, excused, moved, lost, ensured>>

\* SELECT answers with UIDVALIDITY 1 when the statement fails.
FallsBack(p) ==
  /\ pc[p] = "validity" /\ seen[p] # NoSight
  /\ Tells(p, Fallback)
  /\ excused' = (excused \/ cache' # cache)
  /\ Return(p)
  /\ UNCHANGED <<folderVars, stateVars, mailVars, moved, lost, ensured>>

\* Nothing is stored: a value is drawn.
Unknown(f) == validity[f] = 0

Draw(p) ==
  /\ pc[p] = "validity" /\ Unknown(job[p].name)
  /\ draws < MaxDraws
  /\ draws' = draws + 1
  /\ drawn' = [drawn EXCEPT ![p] = [value |-> draws', first |-> validity[job[p].name] = 0]]
  /\ Goto(p, "save")
  /\ UNCHANGED <<folderVars, validity, mailVars, job, missing, seen, history>>

\* Save, an upsert: the value of another first access is written over.
Save(p) ==
  /\ pc[p] = "save"
  /\ validity' = [validity EXCEPT ![job[p].name] = drawn[p].value]
  /\ excused' = (excused \/ (drawn[p].first /\ Cached(job[p].name)))
  /\ Tells(p, drawn[p].value)
  /\ Return(p)
  /\ UNCHANGED <<folderVars, draws, mailVars, moved, lost, ensured>>

-----------------------------------------------------------------------------
\* SMTP and web deliver to INBOX whether it has a row or not.
Deliver ==
  /\ Arrives(Inbox)
  /\ UNCHANGED <<folderVars, stateVars, procVars, history>>

\* EXPUNGE, QUIT, Purge.
Expunge ==
  /\ \E m \in Mails : where' = [k \in Mails \ {m} |-> where[k]]
  /\ UNCHANGED <<folderVars, stateVars, lastMail, procVars, history>>

Next ==
  \/ \E p \in Procs :
       \/ EnsureRead(p) \/ EnsureCreate(p) \/ EnsureFails(p) \/ Lookup(p)
       \/ Create(p) \/ SetSubscribed(p) \/ Delete(p) \/ Rename(p)
       \/ Append(p) \/ Move(p) \/ Select(p) \/ Fails(p)
       \/ Known(p) \/ FallsBack(p) \/ Draw(p) \/ Save(p)
  \/ Deliver \/ Expunge

Spec == Init /\ [][Next]_vars
=============================================================================
