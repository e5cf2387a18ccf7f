------------------------------ MODULE WebMail -------------------------------
(***************************************************************************)
(* The storage quota of one user: users.used_bytes against the attachments *)
(* that are stored. Web requests send, delete, restore and purge           *)
(* (web/handlers/mail.go), SMTP delivers (saveMessage), IMAP and POP3      *)
(* remove, and the administrator saves the whole row of the user.          *)
(*                                                                         *)
(* Every attachment has the size 1. What is sent to outside is module      *)
(* Outbound; what IMAP clients hear of the requests is module ImapPush.    *)
(***************************************************************************)
EXTENDS Naturals, Integers, FiniteSets

CONSTANTS
  Requests,     \* web requests and SMTP deliveries under way
  MaxFiles,     \* bound: attachments of one message
  MaxMail,      \* bound: messages 1..MaxMail ever exist
  MaxQuota,     \* the quota is one of 0..MaxQuota
  MayFail       \* may a statement or an access to a file fail?

ASSUME MailAssumption ==
  /\ IsFiniteSet(Requests)
  /\ {MaxFiles, MaxMail, MaxQuota} \subseteq Nat
  /\ MayFail \in BOOLEAN

\* Why the used bytes may be wrong, or an attachment without its message: a send is
\* given up after the reservation, two requests purge the same message, a message is
\* purged while its attachments are being stored, IMAP or POP3 removes one, the
\* administrator saves a row read earlier, a statement fails, the server crashes.
Causes == {"abort", "twice", "overlap", "unlinked", "stale", "failure", "crash"}

VARIABLES
  used,       \* users.used_bytes
  quota,      \* users.quota_bytes
  form,       \* what UpdateUser has read of them: {} or one record
  mails,      \* messages of the user
  trash,      \* those in Trash
  lastMail,   \* the last key given to a message
  atts,       \* rows of attachments: the message, and the number in it
  files,      \* files in the storage, named like the rows
  pc,         \* where each request is
  reserved,   \* sending: bytes reserved, neither stored nor given back
  owed,       \* delivering: bytes stored, not yet added to used
  left,       \* attachments a request has yet to store
  mail,       \* the message they belong to
  plan,       \* purging: messages still to go through
  listed,     \* attachments of the present one still to be released
  released    \* attachments the request has given the bytes back of

\* History.
VARIABLES
  blame,      \* the causes that have struck
  over        \* SMTP or the administrator has brought used above the quota

rowVars == <<used, quota>>
mailVars == <<mails, trash, lastMail>>
fileVars == <<atts, files>>
sendVars == <<reserved, owed, left, mail>>
purgeVars == <<plan, listed, released>>
vars == <<rowVars, form, mailVars, fileVars, pc, sendVars, purgeVars, blame, over>>

-----------------------------------------------------------------------------
Of(m) == {a \in atts : a.mail = m}
Goto(p, l) == pc' = [pc EXCEPT ![p] = l]
Blames(c) == blame' = blame \union c
If(cond, c) == IF cond THEN {c} ELSE {}

Init ==
  /\ used = 0 /\ quota \in 0..MaxQuota /\ form = {}
  /\ mails = {} /\ trash = {} /\ lastMail = 0
  /\ atts = {} /\ files = {}
  /\ pc = [p \in Requests |-> "idle"]
  /\ reserved = [p \in Requests |-> 0] /\ owed = [p \in Requests |-> 0]
  /\ left = [p \in Requests |-> 0] /\ mail = [p \in Requests |-> 0]
  /\ plan = [p \in Requests |-> {}] /\ listed = [p \in Requests |-> {}]
  /\ released = [p \in Requests |-> {}]
  /\ blame = {} /\ over = FALSE

\* UpdateUsedBytes, whose error is ignored.
Adds(n) ==
  \/ used' = used + n /\ Blames({})
  \/ MayFail /\ n # 0 /\ UNCHANGED used /\ Blames({"failure"})

-----------------------------------------------------------------------------
(* DoSend.                                                                 *)

\* Mutant: the quota is checked without the new bytes.
TryReserveQuota_Before(n) == used <= quota

\* TryReserveQuota: one statement checks and adds.
TryReserveQuota(n) == used + n <= quota

Reserve(p) ==
  /\ pc[p] = "idle"
  /\ \E n \in 0..MaxFiles :
       /\ n > 0 => TryReserveQuota(n)
       /\ used' = used + n
       /\ reserved' = [reserved EXCEPT ![p] = n]
       /\ left' = [left EXCEPT ![p] = n]
  /\ Goto(p, "read")
  /\ UNCHANGED <<quota, form, mailVars, fileVars, owed, mail, purgeVars, blame, over>>

\* Mutant: the bytes of an attachment that is left out stay reserved.
GiveBack_Nothing(p) ==
  /\ reserved' = [reserved EXCEPT ![p] = @ - 1]
  /\ left' = [left EXCEPT ![p] = @ - 1]
  /\ UNCHANGED <<used, blame>>

\* An attachment is left out: its bytes go back.
GiveBack(p) ==
  /\ reserved' = [reserved EXCEPT ![p] = @ - 1]
  /\ left' = [left EXCEPT ![p] = @ - 1]
  /\ Adds(-1)

UnreadableFile(p) ==
  /\ MayFail
  /\ pc[p] = "read" /\ left[p] > 0
  /\ GiveBack(p)
  /\ UNCHANGED <<quota, form, mailVars, fileVars, pc, owed, mail, purgeVars, over>>

\* The request is answered with an error: what was reserved stays counted.
Abandon(p) ==
  /\ reserved' = [reserved EXCEPT ![p] = 0]
  /\ left' = [left EXCEPT ![p] = 0]
  /\ Blames(If(reserved[p] > 0, "abort"))
  /\ Goto(p, "idle")
  /\ UNCHANGED <<rowVars, form, mailVars, fileVars, owed, mail, purgeVars, over>>

\* Outside recipients: outbound is disabled, there are too many, or one cannot be
\* queued for.  Then the local ones and the copy in Sent: an insert fails.
NotQueued(p) == pc[p] = "read" /\ Abandon(p)
NotInserted(p) == MayFail /\ pc[p] = "queued" /\ Abandon(p)

Queued(p) ==
  /\ pc[p] = "read"
  /\ Goto(p, "queued")
  /\ UNCHANGED <<rowVars, form, mailVars, fileVars, sendVars, purgeVars, blame, over>>

Inserted(p) ==
  /\ lastMail < MaxMail
  /\ lastMail' = lastMail + 1
  /\ mails' = mails \union {lastMail'}
  /\ mail' = [mail EXCEPT ![p] = lastMail']
  /\ UNCHANGED trash

SentInserted(p) ==
  /\ pc[p] = "queued"
  /\ Inserted(p)
  /\ Goto(p, "attach")
  /\ UNCHANGED <<rowVars, form, fileVars, reserved, owed, left, purgeVars, blame, over>>

\* A row for an attachment whose message is already being purged, or gone.
Late(p) == mail[p] \notin mails

Row(p) == [mail |-> mail[p], n |-> left[p]]

\* Mutant: the row without its file.
Attach_NoFile(p) ==
  /\ pc[p] = "attach" /\ left[p] > 0
  /\ atts' = atts \union {Row(p)}
  /\ reserved' = [reserved EXCEPT ![p] = @ - 1]
  /\ left' = [left EXCEPT ![p] = @ - 1]
  /\ Blames(If(Late(p), "overlap"))
  /\ UNCHANGED <<rowVars, form, mailVars, files, pc, owed, mail, purgeVars, over>>

\* The next attachment: the file, then its row.
Attach(p) ==
  /\ pc[p] = "attach" /\ left[p] > 0
  /\ \/ /\ files' = files \union {Row(p)}
        /\ atts' = atts \union {Row(p)}
        /\ reserved' = [reserved EXCEPT ![p] = @ - 1]
        /\ left' = [left EXCEPT ![p] = @ - 1]
        /\ Blames(If(Late(p), "overlap"))
        /\ UNCHANGED used
     \/ /\ MayFail
        /\ files' \in {files, files \union {Row(p)}}
        /\ GiveBack(p)
        /\ UNCHANGED atts
  /\ UNCHANGED <<quota, form, mailVars, pc, owed, mail, purgeVars, over>>

Done(p) ==
  /\ pc[p] \in {"attach", "deliver"} /\ left[p] = 0 /\ owed[p] = 0
  /\ mail' = [mail EXCEPT ![p] = 0]
  /\ Goto(p, "idle")
  /\ UNCHANGED <<rowVars, form, mailVars, fileVars, reserved, owed, left, purgeVars, blame, over>>

-----------------------------------------------------------------------------
(* saveMessage of the SMTP server: no look at the quota.                   *)
Deliver(p) ==
  /\ pc[p] = "idle"
  /\ Inserted(p)
  /\ \E n \in 0..MaxFiles : left' = [left EXCEPT ![p] = n]
  /\ Goto(p, "deliver")
  /\ UNCHANGED <<rowVars, form, fileVars, reserved, owed, purgeVars, blame, over>>

DeliverFile(p) ==
  /\ pc[p] = "deliver" /\ left[p] > 0 /\ owed[p] = 0
  /\ left' = [left EXCEPT ![p] = @ - 1]
  /\ \/ /\ files' = files \union {Row(p)}
        /\ atts' = atts \union {Row(p)}
        /\ owed' = [owed EXCEPT ![p] = 1]
        /\ Blames(If(Late(p), "overlap"))
     \/ /\ MayFail
        /\ files' \in {files, files \union {Row(p)}}
        /\ UNCHANGED <<atts, owed, blame>>
  /\ UNCHANGED <<rowVars, form, mailVars, pc, reserved, mail, purgeVars, over>>

DeliverCount(p) ==
  /\ owed[p] = 1
  /\ owed' = [owed EXCEPT ![p] = 0]
  /\ Adds(1)
  /\ over' = (over \/ used' > quota)
  /\ UNCHANGED <<quota, form, mailVars, fileVars, pc, reserved, left, mail, purgeVars>>

-----------------------------------------------------------------------------
(* Delete, Restore, Purge, EmptyFolder.                                    *)

\* Delete of a message that is not in Trash yet moves it there; Restore moves back.
MoveToTrash(m) ==
  /\ m \in mails \ trash
  /\ trash' = trash \union {m}
  /\ UNCHANGED <<rowVars, form, mails, lastMail, fileVars, pc, sendVars, purgeVars, blame, over>>

Restore(m) ==
  /\ m \in trash
  /\ trash' = trash \ {m}
  /\ UNCHANGED <<rowVars, form, mails, lastMail, fileVars, pc, sendVars, purgeVars, blame, over>>

\* Delete of one in Trash, Purge of any, EmptyFolder of all in a folder: the
\* messages are read, then purgeMessages goes through them one by one.
PurgeRead(p) ==
  /\ pc[p] = "idle"
  /\ \E S \in {{m} : m \in mails} \union ({trash, mails \ trash} \ {{}}) :
       plan' = [plan EXCEPT ![p] = S]
  /\ Goto(p, "purge")
  /\ UNCHANGED <<rowVars, form, mailVars, fileVars, sendVars, listed, released, blame, over>>

\* An error of ListByMessage is ignored, and so are the attachments then.
PurgeList(p, m) ==
  /\ pc[p] = "purge" /\ m \in plan[p] /\ m > mail[p]
  /\ \A k \in plan[p] : k > mail[p] => m <= k
  /\ mail' = [mail EXCEPT ![p] = m]
  /\ \/ listed' = [listed EXCEPT ![p] = Of(m)] /\ Blames({})
     \/ MayFail /\ UNCHANGED listed /\ Blames({"failure"})
  /\ Goto(p, "release")
  /\ UNCHANGED <<rowVars, form, mailVars, fileVars, reserved, owed, left, plan, released, over>>

\* The file goes, then the bytes.
Release(p) ==
  /\ pc[p] = "release"
  /\ \E a \in listed[p] :
       /\ files' = files \ {a}
       /\ \/ /\ used' = used - 1
             /\ Blames(If(a \notin atts \/ \E q \in Requests : a \in released[q], "twice"))
          \/ MayFail /\ UNCHANGED used /\ Blames({"failure"})
       /\ listed' = [listed EXCEPT ![p] = @ \ {a}]
       /\ released' = [released EXCEPT ![p] = @ \union {a}]
  /\ UNCHANGED <<quota, form, mailVars, atts, pc, sendVars, plan, over>>

\* DeleteByMessage, whatever was listed; an error is logged.
PurgeRows(p) ==
  /\ pc[p] = "release" /\ listed[p] = {}
  /\ \/ /\ atts' = atts \ Of(mail[p])
        /\ Blames(If(Of(mail[p]) \ released[p] # {}, "overlap"))
     \/ MayFail /\ UNCHANGED atts /\ Blames({"failure"})
  /\ Goto(p, "purge")
  /\ UNCHANGED <<rowVars, form, mailVars, files, sendVars, purgeVars, over>>

\* DeleteMany.
PurgeMails(p) ==
  /\ pc[p] = "purge" /\ \A m \in plan[p] : m <= mail[p]
  /\ \/ /\ mails' = mails \ plan[p]
        /\ trash' = trash \ plan[p]
        /\ Blames(If(\E m \in plan[p] : Of(m) \ released[p] # {}, "overlap"))
     \/ MayFail /\ UNCHANGED <<mails, trash>> /\ Blames({"failure"})
  /\ plan' = [plan EXCEPT ![p] = {}]
  /\ released' = [released EXCEPT ![p] = {}]
  /\ mail' = [mail EXCEPT ![p] = 0]
  /\ Goto(p, "idle")
  /\ UNCHANGED <<rowVars, form, lastMail, fileVars, reserved, owed, left, listed, over>>

-----------------------------------------------------------------------------
\* IMAP EXPUNGE and POP3 QUIT delete the row of the message only.
Expunge(m) ==
  /\ m \in mails
  /\ mails' = mails \ {m} /\ trash' = trash \ {m}
  /\ Blames(If(Of(m) # {}, "unlinked"))
  /\ UNCHANGED <<rowVars, form, lastMail, fileVars, pc, sendVars, purgeVars, over>>

\* UpdateUser reads the user, and saves the whole row with what the form changes.
UpdateUserRead ==
  /\ form = {}
  /\ form' = {[used |-> used, quota |-> quota]}
  /\ UNCHANGED <<rowVars, mailVars, fileVars, pc, sendVars, purgeVars, blame, over>>

UpdateUserSave ==
  /\ \E f \in form :
       /\ used' = f.used
       /\ quota' \in 0..MaxQuota
       /\ Blames(If(used # f.used, "stale"))
  /\ form' = {}
  /\ over' = (over \/ used' > quota')
  /\ UNCHANGED <<mailVars, fileVars, pc, sendVars, purgeVars>>

\* The server stops and starts again.
Crash ==
  /\ pc' = [p \in Requests |-> "idle"]
  /\ reserved' = [p \in Requests |-> 0] /\ owed' = [p \in Requests |-> 0]
  /\ left' = [p \in Requests |-> 0] /\ mail' = [p \in Requests |-> 0]
  /\ plan' = [p \in Requests |-> {}] /\ listed' = [p \in Requests |-> {}]
  /\ released' = [p \in Requests |-> {}]
  /\ form' = {}
  /\ Blames(If(\E p \in Requests : pc[p] # "idle", "crash"))
  /\ UNCHANGED <<rowVars, mailVars, fileVars, over>>

-----------------------------------------------------------------------------
Send(p) ==
  \/ Reserve(p) \/ UnreadableFile(p) \/ NotQueued(p) \/ Queued(p) \/ NotInserted(p)
  \/ SentInserted(p) \/ Attach(p) \/ Done(p)
Smtp(p) == Deliver(p) \/ DeliverFile(p) \/ DeliverCount(p)
Purge(p) ==
  \/ PurgeRead(p) \/ (\E m \in mails \union plan[p] : PurgeList(p, m))
  \/ Release(p) \/ PurgeRows(p) \/ PurgeMails(p)

Next ==
  \/ \E p \in Requests : Send(p) \/ Smtp(p) \/ Purge(p)
  \/ \E m \in mails : MoveToTrash(m) \/ Restore(m) \/ Expunge(m)
  \/ UpdateUserRead \/ UpdateUserSave \/ Crash

Spec == Init /\ [][Next]_vars
=============================================================================
