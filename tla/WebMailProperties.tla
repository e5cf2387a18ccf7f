------------------------- MODULE WebMailProperties -------------------------
(***************************************************************************)
(* What the accounts of the storage are meant to guarantee, and which of   *)
(* the ways the code can go wrong each of them depends on.                 *)
(***************************************************************************)
EXTENDS WebMail

\* Every variable has its type; a web request has as many bytes reserved as it has
\* attachments left to store.
TypeOK ==
  /\ used \in Int /\ quota \in 0..MaxQuota
  /\ form \subseteq [used : Int, quota : 0..MaxQuota] /\ Cardinality(form) <= 1
  /\ lastMail \in 0..MaxMail /\ mails \subseteq 1..lastMail /\ trash \subseteq mails
  /\ {atts, files} \subseteq SUBSET [mail : 1..lastMail, n : 1..MaxFiles]
  /\ blame \subseteq Causes /\ over \in BOOLEAN
  /\ \A p \in Requests :
       /\ pc[p] \in {"idle", "read", "queued", "attach", "deliver", "purge", "release"}
       /\ left[p] \in 0..MaxFiles /\ owed[p] \in {0, 1}
       /\ reserved[p] = (IF pc[p] \in {"read", "queued", "attach"} THEN left[p] ELSE 0)
       /\ mail[p] \in 0..lastMail
       /\ plan[p] \subseteq 1..lastMail
       /\ {listed[p], released[p]} \subseteq SUBSET [mail : plan[p], n : 1..MaxFiles]

-----------------------------------------------------------------------------
Blamed(causes) == blame \intersect causes # {}

\* What used should be: a byte for each attachment, with those reserved for one
\* on its way, without those not counted yet or given back already.
Counted == atts \ UNION {released[p] : p \in Requests}
Promised == {k \in Requests \X (1..MaxFiles) : k[2] <= reserved[k[1]]}
Uncounted == {p \in Requests : owed[p] = 1}
Expected == Cardinality(Counted) + Cardinality(Promised) - Cardinality(Uncounted)

(* The user is never charged for bytes that are not there, and so refused  *)
(* attachments for no reason, unless one of five things has happened: a    *)
(* send ended with an error after the reservation, a message was purged    *)
(* while its attachments were being stored, a statement failed, the        *)
(* administrator saved the row over a change, the server crashed (DoSend,  *)
(* purgeMessages, UpdateUser).                                             *)
NotTooHigh ==
  ~Blamed({"abort", "overlap", "failure", "stale", "crash"}) => used <= Expected

(* Nor does he store what is not charged, unless two requests purged the   *)
(* same message at once, or again by a failure, a stale row or a crash.    *)
NotTooLow ==
  ~Blamed({"twice", "failure", "stale", "crash"}) => used >= Expected

(* The account is exact, whatever runs at once, except by the causes named *)
(* (TryReserveQuota, ReleaseQuota, purgeMessages, UpdateUser).             *)
Charged == NotTooHigh /\ NotTooLow

(* However many sends run at once, they bring the used bytes to the quota  *)
(* at most (TryReserveQuota); only SMTP and the administrator go beyond.   *)
QuotaHolds == used > quota => over

(* The row of an attachment belongs to a message, whatever crashes: the    *)
(* message is created before and removed after its rows.  It dangles only  *)
(* if IMAP or POP3 removed the message, if it was purged while its         *)
(* attachments were being stored, or if a statement failed.                *)
Linked ==
  ~Blamed({"unlinked", "overlap", "failure"}) => \A a \in atts : a.mail \in mails

(* What can be downloaded is in the storage: a row has its file, except    *)
(* while it is being purged, or after a crash or failure in the middle.    *)
Downloadable ==
  ~Blamed({"failure", "crash"}) =>
    \A a \in atts : a \in files \/ \E p \in Requests : a \in released[p]

(* Messages, rows of attachments and files belong together, except by the  *)
(* causes named (DoSend, purgeMessages).                                   *)
Attached == TypeOK /\ Linked /\ Downloadable
=============================================================================
