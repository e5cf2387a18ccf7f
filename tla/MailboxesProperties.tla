------------------------ MODULE MailboxesProperties ------------------------
(***************************************************************************)
(* What the folders of a user are meant to guarantee.                      *)
(***************************************************************************)
EXTENDS Mailboxes

\* Every variable has its type.
TypeOK ==
  /\ silent \subseteq boxes /\ boxes \subseteq Names
  /\ draws \in 0..MaxDraws /\ validity \in [Names -> 0..draws]
  /\ lastMail \in 0..MaxMail /\ Mails \subseteq 1..lastMail
  /\ \A m \in Mails : where[m] \in Names
  /\ moved \subseteq 1..lastMail /\ lost \subseteq Custom
  /\ Cardinality(cache) <= 1 /\ \A t \in cache : t.validity \in 1..Fallback
  /\ \A p \in Procs :
       /\ pc[p] \in {"idle", "ensure", "act", "validity", "save"}
       /\ pc[p] \in {"idle", "ensure"} <=> job[p] = NoJob
       /\ missing[p] \subseteq System
       /\ drawn[p].value \in 0..draws
       /\ drawn[p].value # 0 <=> pc[p] = "save"

-----------------------------------------------------------------------------
(* Every message is in a folder that is listed, and no UIDVALIDITY is left *)
(* over, unless the folder was deleted or renamed while another session    *)
(* had resolved its name and not yet stored what it was about to, or a     *)
(* second renaming brought what it stored there (Delete, Rename, Append,   *)
(* MoveToFolder, UidValidity).                                             *)
NoOrphans ==
  \A f \in Names \ (System \union boxes \union lost) : In(f) = {} /\ validity[f] = 0

(* A UIDVALIDITY a client was told stays that of the folder until it is    *)
(* deleted or renamed: only two first accesses at once make one of them    *)
(* void at once (UidValidity).                                             *)
Stable ==
  \A t \in cache : t.folder \notin lost => t.validity = validity[t.folder] \/ excused

(* A client that comes back to a folder and finds the UIDVALIDITY it knows *)
(* may keep its cache: a message below the UIDNEXT it was told, and not    *)
(* among those it saw, can only have been moved there, or stored by one of *)
(* the sessions the folder was taken from (Rename, Delete, UidValidity).   *)
(* The comment of ListAllByUserAndFolder says it of every new message; a   *)
(* moved one keeps its identifier, and may get in below.                   *)
Vouched ==
  \A t \in cache :
    t.folder \notin lost /\ t.validity = validity[t.folder] =>
      \A m \in In(t.folder) : m < t.next => m \in t.members \union moved

(* A client's cache of a folder stands as long as the UIDVALIDITY does, and*)
(* that as long as the folder: across renamings, removals and deliveries   *)
(* by sessions that had resolved the name before (UidValidity, Rename).    *)
CacheStands == Stable /\ Vouched

(* Once the system folders have been created they are always there, for    *)
(* every session: neither deleted nor renamed, under any interleaving of   *)
(* first accesses (EnsureSystem, Delete, Rename).                          *)
SystemStays == ensured => System \subseteq boxes

(* Whatever sessions do to the folders at once, there are those that must  *)
(* be, and nothing lies in one that is not (EnsureSystem, Delete, Rename,  *)
(* Append).                                                                *)
FolderInv == TypeOK /\ SystemStays /\ NoOrphans

-----------------------------------------------------------------------------
(* A folder that the user has unsubscribed stays so until he subscribes it *)
(* or removes it: EnsureSystem does not write over it.                     *)
KeepsChoice ==
  [][\A f \in silent \ silent' :
       \/ f \notin boxes'
       \/ \E p \in Procs : SetSubscribed(p)]_vars
=============================================================================
