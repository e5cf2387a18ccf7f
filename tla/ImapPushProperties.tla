------------------------- MODULE ImapPushProperties -------------------------
(***************************************************************************)
(* What the pushing of changes between IMAP sessions is meant to guarantee.*)
(***************************************************************************)
EXTENDS ImapPush

\* Every variable has its type.
Update == [kind : {"expunge", "exists", "fetch"}, num : 0..MaxMsg, ids : Seq(1..MaxMsg)]
TypeOK ==
  /\ folder \subseteq 1..MaxMsg /\ trash \subseteq 1..last
  /\ last \in 0..MaxMsg /\ folder \intersect trash = {}
  /\ hub \subseteq Sessions
  /\ queue \in [Sessions -> Seq(Update)]
  /\ token \in [Sessions -> BOOLEAN]
  /\ pc \in [Procs -> Selected \union {"out", "join", "leave", "broken", "delete", "move",
                                       "count", "mark", "purge", "push", "send"}]
  /\ \A p \in Procs : pc[p] \in {"push", "send"} <=> todo[p] # <<>>
  /\ plan \in [Procs -> Seq([id : 1..MaxMsg, num : 0..MaxMsg])]
  /\ gone \in [Procs -> Seq(0..MaxMsg)]
  /\ todo \in [Procs -> Seq(Update)]
  /\ targets \in [Procs -> SUBSET Sessions]
  /\ view \in [Sessions -> Seq(1..MaxMsg)]
  /\ doubt \subseteq Sessions \X Causes

-----------------------------------------------------------------------------
\* Clients that nothing may have misled.
Informed == {s \in Sessions : \A c \in Causes : <<s, c>> \notin doubt}

\* A client that has heard all that is queued for it knows the folder: the n-th
\* message of its view is the n-th of the folder.
Synchronised(s) ==
  pc[s] \in Selected /\ (\A p \in Procs : ~Changing(p)) => Hears(view[s], queue[s]) = Listing

(* A client is in sync unless one of the causes has struck: whichever of   *)
(* the sessions, the web interface and SMTP changes the folder, whatever   *)
(* the client does meanwhile and whenever it polls (enqueue, takeUpdates,  *)
(* PushNewMessage, PushExpunged, Expunge, Move, Append).                   *)
InSync == \A s \in Informed : Synchronised(s)

Prefix(v, w) == Len(v) <= Len(w) /\ \A k \in DOMAIN v : w[k] = v[k]

(* While FETCH, STORE or SEARCH is answered no message changes its number  *)
(* (takeUpdates).                                                          *)
NumbersStand ==
  [][\A s \in Informed : pc[s] = "answer" => Prefix(view[s], view'[s])]_vars

(* The hub holds the sessions that have the folder selected and no others, *)
(* whichever way they left it (Select, Unselect, Close).                   *)
HubExact == \A s \in Sessions : s \in hub <=> pc[s] \notin {"out", "join"}

(* Clients and hub are right about the folder, whoever changes it at once  *)
(* and in whichever order the changes are told (enqueue, takeUpdates,      *)
(* PushNewMessage, PushExpunged, Select, Unselect, Close).                 *)
PushInv == TypeOK /\ InSync /\ HubExact

Idling == {"idle", "wrote", "wait"}

(* A client in IDLE is told: what is queued for it is written, however the *)
(* push falls between writing and waiting (pushUpdate, Idle).              *)
IdleHears ==
  \A s \in Sessions :
    pc[s] \in Idling /\ queue[s] # <<>> ~> queue[s] = <<>>
=============================================================================
