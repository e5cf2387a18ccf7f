--------------------------- MODULE Pop3Properties ---------------------------
(***************************************************************************)
(* What POP3 sessions and the connection hub are meant to guarantee.       *)
(***************************************************************************)
EXTENDS Pop3

\* Every variable has its type; a connection is in the hub while its handler runs.
TypeOK ==
  /\ banned \in BOOLEAN /\ cut \in BOOLEAN /\ missed \subseteq Conns
  /\ sock \subseteq Conns /\ callback \subseteq hub
  /\ stage \in [Conns -> {"none", "greeted", "checked", "admitted", "registered", "open",
                          "quitting", "ended"}]
  /\ hub = {c \in Conns : stage[c] \in {"registered", "open", "quitting"}}
  /\ admin \in {"idle", "found", "banned"} /\ targets \subseteq Conns
  /\ bans \in 0..MaxBans
  /\ folder \in [Ids -> {"new", "inbox", "other", "gone"}]
  /\ tlsActive \subseteq Pop3Conns /\ quit \subseteq Pop3Conns
  /\ \A c \in Pop3Conns :
       /\ authUser[c] \in Known \union {"nobody", "unknown"}
       /\ messages[c] \in Seq(Ids)
       /\ deleted[c] \in [map : BOOLEAN, set : SUBSET (1..Cardinality(Ids))]
       /\ login[c] \in Known \union {"nobody"}
       /\ {marked[c], removed[c], kept[c]} \subseteq SUBSET Ids

-----------------------------------------------------------------------------
(* DELE never writes to a map that is not there: that would be a panic, in *)
(* a goroutine nobody recovers, and stop the whole server (handleUSER,     *)
(* handlePASS and RSET hand messages and map on together).                 *)
NoPanic == \A c \in Pop3Conns : messages[c] # <<>> => deleted[c].map

(* Messages are only shown to, and removed by, who gave the password on    *)
(* this connection, however USER and PASS were mixed (handleUSER alone     *)
(* makes a session "authenticated").                                       *)
OwnMessages ==
  \A c \in Pop3Conns : \A i \in DOMAIN messages[c] :
    login[c] # "nobody" /\ Owner[messages[c][i]] = login[c]

(* Whoever a connection was before, it is in the hub while its handler     *)
(* runs, and shows the messages of its last login (handleUSER, handlePASS, *)
(* Register, Close).                                                       *)
Pop3Inv == TypeOK /\ OwnMessages

(* A connection removes the messages whose deletion it granted in its last *)
(* login and none else, and none without QUIT; when the handler of a QUIT  *)
(* has ended all of them are gone, but for those whose deletion failed     *)
(* (expungeDeleted).                                                       *)
RemovesMarked ==
  \A c \in Pop3Conns :
    /\ removed[c] \subseteq marked[c]
    /\ removed[c] # {} => c \in quit
    /\ kept[c] # {} => MayFail
    /\ stage[c] = "ended" /\ c \in quit =>
         \A m \in marked[c] \ kept[c] : m \in removed[c] /\ folder[m] = "gone"

\* A ban has reached the connections of its address, and how it may be lifted then.
Reached == cut /\ targets = {} => callback \intersect sock \subseteq missed
Exempt == missed \union (Conns \ sock)
Lifts == Unban \/ \E c \in Exempt : Login(c) \/ (c \in Pop3Conns /\ PASS(c))

(* Once the administrator has banned an address and disconnected it, none  *)
(* of its connections is left, except those that were being set up at that *)
(* moment, after their look at the ban list and before their callback,     *)
(* those whose look failed, and those of SMTP, which has no such look      *)
(* (Register, SetDisconnect, DisconnectByIP, IsBanned). A login lifts the  *)
(* ban (ResetFail), but on a connection of POP3 or IMAP only one of these  *)
(* exceptions can do it, or one whose socket is closed and that has still  *)
(* a command to handle.                                                    *)
Kicked == []Reached /\ [][cut /\ targets = {} /\ ~cut' => Lifts]_vars

-----------------------------------------------------------------------------
(* A connection of POP3 leaves the hub in the end, whatever its client and *)
(* the administrator do (SetDeadline, the deferred Close).                 *)
Drains == \A c \in Pop3Conns : (c \in hub) ~> (c \notin hub)
=============================================================================
