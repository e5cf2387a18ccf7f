------------------------ MODULE WebSessionProperties ------------------------
(***************************************************************************)
(* What the sessions and the users of the web interface are meant to       *)
(* guarantee.                                                              *)
(***************************************************************************)
EXTENDS WebSession

\* Every variable has its type; a browser holds no cookie beyond its MaxAge.
TypeOK ==
  /\ Rows \subseteq born /\ born \subseteq Users
  /\ \A u \in Rows : rows[u] \in Row
  /\ DOMAIN acked = born /\ \A u \in born : acked[u] \in Row
  /\ passwords \in 1..MaxPasswords
  /\ {temporary, created} \subseteq SUBSET (Users \X (1..MaxPasswords))
  /\ stale \subseteq born /\ revived \subseteq gone /\ gone \subseteq born
  /\ resigned \in BOOLEAN /\ out \subseteq Browsers /\ late \subseteq Requests
  /\ \A b \in Browsers : jar[b] \subseteq Cookie /\ Cardinality(jar[b]) <= 1
  /\ \A r \in Requests :
       /\ pc[r] \in {"idle", "settings", "console", "save", "reply"}
       /\ pc[r] = "idle" <=> req[r] = NoReq
       /\ req[r].set.to \subseteq Cookie /\ req[r].state.to \subseteq 1..flows
  /\ flows \in 0..MaxFlows /\ used \subseteq 1..flows
  /\ \A b \in Browsers : state[b] \subseteq 1..flows /\ Cardinality(state[b]) <= 1

-----------------------------------------------------------------------------
(* Once the reply to a logout has arrived the browser has no session until *)
(* it logs in again: only the reply to a request that was under way at the *)
(* time may bring one back (DoLogout, AuthMiddleware's refresh).           *)
LoggedOut == \A b \in out : jar[b] = {}

(* The state of an OAuth2 login opens one session at most: the callback may*)
(* come twice, but only while the reply to the first is under way does the *)
(* browser still have its state (OAuth2Callback).                          *)
StateOnce ==
  \A b \in Browsers : \A n \in state[b] \intersect used :
    \E r \in Requests : BrowserOf[r] = b /\ req[r].do = "callback"

(* A user's row is what the last change of it said: the settings page does *)
(* not undo the administrator's changes, nor these the user's new password,*)
(* unless UpdateUser had read the row before (UpdatePassword, UpdateUser). *)
ChangeStands == \A u \in Rows \ stale : rows[u] = acked[u]

\* The request r is let past the settings page, with the password of that row.
LetsPast(r, u) ==
  /\ Mail(r) \/ Console(r)
  /\ \E c \in Cookie : Sends(r, c) /\ c.user = u

(* A password that another has set lets nobody past the settings page until*)
(* the user has chosen one, be it the same again, in whatever order rows   *)
(* are read and saved; only that of CreateUser does (AuthMiddleware,       *)
(* ensureAdminUser, UpdateUser, UpdatePassword).                           *)
Stopped ==
  \A r \in Requests : \A u \in Rows :
    LetsPast(r, u) => <<u, rows[u].pw>> \notin temporary \ created
TemporaryIsChanged == [][Stopped]_vars

(* A deleted user stays deleted, and nobody comes to have his identifier   *)
(* and his sessions: only an UpdateUser that had read the row brings it    *)
(* back (DeleteUser, Update).                                              *)
GoneStaysGone == gone \intersect Rows \subseteq revived

(* There always is an active administrator, unless one has removed himself,*)
(* or one who no longer is an active administrator has removed another     *)
(* with a request or session he had from before (DeleteUser, UpdateUser).  *)
AdminRemains == resigned \/ \E u \in Rows : Rules(u)

(* The users stand as they were last changed: no change is undone by one   *)
(* who goes by an older copy of the row, no user comes back, and somebody  *)
(* can always administer them, with the exceptions named above             *)
(* (UpdatePassword, UpdateUser, CreateUser, DeleteUser).                   *)
UsersStand == ChangeStands /\ GoneStaysGone /\ AdminRemains
=============================================================================
