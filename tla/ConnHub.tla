------------------------------ MODULE ConnHub -------------------------------
(***************************************************************************)
(* The connections of one client address: how the servers of SMTP, IMAP    *)
(* and POP3 admit them (ban list) and enter them in the connection hub     *)
(* (connhub/hub.go), and how the administrator bans the address and cuts   *)
(* them all (web/handlers/admin.go). What a POP3 client does on its        *)
(* connection is module Pop3.                                              *)
(***************************************************************************)
EXTENDS Naturals, FiniteSets

CONSTANTS
  Conns,      \* the connections the address ever opens
  Protocol,   \* of each: "smtp", "imap" or "pop3"
  MayFail,    \* may a statement fail?
  MaxBans     \* bound: times the administrator's request is made

ASSUME HubAssumption ==
  /\ Protocol \in [Conns -> {"smtp", "imap", "pop3"}]
  /\ MayFail \in BOOLEAN /\ MaxBans \in Nat

VARIABLES
  banned,     \* is the address on the ban list, and not expired?
  sock,       \* connections whose socket is open
  stage,      \* how far the server is with a connection
  hub,        \* Hub.conns
  callback,   \* those of them with a disconnect callback
  admin,      \* where DisconnectConnection is, up to the ban
  targets,    \* connections it has yet to disconnect
  bans        \* times it was begun

\* History.
VARIABLES
  cut,        \* the address has been banned and disconnected, and is still banned
  missed      \* connections without a callback at that time, and banned ones let in

hubVars == <<hub, callback>>
adminVars == <<admin, targets, bans>>
history == <<cut, missed>>
connVars == <<banned, sock, stage, hubVars, adminVars, history>>

-----------------------------------------------------------------------------
ConnInit ==
  /\ banned \in BOOLEAN
  /\ sock = {} /\ stage = [c \in Conns |-> "none"]
  /\ hub = {} /\ callback = {}
  /\ admin = "idle" /\ targets = {} /\ bans = 0
  /\ cut = FALSE /\ missed = {}

To(c, s) == stage' = [stage EXCEPT ![c] = s]

\* Mutant: whoever asks is let in.
LetIn_All(c) == UNCHANGED missed

\* IsBanned says no: there is no ban, or the query has failed.
LetIn(c) ==
  \/ ~banned /\ UNCHANGED missed
  \/ banned /\ MayFail /\ missed' = missed \union {c}

\* POP3 looks at the ban list as soon as the client connects, IMAP when it logs in,
\* SMTP when it authenticates, and never if it does not.
Connect(c) ==
  /\ stage[c] = "none"
  /\ sock' = sock \union {c}
  /\ \/ Protocol[c] = "pop3" /\ LetIn(c) /\ To(c, "admitted")
     \/ Protocol[c] = "imap" /\ To(c, "greeted") /\ UNCHANGED missed
     \/ Protocol[c] = "smtp" /\ To(c, "admitted") /\ missed' = missed \union {c}
  /\ UNCHANGED <<banned, hubVars, adminVars, cut>>

Refuse(c) ==
  /\ stage[c] = "none"
  /\ Protocol[c] = "pop3" /\ banned
  /\ To(c, "ended")
  /\ UNCHANGED <<banned, sock, hubVars, adminVars, history>>

\* RecordAuthFailure: the failure may be the one that brings a ban.
AuthFails == banned' \in {banned, TRUE} /\ UNCHANGED cut

\* ResetFail after a login: the row goes, and a ban in force with it.
ResetFail ==
  \/ banned' = FALSE /\ cut' = FALSE
  \/ MayFail /\ UNCHANGED <<banned, cut>>

\* IMAP LOGIN looks at the ban list, of a line the library may have read long before.
LooksUp(c) ==
  /\ stage[c] = "greeted" /\ LetIn(c)
  /\ To(c, "checked")
  /\ UNCHANGED <<banned, sock, hubVars, adminVars, cut>>

\* The rest of it. Who has a wrong password may try again.
Login(c) ==
  /\ stage[c] = "checked"
  /\ \/ ResetFail /\ To(c, "admitted") /\ UNCHANGED missed
     \/ AuthFails /\ To(c, "greeted") /\ missed' = missed \ {c}
  /\ UNCHANGED <<sock, hubVars, adminVars>>

Register(c) ==
  /\ stage[c] = "admitted"
  /\ hub' = hub \union {c}
  /\ To(c, "registered")
  /\ UNCHANGED <<banned, sock, callback, adminVars, history>>

SetDisconnect(c) ==
  /\ stage[c] = "registered"
  /\ callback' = callback \union {c}
  /\ To(c, "open")
  /\ UNCHANGED <<banned, sock, hub, adminVars, history>>

\* The client, or the network, closes the connection.
Hangup(c) ==
  /\ c \in sock
  /\ sock' = sock \ {c}
  /\ UNCHANGED <<banned, stage, hubVars, adminVars, history>>

\* Mutant: the connection stays in the hub.
Leave_Stays(c) ==
  /\ To(c, "ended")
  /\ sock' = sock \ {c}
  /\ UNCHANGED <<banned, hubVars, adminVars, history>>

\* The handler is done: Close of the hub's record, and of the socket.
Leave(c) ==
  /\ To(c, "ended")
  /\ sock' = sock \ {c}
  /\ hub' = hub \ {c}
  /\ callback' = callback \ {c}
  /\ UNCHANGED <<banned, adminVars, history>>

\* Logout, Session.Close: the loop of the library finds the socket closed.
End(c) ==
  /\ Protocol[c] # "pop3"
  /\ stage[c] \in {"greeted", "open"} /\ c \notin sock
  /\ Leave(c)

-----------------------------------------------------------------------------
(* DisconnectConnection.                                                   *)
Find ==
  /\ admin = "idle" /\ targets = {} /\ bans < MaxBans
  /\ hub # {}
  /\ admin' = "found" /\ bans' = bans + 1
  /\ UNCHANGED <<banned, sock, stage, hubVars, targets, history>>

\* BanIP; on an error nothing is disconnected.
BanIP ==
  /\ admin = "found"
  /\ \/ banned' = TRUE /\ admin' = "banned"
     \/ admin' = "idle" /\ UNCHANGED banned
  /\ UNCHANGED <<sock, stage, hubVars, targets, bans, history>>

\* DisconnectByIP: the callbacks under the lock of the hub, then each of them.
Collect ==
  /\ admin = "banned"
  /\ admin' = "idle" /\ targets' = callback
  /\ cut' = banned
  /\ missed' = {c \in Conns \ callback : stage[c] \in {"checked", "admitted", "registered"}}
  /\ UNCHANGED <<banned, sock, stage, hubVars, bans>>

Call(c) ==
  /\ c \in targets
  /\ targets' = targets \ {c}
  /\ sock' = sock \ {c}
  /\ UNCHANGED <<banned, stage, hubVars, admin, bans, history>>

\* The ban expires, or is removed: UnbanIP, a login by SMTP or on the web, and whatever
\* else module BanGuard names.
Unban ==
  /\ banned
  /\ banned' = FALSE /\ cut' = FALSE
  /\ UNCHANGED <<sock, stage, hubVars, adminVars, missed>>

-----------------------------------------------------------------------------
Admit(c) ==
  Connect(c) \/ Refuse(c) \/ LooksUp(c) \/ Login(c) \/ Register(c) \/ SetDisconnect(c)
Admin == Find \/ BanIP \/ Collect \/ (\E c \in targets : Call(c))

ConnNext ==
  \/ \E c \in Conns : Admit(c) \/ Hangup(c) \/ End(c)
  \/ Admin \/ Unban
=============================================================================
