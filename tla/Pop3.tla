-------------------------------- MODULE Pop3 --------------------------------
(***************************************************************************)
(* The POP3 sessions (pop3_server/server.go) on the connections of module  *)
(* ConnHub. PASS takes a snapshot of the inbox, which numbers the messages *)
(* for the rest of the login; DELE marks a number, and QUIT deletes the    *)
(* marked messages, whatever other sessions have done with them since.     *)
(* A connection that ends in any other way deletes nothing.                *)
(***************************************************************************)
EXTENDS ConnHub, Sequences

CONSTANTS
  Known,      \* users that exist
  Ids,        \* identifiers of messages, numbers
  Owner       \* the user each belongs to

ASSUME Pop3Assumption ==
  /\ Ids \subseteq Nat /\ IsFiniteSet(Ids)
  /\ Owner \in [Ids -> Known] /\ Known \intersect {"nobody", "unknown"} = {}

Pop3Conns == {c \in Conns : Protocol[c] = "pop3"}

VARIABLES
  folder,     \* where each message is: nowhere yet, in the inbox, in another folder, gone
  authUser,   \* on each connection: nobody, a name that is no address of a user, or a user
  messages,   \* the snapshot, and
  deleted,    \* the marked numbers; nil is no map at all
  tlsActive

\* History.
VARIABLES
  login,      \* the user whose password was right, since the last USER or PASS
  marked,     \* messages whose deletion the client was granted and has not taken back
  quit,       \* connections that have sent QUIT
  removed,    \* messages the connection has deleted
  kept        \* those it could not delete

pop3Vars == <<folder, authUser, messages, deleted, tlsActive, login, marked, quit, removed,
              kept>>
vars == <<connVars, pop3Vars>>

nil == [map |-> FALSE, set |-> {}]
Marks(S) == [map |-> TRUE, set |-> S]

-----------------------------------------------------------------------------
Init ==
  /\ ConnInit
  /\ folder \in [Ids -> {"new", "inbox"}]
  /\ authUser = [c \in Pop3Conns |-> "nobody"]
  /\ messages = [c \in Pop3Conns |-> <<>>]
  /\ deleted = [c \in Pop3Conns |-> nil]
  /\ tlsActive = {}
  /\ login = [c \in Pop3Conns |-> "nobody"]
  /\ marked = [c \in Pop3Conns |-> {}]
  /\ quit = {}
  /\ removed = [c \in Pop3Conns |-> {}]
  /\ kept = [c \in Pop3Conns |-> {}]

\* ORDER BY id: the rows of a set, by identifier.
Ascending(s) == \A i, j \in DOMAIN s : i < j => s[i] < s[j]
Ordered(S) == CHOOSE s \in [1..Cardinality(S) -> S] : Ascending(s)

\* ListAllByUserAndFolder.
Inbox(u) == Ordered({i \in Ids : Owner[i] = u /\ folder[i] = "inbox"})

\* A command is read: lines wait in the buffer even when the socket is closed.
Reads(c) == stage[c] = "open"
Authenticated(c) == authUser[c] \in Known
Snapshot(c, msgs, marks) ==
  /\ messages' = [messages EXCEPT ![c] = msgs]
  /\ deleted' = [deleted EXCEPT ![c] = marks]
  /\ marked' = [marked EXCEPT ![c] = {}]

\* Mutant: an empty argument keeps the messages.
USER_Keeps(c) ==
  /\ Reads(c)
  /\ \/ /\ deleted' = [deleted EXCEPT ![c] = nil]
        /\ marked' = [marked EXCEPT ![c] = {}]
        /\ UNCHANGED <<authUser, messages, login>>
     \/ \E u \in Known \union {"unknown"} :
          /\ authUser' = [authUser EXCEPT ![c] = u]
          /\ login' = [login EXCEPT ![c] = "nobody"]
          /\ Snapshot(c, <<>>, nil)
  /\ UNCHANGED <<connVars, folder, tlsActive, quit, removed, kept>>

\* Mutant: another name keeps the messages, and the map.
USER_KeepsSnapshot(c) ==
  /\ Reads(c)
  /\ \E u \in Known \union {"unknown"} :
       /\ authUser' = [authUser EXCEPT ![c] = u]
       /\ login' = [login EXCEPT ![c] = "nobody"]
  /\ UNCHANGED <<connVars, folder, messages, deleted, marked, tlsActive, quit, removed, kept>>

\* handleUSER.  Without an argument the user stays, but the messages are gone.
USER(c) ==
  /\ Reads(c)
  /\ \/ UNCHANGED <<authUser, login>>
     \/ \E u \in Known \union {"unknown"} :
          /\ authUser' = [authUser EXCEPT ![c] = u]
          /\ login' = [login EXCEPT ![c] = "nobody"]
  /\ Snapshot(c, <<>>, nil)
  /\ UNCHANGED <<connVars, folder, tlsActive, quit, removed, kept>>

\* The users a name may log in as: AuthenticateLogin takes one without a domain too.
LoginAs(name) == {u \in Known : name \in {u, "unknown"}}

\* handlePASS.  The inbox may fail to load, and then looks empty; a ban is not looked at,
\* but a login lifts it.
PASS(c) ==
  /\ Reads(c)
  /\ \/ /\ \E u \in LoginAs(authUser[c]) :
             /\ authUser' = [authUser EXCEPT ![c] = u]
             /\ login' = [login EXCEPT ![c] = u]
             /\ \E msgs \in {Inbox(u)} \union (IF MayFail THEN {<<>>} ELSE {}) :
                  Snapshot(c, msgs, Marks({}))
        /\ ResetFail
     \/ /\ authUser' = [authUser EXCEPT ![c] = "nobody"]
        /\ login' = [login EXCEPT ![c] = "nobody"]
        /\ Snapshot(c, <<>>, nil)
        /\ IF authUser[c] = "nobody" THEN UNCHANGED <<banned, cut>> ELSE AuthFails
  /\ UNCHANGED <<sock, stage, hubVars, adminVars, missed, folder, tlsActive, quit, removed, kept>>

\* handleDELE of a number that is not out of range and not marked.
DELE(c) ==
  /\ Reads(c) /\ Authenticated(c)
  /\ \E i \in (1..Len(messages[c])) \ deleted[c].set :
       /\ deleted' = [deleted EXCEPT ![c].set = @ \union {i}]
       /\ marked' = [marked EXCEPT ![c] = @ \union {messages[c][i]}]
  /\ UNCHANGED <<connVars, folder, authUser, messages, tlsActive, login, quit, removed, kept>>

RSET(c) ==
  /\ Reads(c) /\ Authenticated(c)
  /\ Snapshot(c, messages[c], Marks({}))
  /\ UNCHANGED <<connVars, folder, authUser, tlsActive, login, quit, removed, kept>>

\* STLS; a handshake that fails ends the handler.
STLS(c) ==
  /\ Reads(c) /\ ~Authenticated(c) /\ c \notin tlsActive
  /\ \/ c \in sock /\ tlsActive' = tlsActive \union {c} /\ UNCHANGED connVars
     \/ Leave(c) /\ UNCHANGED tlsActive
  /\ UNCHANGED <<folder, authUser, messages, deleted, login, marked, quit, removed, kept>>

\* QUIT, and expungeDeleted of an authenticated user that has a map.
QUIT(c) ==
  /\ Reads(c)
  /\ To(c, "quitting") /\ quit' = quit \union {c}
  /\ UNCHANGED <<banned, sock, hubVars, adminVars, history>>
  /\ UNCHANGED <<folder, authUser, messages, deleted, tlsActive, login, marked, removed, kept>>

Expunges(c) == Authenticated(c) /\ deleted[c].map
Doomed(c) == IF Expunges(c) THEN {messages[c][i] : i \in deleted[c].set} ELSE {}

\* Mails.Delete by identifier: it does not matter where the message is.
Expunge(c) ==
  /\ stage[c] = "quitting"
  /\ \E m \in Ids \intersect (Doomed(c) \ (removed[c] \union kept[c])) :
       \/ /\ folder' = [folder EXCEPT ![m] = "gone"]
          /\ removed' = [removed EXCEPT ![c] = @ \union {m}]
          /\ UNCHANGED kept
       \/ /\ MayFail
          /\ kept' = [kept EXCEPT ![c] = @ \union {m}]
          /\ UNCHANGED <<folder, removed>>
  /\ UNCHANGED <<connVars, authUser, messages, deleted, tlsActive, login, marked, quit>>

\* Mutant: the handler ends without a look at the marks.
Bye_Early(c) ==
  /\ stage[c] = "quitting"
  /\ Leave(c)
  /\ UNCHANGED pop3Vars

Bye(c) ==
  /\ stage[c] = "quitting" /\ Doomed(c) \subseteq removed[c] \union kept[c]
  /\ Leave(c)
  /\ UNCHANGED pop3Vars

\* The loop finds the connection closed, or its deadline over.
Lost(c) ==
  /\ stage[c] = "open" /\ c \notin sock
  /\ Leave(c)
  /\ UNCHANGED pop3Vars

\* Ten minutes after it was accepted, whatever the client does.
Deadline(c) ==
  /\ c \in sock
  /\ sock' = sock \ {c}
  /\ UNCHANGED <<banned, stage, hubVars, adminVars, history, pop3Vars>>

-----------------------------------------------------------------------------
\* Other sessions: a message arrives, is moved to another folder or back, or removed.
Others ==
  /\ \E m \in Ids :
       \/ /\ folder[m] = "new" /\ \A k \in Ids : k < m => folder[k] # "new"
          /\ folder' = [folder EXCEPT ![m] = "inbox"]
       \/ /\ folder[m] = "inbox" /\ folder' = [folder EXCEPT ![m] = "other"]
       \/ /\ folder[m] = "other" /\ folder' = [folder EXCEPT ![m] = "inbox"]
       \/ /\ folder[m] \in {"inbox", "other"}
          /\ folder' = [folder EXCEPT ![m] = "gone"]
  /\ UNCHANGED <<connVars, authUser, messages, deleted, tlsActive, login, marked, quit, removed,
                 kept>>

Session(c) ==
  \/ USER(c) \/ PASS(c) \/ DELE(c) \/ RSET(c) \/ STLS(c) \/ QUIT(c)
  \/ Expunge(c) \/ Bye(c) \/ Lost(c) \/ Deadline(c)

Next ==
  \/ ConnNext /\ UNCHANGED pop3Vars
  \/ \E c \in Pop3Conns : Session(c)
  \/ Others

\* The goroutine of a connection runs on, and the deadline of its socket comes.
Fairness ==
  \A c \in Pop3Conns :
    /\ WF_vars((Register(c) \/ SetDisconnect(c)) /\ UNCHANGED pop3Vars)
    /\ WF_vars(Expunge(c)) /\ WF_vars(Bye(c)) /\ WF_vars(Lost(c)) /\ WF_vars(Deadline(c))

Spec == Init /\ [][Next]_vars /\ Fairness
=============================================================================
