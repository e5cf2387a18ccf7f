----------------------------- MODULE WebSession -----------------------------
(***************************************************************************)
(* The web interface's sessions and the users they belong to: the login    *)
(* handlers (web/handlers/auth.go), AuthMiddleware and AdminMiddleware,    *)
(* the password form of the settings page and the user pages of the admin  *)
(* console (web/handlers/admin.go), over the rows of the users table.      *)
(*                                                                         *)
(* The session is a signed cookie, so what it says is what the browser     *)
(* sends: the server keeps nothing that a logout could revoke.  The        *)
(* requests of a browser overlap, and each carries the cookie its browser  *)
(* had when it was sent; a reply may set a new one.  A request reads the   *)
(* user's row once, in the middleware, and the handler goes by that copy.  *)
(*                                                                         *)
(* A password is a number, and a new one differs from all the earlier.     *)
(***************************************************************************)
EXTENDS Naturals, FiniteSets

CONSTANTS
  Users,          \* identifiers of users; the database never gives one out twice
  Admin,          \* the administrator that the first start creates
  Browsers,
  Requests,       \* requests under way at once
  BrowserOf,      \* [Requests -> Browsers]
  Sliding,        \* sessionSlidingRefresh
  CookieAge,      \* MaxAge of the cookie
  AbsoluteAge,    \* sessionAbsoluteMaxAge
  MaxPasswords,   \* bound: passwords 1..MaxPasswords are ever chosen
  MaxFlows        \* bound: OAuth2 logins 1..MaxFlows are ever begun

ASSUME SessionAssumption ==
  /\ Admin \in Users
  /\ BrowserOf \in [Requests -> Browsers]
  /\ {Sliding, CookieAge, AbsoluteAge, MaxPasswords, MaxFlows} \subseteq Nat
  /\ MaxPasswords > 0 /\ Sliding < CookieAge

VARIABLES
  rows,       \* the users table
  born,       \* users that have been created
  passwords,  \* the last password chosen
  jar,        \* the session cookie of each browser, {} or one
  state,      \* its OAuth2 state cookie, {} or one
  flows,      \* the last OAuth2 login begun
  pc,         \* where each request is
  req         \* what its handler holds

\* History.
VARIABLES
  acked,      \* what each user's row was last meant to be
  stale,      \* users whose row was last saved from an older copy
  temporary,  \* <<user, password>> set by another, and not chosen by the user since
  created,    \* those that CreateUser has set
  gone,       \* users that were deleted
  revived,    \* those an UpdateUser under way has brought back
  resigned,   \* the administrators have removed one another, or themselves
  out,        \* browsers that are logged out
  late,       \* their requests that were under way at that time
  used        \* OAuth2 logins that a callback has answered

data == <<rows, born, passwords>>
rowHistory == <<acked, stale, temporary, created, gone, revived, resigned>>
cookies == <<jar, state, flows>>
cookieHistory == <<out, late, used>>
vars == <<data, cookies, pc, req, rowHistory, cookieHistory>>

Row == [active : BOOLEAN, admin : BOOLEAN, must : BOOLEAN, pw : 1..MaxPasswords]
Cookie == [user : Users, age : 0..CookieAge]

Rows == DOMAIN rows
Rules(u) == u \in Rows /\ rows[u].admin /\ rows[u].active

\* What a reply does to the cookie: nothing, drop it, or set it.
Keep == [sets |-> FALSE, to |-> {}]
Clear == [sets |-> TRUE, to |-> {}]
Begin(n) == [sets |-> TRUE, to |-> {n}]
Fresh(u) == [sets |-> TRUE, to |-> {[user |-> u, age |-> 0]}]

NoReq == [do |-> "none", user |-> Admin, copy |-> {}, set |-> Keep, state |-> Keep]

-----------------------------------------------------------------------------
\* ensureAdminUser, on the first start.
Init ==
  /\ rows = [u \in {Admin} |-> [active |-> TRUE, admin |-> TRUE, must |-> TRUE, pw |-> 1]]
  /\ born = Rows /\ passwords = 1
  /\ jar = [b \in Browsers |-> {}] /\ state = jar /\ flows = 0
  /\ pc = [r \in Requests |-> "idle"] /\ req = [r \in Requests |-> NoReq]
  /\ acked = rows /\ stale = {} /\ temporary = {<<Admin, 1>>} /\ created = {}
  /\ gone = {} /\ revived = {} /\ resigned = FALSE
  /\ out = {} /\ late = {} /\ used = {}

Becomes(r, l, q) ==
  /\ pc' = [pc EXCEPT ![r] = l]
  /\ req' = [req EXCEPT ![r] = q]

Replies(r, do, set) == Becomes(r, "reply", [NoReq EXCEPT !.do = do, !.set = set])

\* The request goes out with the cookie c.
Sends(r, c) == pc[r] = "idle" /\ jar[BrowserOf[r]] = {c}

-----------------------------------------------------------------------------
(* The middleware.                                                         *)

Valid(c) == c.age <= AbsoluteAge /\ c.user \in Rows

Refreshed(c) == IF c.age > Sliding THEN Fresh(c.user) ELSE Keep

\* The session has expired, the user is gone, or his row cannot be read.
Reject(r) ==
  /\ \E c \in Cookie : Sends(r, c)
  /\ Replies(r, "page", Clear)
  /\ UNCHANGED <<data, cookies, rowHistory, cookieHistory>>

\* Any page that is none of the following, and any that the user may not see.
Browse(r) ==
  /\ \E c \in Cookie :
       /\ Sends(r, c) /\ Valid(c) /\ c.age > Sliding
       /\ Replies(r, "page", Refreshed(c))
  /\ UNCHANGED <<data, cookies, rowHistory, cookieHistory>>

\* Mutant: nobody has to change a password.
Passes_All(u) == TRUE

\* Who must change the password gets the settings page and the logout, nothing else.
Passes(u) == ~ rows[u].must

\* The folders and messages.
Mail(r) ==
  /\ \E c \in Cookie :
       /\ Sends(r, c) /\ Valid(c) /\ Passes(c.user)
       /\ Replies(r, "mail", Refreshed(c))
  /\ UNCHANGED <<data, cookies, rowHistory, cookieHistory>>

\* Mutant: the cleared session is not saved.
Logout_Unsaved(r) ==
  /\ \E c \in Cookie :
       /\ Sends(r, c) /\ Valid(c)
       /\ Replies(r, "logout", Refreshed(c))
  /\ UNCHANGED <<data, cookies, rowHistory, cookieHistory>>

Logout(r) ==
  /\ \E c \in Cookie :
       /\ Sends(r, c) /\ Valid(c)
       /\ Replies(r, "logout", Clear)
  /\ UNCHANGED <<data, cookies, rowHistory, cookieHistory>>

\* What the middleware hands to the handler.
Working(do, user, copy, set) ==
  [do |-> do, user |-> user, copy |-> copy, set |-> set, state |-> Keep]

\* The settings page, open to those who must change their password. The old
\* password is compared with the copy of the row.
Settings(r) ==
  /\ \E c \in Cookie :
       /\ Sends(r, c) /\ Valid(c)
       /\ Becomes(r, "settings", Working("settings", c.user, {rows[c.user]}, Refreshed(c)))
  /\ UNCHANGED <<data, cookies, rowHistory, cookieHistory>>

\* AdminMiddleware: by the row, not by what the session says.
Console(r) ==
  /\ \E c \in Cookie :
       /\ Sends(r, c) /\ Valid(c)
       /\ rows[c.user].admin /\ Passes(c.user)
       /\ Becomes(r, "console", Working("console", c.user, {}, Refreshed(c)))
  /\ UNCHANGED <<data, cookies, rowHistory, cookieHistory>>

-----------------------------------------------------------------------------
(* Logins.  The password is right, or the LDAP provider has said who the   *)
(* user is; failures are counted by BanGuard.                              *)
Login(r) ==
  /\ pc[r] = "idle"
  /\ \E u \in Rows :
       /\ rows[u].active
       /\ Replies(r, "login", Fresh(u))
  /\ UNCHANGED <<data, cookies, rowHistory, cookieHistory>>

OAuth2Start(r) ==
  /\ pc[r] = "idle" /\ flows < MaxFlows
  /\ flows' = flows + 1
  /\ Becomes(r, "reply", [NoReq EXCEPT !.do = "start", !.state = Begin(flows')])
  /\ UNCHANGED <<data, jar, state, rowHistory, cookieHistory>>

\* Mutant: the state is cleared only by a callback that fails.
CallbackState_Kept(ok) == IF ok THEN Keep ELSE Clear

\* One use, whether it succeeds or not.
CallbackState(ok) == Clear

\* The provider sends the browser back, perhaps more than once: the state must be
\* that of the cookie.
OAuth2Callback(r) ==
  /\ pc[r] = "idle"
  /\ state[BrowserOf[r]] # {}
  /\ \/ \E u \in Rows :
          /\ rows[u].active
          /\ Becomes(r, "reply", [NoReq EXCEPT !.do = "callback", !.set = Fresh(u),
                                    !.state = CallbackState(TRUE)])
     \/ Becomes(r, "reply", [NoReq EXCEPT !.do = "callback",
                               !.state = CallbackState(FALSE)])
  /\ used' = used \union state[BrowserOf[r]]
  /\ UNCHANGED <<data, cookies, rowHistory, out, late>>

-----------------------------------------------------------------------------
NewPassword == passwords < MaxPasswords /\ passwords' = passwords + 1

With(u, row) == [v \in Rows \union {u} |-> IF v = u THEN row ELSE rows[v]]
Acked(u, row) == [v \in DOMAIN acked \union {u} |-> IF v = u THEN row ELSE acked[v]]

Done(r) == Replies(r, "page", req[r].set)

\* Mutant: the copy of the row is saved whole.
Stored_Copy(u, copy, new) == [copy EXCEPT !.pw = new, !.must = FALSE]

Stored(u, copy, new) == [rows[u] EXCEPT !.pw = new, !.must = FALSE]

\* UpdatePassword sets two columns of the row, if it still exists.  The new password
\* may be the old one.
SetPassword(r) ==
  /\ pc[r] = "settings"
  /\ LET u == req[r].user
     IN \E c \in req[r].copy : \E new \in {c.pw, passwords + 1} :
          /\ IF new = c.pw THEN UNCHANGED passwords ELSE NewPassword
          /\ IF u \in Rows
               THEN /\ rows' = With(u, Stored(u, c, new))
                    /\ acked' = Acked(u, [acked[u] EXCEPT !.pw = new, !.must = FALSE])
                    /\ temporary' = temporary \ {<<u, new>>}
               ELSE UNCHANGED <<rows, acked, temporary>>
  /\ Done(r)
  /\ UNCHANGED <<born, cookies, stale, created, gone, revived, resigned, cookieHistory>>

-----------------------------------------------------------------------------
(* The user pages.                                                         *)

\* The administrator chooses the password, and the user need not change it.
CreateUser(r) ==
  /\ pc[r] = "console"
  /\ NewPassword
  /\ \E u \in Users \ born, admin \in BOOLEAN :
       LET row == [active |-> TRUE, admin |-> admin, must |-> FALSE, pw |-> passwords']
       IN /\ rows' = With(u, row)
          /\ born' = born \union {u}
          /\ acked' = Acked(u, row)
          /\ temporary' = temporary \union {<<u, row.pw>>}
          /\ created' = created \union {<<u, row.pw>>}
  /\ Done(r)
  /\ UNCHANGED <<cookies, stale, gone, revived, resigned, cookieHistory>>

\* One who is not, or no longer, an active administrator removes another; or himself.
Removes(r, u) == resigned' = (resigned \/ u = req[r].user \/ ~ Rules(req[r].user))

DeleteUser(r) ==
  /\ pc[r] = "console"
  /\ \E u \in Rows \ {req[r].user} :
       /\ rows' = [v \in Rows \ {u} |-> rows[v]]
       /\ gone' = gone \union {u} /\ revived' = revived \ {u}
       /\ Removes(r, u)
  /\ Done(r)
  /\ UNCHANGED <<born, passwords, cookies, acked, stale, temporary, created, cookieHistory>>

\* A password that the user has to change.
Reset(form) == [form EXCEPT !.pw = passwords', !.must = TRUE]

\* UpdateUser reads the row and fills in the form, perhaps with a new password.
UpdateUserRead(r) ==
  /\ pc[r] = "console"
  /\ \E u \in Rows, active \in BOOLEAN, admin \in BOOLEAN :
       LET form == [rows[u] EXCEPT !.active = active, !.admin = admin]
           under(do, f) == Working(do, req[r].user, {<<u, f>>}, req[r].set)
       IN \/ Becomes(r, "save", under("save", form)) /\ UNCHANGED passwords
          \/ NewPassword /\ Becomes(r, "save", under("reset", Reset(form)))
  /\ UNCHANGED <<rows, born, cookies, rowHistory, cookieHistory>>

\* Save writes the whole row, or inserts it again; then FALSE is no value, and the
\* column's default counts.
Saved(u, form) == IF u \in Rows THEN form ELSE [form EXCEPT !.active = TRUE]

UpdateUserSave(r) ==
  /\ pc[r] = "save"
  /\ \E f \in req[r].copy :
       LET u == f[1]
           form == f[2]
           new == Saved(u, form)
           meant == IF u \in Rows /\ req[r].do = "save"
                      THEN [rows[u] EXCEPT !.active = form.active, !.admin = form.admin]
                      ELSE form
       IN /\ rows' = With(u, new)
          /\ acked' = Acked(u, meant)
          /\ stale' = IF new = meant THEN stale \ {u} ELSE stale \union {u}
          /\ temporary' = IF req[r].do = "reset" THEN temporary \union {<<u, form.pw>>}
                          ELSE temporary
          /\ revived' = IF u \in Rows THEN revived ELSE revived \union {u}
          /\ IF new.admin /\ new.active THEN UNCHANGED resigned ELSE Removes(r, u)
  /\ Done(r)
  /\ UNCHANGED <<born, passwords, cookies, created, gone, cookieHistory>>

\* A form that is refused, a user that does not exist, a statement that fails, the
\* language: they leave this data as it is.
Refused(r) ==
  /\ pc[r] \in {"settings", "console", "save"}
  /\ Done(r)
  /\ UNCHANGED <<data, cookies, rowHistory, cookieHistory>>

-----------------------------------------------------------------------------
Applied(cookie, set) == IF set.sets THEN set.to ELSE cookie

\* The reply reaches the browser.
Reply(r) ==
  LET b == BrowserOf[r]
  IN /\ pc[r] = "reply"
     /\ jar' = [jar EXCEPT ![b] = Applied(@, req[r].set)]
     /\ state' = [state EXCEPT ![b] = Applied(@, req[r].state)]
     /\ IF req[r].do = "logout"
          THEN /\ out' = out \union {b}
               /\ late' = (late \ {r}) \union
                          {q \in Requests \ {r} : BrowserOf[q] = b /\ pc[q] # "idle"}
          ELSE /\ out' = out \ (IF r \in late \/ req[r].do \in {"login", "callback"}
                                   THEN {k \in {b} : req[r].set.sets} ELSE {})
               /\ late' = late \ {r}
     /\ Becomes(r, "idle", NoReq)
     /\ UNCHANGED <<data, flows, rowHistory, used>>

\* Mutant: the browser keeps the cookie.
Lasting_Forever(c) == TRUE

\* MaxAge of the cookie: the browser drops it, and that of the state long before.
Lasting(c) == c.age < CookieAge

\* Time passes; a request does not take that long.
Tick ==
  /\ \A r \in Requests : pc[r] = "idle"
  /\ jar' = [b \in Browsers |->
               {[c EXCEPT !.age = @ + 1] : c \in {k \in jar[b] : Lasting(k)}}]
  /\ state' = [b \in Browsers |-> {}]
  /\ UNCHANGED <<data, flows, pc, req, rowHistory, cookieHistory>>

Request(r) ==
  \/ Login(r) \/ OAuth2Start(r) \/ OAuth2Callback(r)
  \/ Reject(r) \/ Browse(r) \/ Mail(r) \/ Logout(r) \/ Settings(r) \/ Console(r)
  \/ SetPassword(r) \/ Refused(r)
  \/ CreateUser(r) \/ DeleteUser(r) \/ UpdateUserRead(r) \/ UpdateUserSave(r)
  \/ Reply(r)

Next == (\E r \in Requests : Request(r)) \/ Tick

Spec == Init /\ [][Next]_vars
=============================================================================
