# A TLA+ development of mail_go

mail_go is a self-hosted mail server in Go: SMTP (receiving and submission), IMAP4 with push,
POP3, a web mail client and an administration console, over one SQL database (SQLite or MySQL
through gorm) and one process. This directory holds specifications of its parts that keep state
and run concurrently, TLC configurations that check them on small instances, and proofs that
TLAPS checks for every value of the constants.

Contents: 1 inventory; 2 modules and how they correspond to the code; 3 runs and bounds;
4 fairness; 5 what is proved; 6 what is only model-checked; 7 divergences; 8 what is not
modelled; 9 what could come next.

## 1. Inventory

| component | code (under src/internal) | state | operations | hard behaviours |
|---|---|---|---|---|
| Outbound queue | outbound/manager.go, mailer.go, store/outbound_store.go | table outbound_messages; channels `jobs`, `kick`, `stop`; semaphores `dom` | Enqueue, scan and claim, deliver, back off, bounce, Retry, Cancel, Stop | workers and administrators save whole rows they read earlier; crash between claim and save; lost replies; blocking hand-over; shutdown |
| Login failures and IP bans | store/auth_guard.go, ban_store.go, web/handlers/auth.go, web/middleware/ban.go | table ban_entries, one row per IP | IsBanned, IncrementFail, RecordAuthFailure, ResetFail, BanIP, UnbanIP | read-modify-save by concurrent logins of one IP; rows that vanish in between; failing statements are ignored |
| SMTP session, submission and rate limit | smtp_server/server.go, outbound/manager.go | per session: sender, recipients, user; windows per user under a mutex | AUTH, MAIL, RCPT, RSET, DATA, QUIT; checkRateLimit, Enqueue | local delivery and queueing in one DATA, partial failure, the client's retry; window boundaries, counting what is then refused |
| IMAP session and push | imap_server/session.go, server.go | per session: selected mailbox, update queue, notify channel; per folder: hub of sessions | SELECT/UNSELECT, FETCH, STORE, COPY, MOVE, EXPUNGE, APPEND, NOOP, IDLE; PushNewMessage, PushFlagsChanged, PushExpunged | numbers computed at one time and announced at another; queue against IDLE; joining and leaving the hub |
| Mailboxes and UID state | imap_server/service.go, store/mailbox_store.go, mailbox_state_store.go | tables mailboxes, mailbox_states | create, rename, delete, subscribe, EnsureSystem, UIDVALIDITY | creation races; deletion and renaming against delivery; first accesses at once |
| POP3 session | pop3_server/server.go | snapshot of the INBOX, deletion marks | USER, PASS, DELE, RSET, STLS, QUIT | stale snapshot, removal one by one, logging in twice |
| Connection hub | connhub/hub.go | live connections | Register, SetDisconnect, Close, DisconnectByIP | registering while being banned |
| Web mail and quota | web/handlers/mail.go, store/user_store.go | used_bytes per user, attachments | send, delete, restore, purge, empty | reserve first, give back on every failing exit; purging while storing |
| Web sessions and users | web/handlers/auth.go, admin.go, web/middleware | session and state cookies, table users | login, OAuth2, logout, change password, create, edit and delete users | overlapping requests with one cookie; whole rows saved from a copy |
| TLS loader | tlsutil/tlsutil.go, main.go | cached certificate, file times | start, GetCertificate, reload, upload | files replaced while they are read; a crash halfway |
| The rest | pages of the console, LDAP/OAuth2 providers, DKIM, attachment files, migration, protocol log, i18n | | | see section 8 |

The components meet in the database and in a few calls. SMTP and web submission call
`Manager.Enqueue`; the queue writes non-delivery notices into the INBOX. SMTP, POP3 and the web
interface change the messages table and call the `Pusher`, which is the IMAP server. All servers
and the web login call the ban guard before and after a password check; SMTP, IMAP and POP3 enter
their connections in the hub; the administrator bans and unbans, disconnects, retries and cancels,
edits users and replaces certificates.

What makes each component correct:

* the queue: a message is handed to one worker at a time; it is never forgotten; its status says
  what happened; a failure is reported to its sender; slots of the connection limit do not leak;
  Stop ends;
* the ban guard: a ban takes the failures and the threshold hits the documentation says; a ban in
  force stays; a client that keeps guessing gets to the longest ban;
* submission: a client knows of as many successes as there are copies, or knows that it does not;
  the limits hold; nobody sends as another;
* IMAP push: sequence numbers mean the same on both sides once the client has heard what is
  queued; no number changes while FETCH, STORE or SEARCH is answered; IDLE hears of every push;
* mailboxes: a UIDVALIDITY vouches for a client's cache; no message is left in a folder that does
  not exist; the system folders stay;
* POP3 and the hub: QUIT removes what was granted and nothing else; a banned address that was
  disconnected stays away unless a failing query or a login under way lets it back; connections
  drain;
* web mail: the used bytes are those of the stored attachments, and each of these has its message
  and its file;
* web sessions: a logout lasts; a change of a user stands; a temporary password is changed; there
  is an administrator;
* the TLS loader: what is served is a pair, and in the end the pair on disk.

PROJECT.json lists the hazards of the code line by line, with the properties that cover them.

## 2. Modules

| module | what it is |
|---|---|
| `Outbound` | the queue: dispatcher, channel, workers, mailer, administrators, crash |
| `Ledger` | what the queue promises about duplicates, abstractly |
| `BanGuard` | login failures and bans of one IP |
| `RateLimit` | the windows of one user |
| `Submission` | SMTP sessions of one user; EXTENDS `RateLimit` |
| `ImapPush` | sessions of one user on one folder |
| `Mailboxes` | the folders of one user |
| `ConnHub` | connections of one address, the ban list, the hub |
| `Pop3` | POP3 sessions; EXTENDS `ConnHub` |
| `WebMail` | the storage of one user |
| `WebSession` | cookies and users of the web interface |
| `TlsLoader` | the certificate of one port |
| `...Properties` | type invariant, safety and liveness properties of each; that of Outbound also has `LedgerOf`, the refinement of `Ledger` |
| `MC...` | its instance for TLC |
| `...Proofs` | proofs about Outbound (with the refinement of `Ledger`), ImapPush, Pop3 (with `ConnHub`), TlsLoader, Mailboxes, WebMail and Submission (with the refinement of `RateLimit`); `LoginProofs` has those about BanGuard and WebSession |

Definitions whose name has an underscore (`Claim_Unmarked`) are mutants: plausible bugs of the
definition they are named after. They are not part of any specification; each shows that some
property notices the bug.

In every module an action is a handler between two points where another goroutine can interfere:
a statement on the database, an access to a file, a send or receive on a channel, a reply. History
variables never appear in a guard; they name why a guarantee may lapse, so that a property can say
that there is no other reason.

### Outbound

A row of outbound_messages is reduced to `status`, `attempts` and `due` (is next_attempt_at
reached). `"absent"` is a row not inserted yet. The goroutine of `Manager.Start` is `dpc`: it sits
in `"select"` (actions `Tick`, `TakeKick`, `TakeStop`, the three branches) or runs `processDue`:
`ListDue` reads copies of due rows, `Claim` is the conditional UPDATE on the row as it is now
while the copy handed on is the older one, `Handoff` is the blocking send. Each worker is a
`wpc`: `TakeJob`, `AcquireSlot` (acquireDomain), `LookupMX`, one action per outcome of an SMTP
transaction, and one per way out of `deliverOne` (`SaveSent`, `SaveDeferred`, `SaveFailed`, then
`Bounce`; `SaveError`). `Retry` is one step, because it overwrites every column that matters;
`Cancel` is two, because it saves the copy it read. `Crash` loses everything in memory and starts
again: nothing in the code resets rows in `sending`.

History variables: `accepted` (what the remote side took), `lost` (replies that never arrived),
`inbox` (notices), `retries`, and the three sets that name the exceptions under which a guarantee
lapses: `overlapped` (retried in flight), `faulted` (copy dropped by a crash or a failing write),
`unbounced` (notice dropped).

`Ledger` says what remains true of duplicates whatever happens: remote copies of a message never
exceed its licences, one for queueing it, one per retry and one per acceptance the queue never
learnt of.

### BanGuard

One IP, whose row of ban_entries is a set of at most one record, so that "the row is gone" is an
ordinary state. Each login handler runs `Admit` (IsBanned), a verdict, and then either the
statements of `RecordAuthFailure` one by one (`CountUpdate`, `CountInsert`, `CountRead`,
`ReadEntry`, `SaveEntry`) or `ResetFail`. `SaveRow` is what gorm's Save does: UPDATE by key, and
INSERT ... ON CONFLICT if the row is gone, which differs between SQLite and MySQL (`MySQL`).
A `Sticky` client is a POP3 connection, which checks the ban once per connection.
Counters saturate at `FailCap` and `TierCap`.

History: `failures` and `hits` since the start, `guessed` (an unknown user name was tried),
`manual` (the administrator banned), `admitted` (clients that were let in before the ban now in
force, or by a failing query).

### RateLimit and Submission

`win` is the userWindow of the user in Manager.lim; checkRateLimit runs under a mutex, so `Counts`
and `Refuses` are one step each: both roll the windows, and a message counts before it is known
whether it can be queued. `Forgets` is a restart: the windows are in memory only. The histories
`counted`, `begun` and `restarts` are sequences of the ticks at which a message was counted, a
window of a day began and the program was restarted: `In` counts their entries in an interval.

A client of `Submission` has one message for `Rcpts[s]`, and sends it again until it has heard of
success. `Rcpt` sorts a recipient into `locals` or `externals` as smtpSession does. DATA goes
through `Deliver` for each local recipient (a failing one is passed over in silence, as in the
code), `Enqueue` for each outside one (the first error ends the command and keeps what is done) and
`Succeeds`, which puts a copy in Sent. Users come and go, other sessions of the user use up the
limits (`OtherSends`), the answer may get lost. `offered`, `due` and `risked` are the recipients of
the DATA under way, of those known to have succeeded, and of all the others; `skipped` and `missed`
those of the first two that were passed over, which the success does not tell the client.

### ImapPush

One user and one folder. A message is its primary key, which the code uses as UID; `Listing` is
ListAllByUserAndFolder: the folder in the order of the keys (`Ordered`, where the n-th message is
the one at `Place` n). What a client believes is `view`: the n-th element is the message it takes
for number n. It changes by what the client is told (`Told`): EXPUNGE n removes the n-th, EXISTS n
appends (or cuts off); `Hears` goes through several updates. Behind an EXISTS the client finds the
messages that were there when they were counted. `queue`, `token` are imapSession.queue and the
one-place channel notify; `hub` is mailboxHub.sessions.

A handler that changes the folder runs in the code's order: list and number the messages (`Lists`),
remove them (`DeleteMany`, or `MoveOne` for each and `MoveEnd`), announce (`Announce`: the own
client at once, the others through `todo`), and for each update a snapshot of the hub (`Snapshot`)
and one `Send` per session. A session whose own client cannot be written to returns before that
(`Breaks`); its connection is about to end. Additions insert one message or several (`Add`,
`Restore`), or none (`CopyNone`), count once (`Count`) and push EXISTS to everybody. The requests
of web interface, SMTP and POP3 are the processes `Requests`; those of another session that has
another folder selected (MOVE and COPY into this one) are among them. A POP3 session takes its
numbers at login (`Pop3Mark`), may lose messages to others (`Pop3Drop`) and removes and pushes at
QUIT (`Pop3Quit`, `Pop3Delete`, `Pop3End`). SELECT and UNSELECT are two steps each, in the code's
order. After a command the library polls: `Poll`, or `PollNoExpunge` after FETCH, STORE and SEARCH.
`IdleWrite`, `IdleWait`, `IdleWake` are the loop of Idle.

The code does not keep clients in sync always; the history variable `doubt` names, per session, why
its client may have been misled: `overlap` (two changes at once), `select` (a change during its
SELECT or UNSELECT, or updates left in its queue), `several` (more than one removal in one
command), `middle` (a message restored below others), `failure` (a removal announced that did not
happen), `snapshot` (POP3 announces the numbers of its login), `bare` (POP3 logged in without the
domain pushes to a key that no session has), `broken` (a session has removed messages and then
failed to write that to its own client, so that nobody hears of it), `order` (a session's own
EXPUNGE is written ahead of what is queued for it). A new SELECT clears it. `Informed` clients are
those without a doubt; the properties say that there is no other cause.

Which messages carry \Deleted is abstracted: EXPUNGE removes any set. Flag updates carry no
number.

### Mailboxes

The rows of mailboxes are `boxes` (unsubscribed: `silent`), `validity` is mailbox_states, `where`
the folder column of each message. Every operation first runs EnsureSystem, in separate
statements (`EnsureRead`, `EnsureCreate`, `EnsureFails`), and resolves the name; `Lookup` keeps the
resolved name for what happens later (`Append`, `Move`, `Rename`). Create, SetSubscribed and Delete
are decided by one statement or transaction, hence one step; Rename is a transaction and moves the
messages, not the UIDVALIDITY. `Select` counts, then UidValidity follows in its own statements
(`Known`, `Draw`, `Save`, `FallsBack`). `cache` is one client's memory of one folder: what it was
told at SELECT and what it may conclude when it comes back.

History: `ensured`, `moved`, `excused` (the UIDVALIDITY the client was told has been given up), and
`lost`: the folders deleted or renamed while another process had resolved their name, and those
into which a renaming merged what a late APPEND had left under a name without a row (`Merged`).

### ConnHub and Pop3

A connection of `ConnHub` goes through `stage`: POP3 looks at the ban list as it is accepted, IMAP
at LOGIN (`LooksUp`, and `Login` for the rest), SMTP at AUTH or never; then `Register`, then
`SetDisconnect`. `LetIn` is IsBanned, which says no when its query fails. A login of IMAP or POP3
deletes the address's row (`ResetFail`), a ban in force included. DisconnectConnection is `Find`,
`BanIP`, `Collect` (the callbacks under the hub's lock) and one `Call` per callback. `missed` has
the connections that the code cannot catch: those between their look and their callback at
`Collect`, and later ones that a failing query lets in. `Unban` is whatever else ends a ban.

`Pop3` adds the commands. `messages` and `deleted` are the two variables of handleConn; `nil` is
the map that is not there, to which a DELE would panic. USER without an argument keeps the user and
drops the snapshot; PASS may log in a name that is no address of a user, as AuthenticateLogin takes
one without a domain. A socket that was closed ends the handler once the lines in its buffer are
used up, so a command needs an open handler and no open socket. QUIT (`quit`) expunges by
identifier, one message at a time; any other end (`Lost`, `Deadline`, a failed STLS) removes
nothing. `Ordered` is the ORDER BY of the listing. `Others` are the other sessions of both users.

### WebMail

An attachment has size 1, its row and its file have the same name. A request sends (`Reserve`,
`UnreadableFile`, `NotQueued` or `Queued`, `NotInserted` or `SentInserted`, `Attach` one by one),
receives (`Deliver`, `DeliverFile`, `DeliverCount`: SMTP counts afterwards and without a look at
the quota) or purges (`PurgeRead`, then per message `PurgeList`, `Release` of each file and its
bytes, `PurgeRows`, at last `PurgeMails`). `Expunge` is IMAP or POP3, which delete the row of the
message only. `UpdateUserRead` and `UpdateUserSave` are the administrator, who saves the whole row.
`blame` names what has gone wrong so far.

### WebSession

The session is a signed cookie: the server keeps nothing, so a request carries the cookie its
browser had when it was sent, and the reply sets what the handler decided (`Keep`, `Clear`,
`Fresh`). `req` is what a handler holds: the user, the copy of the row the middleware read, what
will be set. `Reject`, `Browse`, `Mail`, `Logout`, `Settings`, `Console` are the ways through the
two middlewares, `Passes` the gate before `Mail` and `Console` for who must change the password;
`Login` and `OAuth2Callback` open a session; `SetPassword`, `CreateUser`, `DeleteUser`,
`UpdateUserRead` and `UpdateUserSave` change rows. A password is a number, a new one differs from
all the earlier. History: `acked` (what each row was last meant to be), `stale` (rows saved from an
older copy), `temporary` (passwords set by another), `created` (those of them that `CreateUser`
set, which need not be changed), `gone` and `revived`, `resigned`, `out` and `late` (logged-out
browsers, and their requests under way at that time).

### TlsLoader

A file is the pair it belongs to, 0 while it is truncated, and a time. A start takes the domain's
files or the self-signed ones, which it makes in four steps if one does not exist (`MakeFails`: a
step fails, the port stays without paths and so without TLS until the next start); the first load,
like each later one, is `ReadCert`, `ReadKey`, `StatCert`, `StatKey`, in the code's order, under
the loader's lock. `Lookup` is the source (at most every ten seconds), `Reload` a handshake that
finds a change, `throttled` the five seconds after a failure. An administrator's upload opens and
writes one file, then the other, then saves the row. `torn` are the places whose two files a crash,
a failure or two administrators at once may have left apart.

## 3. Runs

| run | instance | checks |
|---|---|---|
| outbound_faults | 1 message, 2 workers, 2 attempts, 2 hosts, 1 retry, 1 cancel request, 1 crash, failing writes | SendingIsHeld ExclusiveClaim FailureIsReported HonestBounce; SentIsKept LedgerSpec |
| outbound_live | 2 messages to one address, 2 workers, 1 slot, channel of 1, 2 attempts, Stop at any time | SlotsExact CleanStop; EventuallySettled KickSuffices StopCompletes |
| ban_guard | a stateless and a POP3 client, threshold 2, 1 free hit, 2 tiers, failing statements, administrator, MySQL | BanInv; BanIsKept |
| ban_escalates | the same clients guessing for ever, 2 free hits | Escalates |
| push_sync | 2 sessions, 1 other request, 2 messages of which 1 is there at first, failing statements and writes | PushInv; NumbersStand |
| push_live | 2 sessions, 1 other request, 1 message | IdleHears |
| submission | 1 session on either port, a local and an outside recipient, 2 tries, 1 message per minute, 2 per day, minutes of 1 tick and days of 4, 5 ticks, 1 restart, 1 user created or deleted, failing statements | LimitsHold Accounted SubmissionInv |
| quota | 2 requests, 2 messages of at most 1 attachment, quota 0 or 1, failing statements, crashes | Charged QuotaHolds Attached |
| pop3 | a POP3 and an IMAP connection of one address, 1 ban, 2 users, one with two messages, failing statements | NoPanic Pop3Inv RemovesMarked; Kicked Drains |
| folders | 2 processes, INBOX and 2 other names, 2 messages, 2 values of UIDVALIDITY | FolderInv CacheStands; KeepsChoice |
| web_sessions | 1 browser with 2 requests under way, the administrator and 1 other user, 3 passwords, 1 OAuth2 login | TypeOK LoggedOut StateOnce UsersStand; TemporaryIsChanged |
| startup | 2 administrators, 3 pairs, 2 crashes | Pairs NoBlindSpot; StartsWithTLS CatchesUp |

Some of these are conjunctions of properties that depend on one another and are stated one by one,
each with its comment, in the module of the properties:

| conjunction | its parts |
|---|---|
| BanInv | BanTypeOK, TierIsEarned, ThresholdHolds |
| Escalates | BannedAgain, and in the end the longest ban |
| PushInv | TypeOK, InSync, HubExact |
| LimitsHold | MinuteLimit, DayLimit |
| SubmissionInv | TypeOK, SentIsTrue, SenderVerified |
| Charged | NotTooHigh, NotTooLow |
| Attached | TypeOK, Linked, Downloadable |
| Pop3Inv | TypeOK, OwnMessages |
| FolderInv | TypeOK, SystemStays, NoOrphans |
| CacheStands | Stable, Vouched |
| UsersStand | ChangeStands, GoneStaysGone, AdminRemains |

TypeOK, AttemptBudget, SentWasAccepted and SlotLimit of Outbound and TypeOK of TlsLoader are in no
run: they are proved for every value of the constants (section 5).

Why these bounds are enough for what they ask. In the queue every interaction is about one row and
at most two copies of it, one of them with each of two workers, or about two rows that compete for
one slot or one place of the channel: the first instance has the one, the second the other. With
two attempts there is a first, a repeated and a last one; two hosts give an error that is not the
last. One crash, one retry and one cancel can fall at any point, also one into the consequences of
another. In the ban guard two clients are a reader and an overwriter; threshold 2 has a count below
it, FreeTriggers 1 a free hit and one that is not, and MaxTier 2 a tier to climb to and a cap. In
submission the other sessions of the user are one action that can happen between any two steps, so
a second session would add nothing to the limits; two tries are a first and a repeated one; in five
ticks four messages could be sent in the first day, so that the day's limit is what refuses the
third, and a second day begins inside the run; within a tick the minute's limit refuses the second
message, and both limits are needed for LimitsHold. In the push two sessions are a source and an
audience, and two messages have two numbers and can be brought back by one command; MaxQueue limits
when a command may start, not how long a queue may get by what is under way; with Tolerated = {}
nothing new starts while a client is in doubt, but what is under way goes on and SELECT may clear
the doubt. Two requests, two processes,
two writers are what it takes for one to change what the other has read. In pop3 the IMAP
connection is the second client of the hub, the second user the one who must not see the other's
messages, and two messages let QUIT remove one and fail at the other. In startup three pairs are
the self-signed one and two that replace one another, or none self-signed and three; two crashes
are one that leaves files halfway and one after it.

Constraints on what TLC goes on from (it checks every state it reaches before it stops there):
`MCQuiet` in push_sync and push_live ends at a doubt that is still being spread; `MCOneCause` in
quota has one cause in a behaviour and ends once it has made the account wrong, since every
property allows for each cause on its own; `MCNoException` in web_sessions ends after one of the
exceptions that the properties name, and `MCFewPasswords` sets one password, not two, where
somebody logs in through OAuth2, which reads none; `MCFew` in folders moves one message, keeps the
subscriptions of other folders, lets an unsubscribed INBOX meet one value of UIDVALIDITY, not two
(neither depends on the other) and ends once a folder was taken from another session, and
`MCWatched` ends once the watched client would drop its cache.

Symmetry (Permutations) is used for primary keys in BanGuard, for sessions in push_sync, for
requests in quota and web_sessions, for processes and names of custom folders in folders: no
definition tells their members apart, and no liveness property is checked there.

CHECK_DEADLOCK FALSE is used where the system really may stop: in outbound_live Stop ends the
program; in submission the client has used up its tries and the clock its ticks; in pop3 every
connection has ended and no message is left to move; in startup the server is down or has no TLS,
and the pairs are used up.

## 4. Fairness

`Outbound`: goroutines that can run do (weak fairness of each worker's actions and of the
dispatcher's steps); Go's select chooses at random among ready branches, so neither a kick nor a
stop is passed over for ever (strong fairness of `TakeKick`, `TakeStop`); senders blocked on a
channel are served first come first served, so a worker waiting for a slot gets it (strong
fairness of `AcquireSlot`). That an SMTP transaction ends is assumed of the remote host: after the
dial the mailer sets no deadline. No fairness of requests, stops, crashes. Time is not fair
either: `EventuallySettled` assumes `TimePasses`, `KickSuffices` does without.

`BanGuard`: `GuessSpec` has fair handlers and clients that keep trying; bans expire.

`ImapPush`: a handler that can go on does (`Handler`), and so does a session that is not waiting
for its client (`Session`). Clients need not send anything, not even DONE.

`Pop3`: the goroutine of a connection runs on (weak fairness of `Register`, `SetDisconnect`,
`Expunge`, `Bye`, `Lost`), and the deadline that handleConn sets when it begins comes (`Deadline`).
Clients need send nothing and never close.

`TlsLoader`: a load that has begun goes on (`Load`), the two waiting times end (`RetryDue`,
`SourceDue`). Handshakes keep coming, each a new chance to ask the source and to look at the
files, and neither fails, nor comes a moment too late, each time (strong fairness of `Lookup` and
`Reload`). Starts, uploads and crashes are not fair: `CatchesUp` speaks of behaviours in which the
files settle while the server is up.

## 5. Proofs

`OutboundProofs` proves, for all constants that satisfy `QueueAssumption` (finitely many workers
and at least one, local senders are rows, positive attempts, batch and hosts; the numbers of rows
and administrators are arbitrary):

* `TypeCorrect`: Spec => []TypeOK, by one lemma per group of actions;
* `ClaimCorrect`: Spec => []ClaimInv, and from it `SendingCorrect` ([]SendingIsHeld) and
  `ExclusiveCorrect` ([]ExclusiveClaim).

Neither SendingIsHeld nor ExclusiveClaim is inductive. A claim keeps copies sole only because the
row cannot be claimable while a copy is held, which is part of ExclusiveClaim itself; saving a row
makes it claimable again, which is sound only because the saving worker's copy was the sole one,
so that no copy is left; and the dispatcher must not hold a second copy in `hand` when it claims
(HandInv). HeldExists excludes that Enqueue inserts a row with a held copy. ClaimInv is their
conjunction.

The slots: `SlotsExactCorrect` and `SlotLimitCorrect`. SlotsExact gives who is in
a semaphore, but the limit needs the bound on the semaphore itself, which AcquireSlot checks before
it adds a member: SlotInv states membership worker by worker (no set equality to rewrite) and that
every semaphore is finite and within the limit. FiniteSetTheorems counts the member added.
`CleanStopCorrect` combines ClaimInv with ExitInv: a worker leaves only after the dispatcher has
closed the channel and the channel is empty, so that nobody is left to hold a copy.

The recorded outcome:

* `SentWasAcceptedCorrect`: inductive with AnswerInv, that a worker with the answer "ok" to save
  works on an accepted message;
* `FailureIsReportedCorrect`: inductive with the types alone, as the worker that saved "failed" is
  a witness until it has written the notice or the notice is known to be dropped;
* `AttemptBudgetCorrect`: BudgetInv follows the attempt count through every place a copy can be:
  the batch, the hand, the channel, a worker before and after its attempt, a cancel request.

A row and the fate of its message:

* `HeldInvCorrect`: while a copy that no retry hit is held, its row is in "sending" or "canceled".
  This is where exclusive claims pay off, and `SentIsKeptCorrect` follows from it: a worker that
  overwrites "sent" holds a copy of a row that is neither;
* `HonestBounceCorrect`: NoticeInv says of a message that was neither retried nor lost a reply that
  once it is accepted only a worker with "ok" to save may hold it, and once it is given up nothing
  holds it. Both need SoleCopy: another copy could otherwise be accepted after the notice, or give
  up after the acceptance.

Duplicates: `LedgerCorrect` is the refinement LedgerSpec of `Ledger`, step by step. Its invariant
LedgerInv (`LedgerInvCorrect`) gives a message a chance to be accepted for its row while it can be
claimed, for its copy in the dispatcher's hand, for each of its copies in the channel and for each
worker that holds one and has not had it accepted: acceptances and chances together never exceed
the licences. A step moves a chance on, uses it or drops it; queueing, a retry and a lost reply
bring a licence with the chance they make.

`Pop3Proofs`, for any set of connections, any protocol of each, any users and any finitely
many messages (HubAssumption, Pop3Assumption):

* `KickedCorrect`: Kicked speaks of the moment when nothing is left to disconnect, so the invariant
  is about the time in between: after the cut a connection with an open socket that is past its
  look at the ban list is a target still or was missed. It needs that POP3 is "admitted" and IMAP
  "checked" only past the list. From it also follows who may lift such a ban by a login (LiftStep):
  a connection that was missed, or a closed one with a command left;
* `NoPanicCorrect` and `RemovesMarkedCorrect`: MarkInv says that the marks of the program are the
  marks of the history, that there are none without a user and a map (for which it needs NoPanic),
  and that QUIT leaves neither changed until the end: what it skips has no marks;
* `Pop3InvCorrect`, the types and OwnMessages: HubInv (the hub holds the connections that are being
  served) and SnapInv (what a connection holds as its messages is a list of messages of the user
  it is logged in as). That the listing is such a list needs that a finite set of numbers
  can be ordered, hence that `Ordered` chooses something: by taking least numbers away, with the
  well-foundedness of < in place of an induction.

`LoginProofs`, on WebSession, for any users, browsers, requests and ages (SessionAssumption):

* `LoggedOutCorrect` from OutInv: a request of a logged-out browser that has a cookie to set is a
  late one, or will be a login; a request that is idle has nothing to set;
* `StateOnceCorrect` from StateInv: no two browsers have the same state (Apart), and of a used one
  that is left the reply that clears it is under way (Answers);
* `GoneStaysGoneCorrect` from GoneInv: identifiers in Rows are born, and a deleted one is born, so
  CreateUser cannot choose it;
* `ChangeStandsCorrect` and `AdminRemainsCorrect`: of a row that is not stale the table says what
  was meant, action by action; whoever removes an administrator is one, and not the one removed,
  unless `resigned`;
* `UsersStandCorrect`: the invariant of the run, from the three above;
* `TemporaryIsChangedCorrect` from TempInv: passwords in use are known (no later one repeats them),
  a copy of the row that still carries a temporary password says so too (Careful), and one that
  waits to be saved with a new password is marked (Pending), so that a row with one is marked
  (Marked) and its user is stopped at the gate; the passwords of CreateUser are left out (`due`);
* `TypeCorrect` from BrowserInv (a browser has at most one cookie of each kind, and a reply sets at
  most one, of a login that has begun) and TableInv (what a request holds as a copy is a row; of
  every user ever born it is recorded what the row was meant to be, and whoever was born and has no
  row is gone).

`TlsLoaderProofs`, for any number of pairs, writers and crashes:

* `TypeCorrect`;
* `PairsCorrect`: what has been read of the certificate while the key is awaited is either no pair
  or the one of the file read, and it is served only if both agree;
* `NoBlindSpotCorrect` from DatesInv and BlindInv: the time of a file never exceeds the clock and
  a write takes a new one, so equal times mean equal content; what `got` holds has the content
  that went with its time;
* `StartsWithTLSCorrect` from StartInv, for the starts that do not themselves fail to make the
  pair: the self-signed files are a pair, or torn, or one of them is
  missing (SelfInv); those of the domain, once a row names them, are a pair or torn (DomInv); while
  a start is reading nobody writes, for the administrators' pages are not up (QuietInv).

`LoginProofs`, on BanGuard, for any clients behind the address, any thresholds, either database and
either kind of client (BanAssumption):

* `BanInvCorrect` (TierIsEarned, ThresholdHolds and the types) from GuardInv (`GuardInvCorrect`). An
  attempt that has read the row saves it over whatever the row has become, so what is said of the
  row (Deserved) is said of every copy an attempt holds; whoever is past the look at a ban in force
  is in `admitted` (LateInv);
* `BanIsKeptCorrect`, the action property, from GuardInv.

`ImapPushProofs`, for any sessions and requests, any numbers of messages, any length of the queues
and any causes tolerated (PushAssumption):

* `PushInvCorrect`, the types, InSync and HubExact, from PushIInv, which has three parts. TypeInv
  adds to the types what the program point of a handler says of its job, and that an EXISTS lists
  as many keys as it counts. HubExact is inductive with the types. Synced says of every client
  that nothing has misled that it is in step (InStep): at most one handler is changing the folder
  (a second one would have been an `overlap`), nobody is while the client selects, and its client
  knows the folder but for what it has yet to hear from this handler. InSync itself says nothing
  until all handlers are done, so InStep has to say what is missing at each point on the way: of a
  removal nothing while the message is there, then one EXPUNGE with the number the message had
  (Awaits, Due), also for an update that is still to be sent to this client or never will be, for
  the client is the source. It needs that a removal has one message and its right number in the
  plan (Shape), the other cases being `several`, `snapshot`, `bare`, `broken` and `failure`. While
  messages are being added, one or many or none, it knows the first ones, so that the EXISTS to
  come completes them;
* `NumbersStandCorrect` from the same invariant. No EXPUNGE is written while a command is answered,
  but an EXISTS that counts fewer messages than the client knows would cut its numbers off as
  well, so InStep also says that no EXISTS in its queue counts fewer messages than the client will
  then know (Growing).

What a client knows is a fold (`Hears`) over what it is told. Its laws (one more update, the first
part and the rest, updates of flags alone) are proved from the trace of the fold: there is one and
it is unique, by the least place where two would differ, so that the well-foundedness of < stands
in for an induction. The same goes for the listing: a message has one place, removing it leaves the
others in order (OrderedLess), one with a greater key comes last (OrderedMore).

`MailboxesProofs`, for any processes and names, any numbers of messages and of UIDVALIDITYs
(MailboxAssumption), in three layers, each resting on the one before:

* TypeInv: the types, with what the program point of a process says of its variables;
* TidyInv: SystemStays needs that a process that still creates system folders has all those that
  are not there on its list (EnsureInv); NoOrphans needs that a name a process has resolved is
  there or in `lost` (JobInv). `FolderInvCorrect` and, with the same steps, `KeepsChoiceCorrect`;
* WatchInv: Stable and Vouched need that a value about to be saved is nowhere else (FreshInv) and
  that what a SELECT has counted stays good until the client hears of it (SeenInv).
  `CacheStandsCorrect`.

The proof of NoOrphans corrected the model: a renaming that comes late moves the messages even if
the row is gone, and what it finds under the old name is merged into the new one. That a new
UIDVALIDITY exceeds all the others needs a greatest number of a finite set, which is found by
well-foundedness as above.

`WebMailProofs`, for any finite set of requests, any numbers of messages and attachments and any
quota (MailAssumption):

* `QuotaHoldsCorrect` from the types, which include what a request has still to do;
* `AttachedCorrect` from StoringInv (the row a request is about to insert is a new one: nobody else
  stores attachments of its message, and their numbers go down) and ReleasedInv (unless a statement
  failed, a row whose file has been given back is there only while the request that did so works
  on its message);
* `ChargedCorrect`. The account is a matter of three sets: rows stored and not yet released
  (Counted), bytes reserved and not yet stored (Promised), messages received and not yet counted
  (Uncounted). Each step moves the used bytes and the sizes of these sets by the same amount, or
  adds a cause that excuses the direction in which it does not (Settles). The model states the sums
  as sizes of sets for this reason.

`SubmissionProofs`, for any sessions, messages and limits (RateAssumption, SubmissionAssumption):

* `RateCorrect`: Submission implements `RateLimit`: a step of a session or of its environment is a
  step of the windows or leaves them alone;
* `LimitsHoldCorrect` from RateInv: MinuteInv bounds what has counted in an interval that is not
  over, by what the present window has and one window's worth for the older ones, besides those
  that began with a new day; DayInv does the same for days and restarts. The limits speak of
  intervals of the past, too, whose counts no longer change;
* `AccountedCorrect` and `SubmissionInvCorrect` from SessInv: while DATA goes through its
  recipients, copies, recipients passed over and recipients still to be served make up what was
  offered (CopiesOK), only local ones are passed over, after a failure or a change of the users
  (MissInv), and the copy in Sent is preceded by one for each outside recipient (SentOK). Recipients
  are counted as the places of a list.

## 6. Only model-checked

Liveness (EventuallySettled, KickSuffices, StopCompletes, Escalates, IdleHears, Drains,
CatchesUp) and whatever speaks of ENABLED are beyond the prover and stay with TLC. All invariants,
action properties and refinements of the runs are proved. No model declares a RECURSIVE operator;
the one fold, `Hears` of ImapPush, is a recursive function.

## 7. Divergences between code and documentation

Each of these is a behaviour of the models, seen while they were written or in a counterexample of
a stronger property; the properties above name it as an exception.

Queue and submission

* The connection limit per domain (README.md:154-155) is kept per address (manager.go:354).
* A retry does not look at the status (manager.go:452): two workers may deliver a message at once.
* A worker saves its copy over a cancel (manager.go:403, also 367 and 386, against 465).
* max_per_day = 0 is said to disable delivery (README.md:162-163, 336; config.go:130), but
  mergeDefaults turns 0 into 500 (config.go:342), which is written back.
* With the defaults a message may have 50 outside recipients and a user 30 a minute: the first
  thirty are queued again with each retry of the client.
* On the inbound port AUTH may follow MAIL, so that the sender is not compared with the user.
* DATA answers 250 although a local recipient whose user is gone, or whose message could not be
  inserted, was passed over (server.go:348-357 of smtp_server): nobody hears of it.

Bans and connections

* Two concurrent failures save the ban's tier anew (auth_guard.go:77 against 47); a failure that is
  being recorded while a login succeeds brings the deleted row back (auth_guard.go:64); of two
  first failures one is not counted (ban_store.go:168).
* "All sessions of the IP are disconnected" (hub.go:141, admin.go:71): not those between their look
  at the ban list and SetDisconnect, nor IMAP sessions before LOGIN, nor SMTP without AUTH.
* A query that fails counts as no ban (ban_store.go:146), so a banned and disconnected address may
  come back; and a login deletes the row (ban_store.go:201), a ban in force and its history
  included, although a ban is only looked at before the password is checked: a login that was under
  way, or a PASS of a POP3 connection that was let in before, lifts the administrator's ban.
* POP3: QUIT deletes by identifier whatever folder the message is in by then; the ten minutes are
  for the connection, not for silence.

IMAP and folders

* EXPUNGE of several messages announces numbers as they were before any was removed (session.go:997,
  933), although mail_store.go:182-189 says that the numbers agree along the whole path; a message
  restored or moved keeps its identifier and lands in the middle, while clients are told of one at
  the end; updates pushed between the two steps of UNSELECT wait for the next folder; POP3 without a
  domain pushes to a key that no session has (server.go:568 against 549).
* EXPUNGE and MOVE that cannot write to their own client return before the hub hears of the
  messages they have removed (session.go:996-1000, 926-937), although such changes are to be synced
  to the other clients in real time (README.md:16); the clients are wrong until they select the
  folder again.
* EnsureSystem is called idempotent: of two first accesses at once one fails. Two first accesses to
  a UIDVALIDITY are told different values. SELECT falls back to UIDVALIDITY 1 on an error.

Web

* mail.go:273 says that a failed save gives the reservation back: a send that is given up after it
  does not. A message whose attachments are empty is refused as over quota.
* users.Update saves the whole row: used bytes, password and flags of in between are lost, and a
  deleted user comes back, active even if the form says the contrary (models.go:16).
* "More than 7 days after the login" (middleware/auth.go:14, 51): the refresh rewrites loginAt, so
  an active session never ends, and an idle one ends with its cookie after 24 hours.
* The settings page takes the same password again as the change that is asked for (admin.go:785);
  IMAP, POP3 and SMTP do not ask for it. "Users must change the password at their first login"
  (middleware/auth.go:97): not the one with which an administrator creates a user
  (admin.go:659-668). AuthMiddleware does not look at is_active. The last
  administrator can be removed, by himself or by another at once; a restart creates
  admin@example.com only if there is no such row.

Start and TLS

* A start that cannot make the self-signed pair logs it and goes on without TLS (main.go:115-118).
* A crash or a failing write while the self-signed key is written leaves an empty file that counts
  as present: TLS stays off from then on. The files' times are taken after the files were read, so
  that a change in between is not seen until the next (against "reloads when they change",
  tlsutil.go:1). Two uploads at once mix two pairs. If the first load fails there is no loader
  until a restart.
* The configuration is truncated and then written at each start (config.go:431).

## 8. Not modelled

Of the modelled components: DKIM signing, the dialogue inside an SMTP transaction and pruning of
old rows (Outbound); addresses, reasons and durations as such (BanGuard); parsing and the text of
messages (Submission, WebMail); flags, bodies, searching and LIST (ImapPush, Mailboxes); a MOVE
to the folder that is selected itself; the numbers that a client's command names (ImapPush);
Disconnect of a single connection (ConnHub); sizes of attachments other than 1 (WebMail).

Not modelled at all: pages of the admin console that only show, routing, templates and
translations (presentation); LDAP and OAuth2 providers (external services; their verdict is an
input); DKIM keys (cryptography); attachment files and the Caddy certificate finder (file I/O);
configuration (read once, before anything runs) and migrations (gorm); the protocol log (append
only, nobody reads it).

## 9. What could come next

* The numbers that commands and FETCH pushes name, in ImapPush.
* The backoff over 64-bit integers against its definition.
* Pruning of outbound rows and of the protocol log against readers.
