------------------------------ MODULE BanGuard ------------------------------
(***************************************************************************)
(* Failed logins and IP bans: store/auth_guard.go and store/ban_store.go,  *)
(* as the login handlers of the web, SMTP, IMAP and POP3 servers use them. *)
(*                                                                         *)
(* The table ban_entries has at most one row per IP (unique index), and    *)
(* rows of different IPs do not interact: the module is about one IP and   *)
(* the clients behind it, whose login attempts run concurrently.  Every    *)
(* SQL statement is a step of its own.                                     *)
(*                                                                         *)
(* A ban is reduced to its tier (0: never banned) and whether expires_at   *)
(* still lies in the future.                                               *)
(***************************************************************************)
EXTENDS Naturals

CONSTANTS
  Clients,       \* concurrent connections and requests from the IP
  Sticky,        \* POP3 connections: IsBanned is asked once per connection
  Ids,           \* primary keys of ban_entries
  MaxFail,       \* [ban] max_fail_attempts
  FreeTriggers,  \* threshold hits that only count (freeTriggers)
  MaxTier,       \* the highest of the tiers of stageDuration
  FailCap,       \* bound: fail_count and its ghosts are counted up to here
  MySQL,         \* database driver: MySQL or SQLite
  DBMayFail,     \* may a statement return an error?
  MayUnknown,    \* do clients try user names that do not exist?
  MaySucceed,    \* do clients know a password?
  AdminActs      \* does the administrator ban and unban the IP?

ASSUME BanAssumption ==
  /\ Sticky \subseteq Clients
  /\ MaxFail \in Nat \ {0} /\ FreeTriggers \in Nat /\ MaxTier \in Nat \ {0}
  /\ FailCap \in Nat /\ FailCap >= MaxFail /\ FailCap >= FreeTriggers + MaxTier
  /\ {MySQL, DBMayFail, MayUnknown, MaySucceed, AdminActs} \subseteq BOOLEAN

VARIABLES
  row,         \* the IP's row of ban_entries: {} or one entry
  at,          \* where each client's login attempt is
  known,       \* does the user name of the attempt exist?
  count,       \* failCount as the attempt read it
  entry        \* the entry the attempt has read (at most one)

\* History.
VARIABLES
  failures,    \* failures counted, ever
  hits,        \* threshold hits saved, ever
  guessed,     \* an unknown user name has been tried
  manual,      \* the administrator has banned the IP
  admitted     \* attempts admitted before the present ban, or by a failing query

attVars == <<at, known, count, entry>>
histVars == <<failures, hits, guessed, manual, admitted>>
banVars == <<row, attVars, histVars>>

-----------------------------------------------------------------------------
TierCap == FreeTriggers + MaxTier
UpTo(n, cap) == IF n < cap THEN n ELSE cap

\* db.BanEntry
Entry == [id : Ids, fail : 0..FailCap, ban : 0..TierCap, tier : 0..MaxTier,
          active : BOOLEAN]

PC == {"out", "login", "count", "insert", "reread", "read", "save", "reset"}

Banned == \E e \in row : e.active

\* A primary key that no row and no copy uses: keys are never reused.
FreshId(n) == n \in Ids \ {e.id : e \in row \union UNION {entry[c] : c \in Clients}}

BanInit ==
  /\ row = {}
  /\ at = [c \in Clients |-> "out"]
  /\ known = [c \in Clients |-> TRUE]
  /\ count = [c \in Clients |-> 0]
  /\ entry = [c \in Clients |-> {}]
  /\ failures = 0 /\ hits = 0
  /\ guessed = FALSE /\ manual = FALSE /\ admitted = {}

-----------------------------------------------------------------------------
(* A login handler: check the ban, check the password, then either record  *)
(* the failure or reset the count.                                         *)

\* Mutant: the ban is not checked.
Admit_Unchecked(c) ==
  /\ at[c] = "out"
  /\ at' = [at EXCEPT ![c] = "login"]
  /\ UNCHANGED <<row, known, count, entry, histVars>>

\* IsBanned; a failing query counts as "not banned".
Admit(c) ==
  /\ at[c] = "out"
  /\ ~Banned \/ DBMayFail
  /\ at' = [at EXCEPT ![c] = "login"]
  /\ admitted' = IF Banned THEN admitted \union {c} ELSE admitted
  /\ UNCHANGED <<row, known, count, entry, failures, hits, guessed, manual>>

\* The attempt ends without a verdict: an incomplete form, an inactive account,
\* a POP3 client that quits.
Leave(c) ==
  /\ at[c] = "login"
  /\ at' = [at EXCEPT ![c] = "out"]
  /\ admitted' = admitted \ {c}
  /\ UNCHANGED <<row, known, count, entry, failures, hits, guessed, manual>>

WrongPassword(c) ==
  /\ at[c] = "login"
  /\ \E k \in BOOLEAN :
       /\ k \/ MayUnknown
       /\ known' = [known EXCEPT ![c] = k]
       /\ guessed' = (guessed \/ ~k)
  /\ at' = [at EXCEPT ![c] = "count"]
  /\ UNCHANGED <<row, count, entry, failures, hits, manual, admitted>>

RightPassword(c) ==
  /\ at[c] = "login" /\ MaySucceed
  /\ at' = [at EXCEPT ![c] = "reset"]
  /\ UNCHANGED <<row, known, count, entry, histVars>>

\* The clients past the check of IsBanned, and those still there after c returned.
Inside == {c \in Clients : at[c] # "out"}
StillIn(S, c) == IF c \in Sticky THEN S ELSE S \ {c}

\* The handler returns: a POP3 connection stays, all others are checked anew.
Return(c) ==
  /\ at' = [at EXCEPT ![c] = IF c \in Sticky THEN "login" ELSE "out"]
  /\ entry' = [entry EXCEPT ![c] = {}]
  /\ count' = [count EXCEPT ![c] = 0]
  /\ known' = [known EXCEPT ![c] = TRUE]

-----------------------------------------------------------------------------
(* IncrementFail: an UPDATE, an INSERT if there was nothing to update, and *)
(* a SELECT.                                                               *)
Counted ==
  /\ failures' = UpTo(failures + 1, FailCap)

CountUpdate(c) ==
  /\ at[c] = "count"
  /\ row' = {[e EXCEPT !.fail = UpTo(@ + 1, FailCap)] : e \in row}
  /\ at' = [at EXCEPT ![c] = IF row = {} THEN "insert" ELSE "reread"]
  /\ IF row = {} THEN UNCHANGED failures ELSE Counted
  /\ UNCHANGED <<known, count, entry, hits, guessed, manual, admitted>>

\* ON CONFLICT DO NOTHING: the loser of a race inserts nothing.
CountInsert(c) ==
  /\ at[c] = "insert"
  /\ IF row # {} THEN UNCHANGED row
     ELSE \E n \in Ids : FreshId(n) /\
            row' = {[id |-> n, fail |-> 1, ban |-> 0, tier |-> 0, active |-> FALSE]}
  /\ at' = [at EXCEPT ![c] = "reread"]
  /\ Counted
  /\ UNCHANGED <<known, count, entry, hits, guessed, manual, admitted>>

CountRead(c) ==
  /\ at[c] = "reread"
  /\ \/ \E e \in row : count' = [count EXCEPT ![c] = e.fail]
     \/ row = {} /\ count' = [count EXCEPT ![c] = 0]
  /\ at' = [at EXCEPT ![c] = "read"]
  /\ UNCHANGED <<row, known, entry, histVars>>

\* A statement of IncrementFail fails: its count of 0 is below any threshold.
CountFails(c) ==
  /\ DBMayFail
  /\ at[c] \in {"count", "insert", "reread"}
  /\ Return(c)
  /\ admitted' = StillIn(admitted, c)
  /\ UNCHANGED <<row, failures, hits, guessed, manual>>

-----------------------------------------------------------------------------
(* The rest of RecordAuthFailure.                                          *)

BelowThreshold(c) == count[c] < MaxFail

\* Below the threshold, no row, or already banned: nothing more to do.
StopHere(c) ==
  /\ at[c] = "read"
  /\ BelowThreshold(c) \/ row = {} \/ Banned \/ DBMayFail
  /\ Return(c)
  /\ admitted' = StillIn(admitted, c)
  /\ UNCHANGED <<row, failures, hits, guessed, manual>>

ReadEntry(c) ==
  /\ at[c] = "read"
  /\ ~BelowThreshold(c)
  /\ row # {} /\ ~Banned
  /\ entry' = [entry EXCEPT ![c] = row]
  /\ at' = [at EXCEPT ![c] = "save"]
  /\ UNCHANGED <<row, known, count, histVars>>

\* effectiveCount: unknown names have used up their free triggers.
Effective(c, ban) == IF known[c] THEN ban ELSE ban + FreeTriggers

\* Mutant: one free trigger too few.
Free_OffByOne(n) == n < FreeTriggers

Free(n) == n <= FreeTriggers

\* Mutant: the tier does not depend on the number of bans.
Tier_Flat(n) == 1

\* stageDuration: the tier of the n-th ban.
Tier(n) == UpTo(n, MaxTier)

\* The entry RecordAuthFailure saves. A free trigger keeps expires_at.
Raised(c, e) ==
  LET n == Effective(c, e.ban + 1) IN
  [e EXCEPT !.fail = count[c],
            !.ban = UpTo(@ + 1, TierCap),
            !.tier = IF Free(n) THEN @ ELSE Tier(n - FreeTriggers),
            !.active = ~Free(n)]

\* gorm's Save of an entry: the row with its key is overwritten whatever it
\* holds; if the row is gone the entry is inserted again; if the IP has another
\* row by now, SQLite refuses, MySQL overwrites all but the key.
SaveRow(e) ==
  \/ /\ \A r \in row : r.id = e.id
     /\ row' = {e}
  \/ /\ MySQL
     /\ \E r \in row : r.id # e.id /\ row' = {[e EXCEPT !.id = r.id]}

SaveEntry(c) ==
  /\ at[c] = "save"
  /\ \E e \in entry[c] :
       /\ SaveRow(Raised(c, e))
       /\ admitted' = StillIn(IF Raised(c, e).active THEN Inside ELSE admitted, c)
  /\ Return(c)
  /\ hits' = UpTo(hits + 1, FailCap)
  /\ UNCHANGED <<failures, guessed, manual>>

SaveFails(c) ==
  /\ at[c] = "save"
  /\ DBMayFail \/ (~MySQL /\ \E e \in entry[c], r \in row : r.id # e.id)
  /\ Return(c)
  /\ admitted' = StillIn(admitted, c)
  /\ UNCHANGED <<row, failures, hits, guessed, manual>>

\* ResetFail after a login: the row is deleted, a ban with it.
ResetFail(c) ==
  /\ at[c] = "reset"
  /\ \/ row' = {}
     \/ DBMayFail /\ UNCHANGED row
  /\ Return(c)
  /\ admitted' = StillIn(admitted, c)
  /\ UNCHANGED <<failures, hits, guessed, manual>>

-----------------------------------------------------------------------------
\* The ban's expires_at passes.
Expire ==
  /\ Banned
  /\ row' = {[e EXCEPT !.active = FALSE] : e \in row}
  /\ UNCHANGED <<attVars, histVars>>

\* BanIP, from the connections page: any row is replaced by a new one, in a
\* transaction; 180 days is the highest tier.
BanIP ==
  /\ AdminActs
  /\ \E n \in Ids : FreshId(n) /\
       row' = {[id |-> n, fail |-> 0, ban |-> 0, tier |-> MaxTier, active |-> TRUE]}
  /\ manual' = TRUE
  /\ admitted' = Inside
  /\ UNCHANGED <<attVars, failures, hits, guessed>>

\* UnbanIP: Delete by the key that the page showed.
UnbanIP ==
  /\ AdminActs /\ row # {}
  /\ row' = {}
  /\ UNCHANGED <<attVars, failures, hits, guessed, manual, admitted>>

-----------------------------------------------------------------------------
Record(c) ==
  \/ CountUpdate(c) \/ CountInsert(c) \/ CountRead(c) \/ CountFails(c)
  \/ StopHere(c) \/ ReadEntry(c) \/ SaveEntry(c) \/ SaveFails(c)
Client(c) ==
  \/ Admit(c) \/ Leave(c) \/ WrongPassword(c) \/ RightPassword(c)
  \/ Record(c) \/ ResetFail(c)
BanNext == (\E c \in Clients : Client(c)) \/ Expire \/ BanIP \/ UnbanIP

BanSpec == BanInit /\ [][BanNext]_banVars

(***************************************************************************)
(* Fairness: handlers that can run do, bans expire, and every client keeps *)
(* guessing.  The last is what the escalation is for, not something the    *)
(* code makes true: a client may give an attempt up, but not for ever      *)
(* without trying a password (strong fairness).                            *)
(***************************************************************************)
Guessing ==
  /\ WF_banVars(Expire)
  /\ \A c \in Clients :
       WF_banVars(Admit(c)) /\ SF_banVars(WrongPassword(c)) /\ WF_banVars(Record(c))
GuessSpec == BanSpec /\ Guessing
=============================================================================
