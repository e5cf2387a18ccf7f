----------------------------- MODULE Submission -----------------------------
(***************************************************************************)
(* SMTP sessions of one user, from smtp_server/server.go, and what they    *)
(* ask of Manager.Enqueue in outbound/manager.go, composed with the rate   *)
(* limit that all sessions of the user share.                              *)
(*                                                                         *)
(* A client has one message, which it sends again until it has heard that  *)
(* it was taken.  What becomes of a queued message is module Outbound; how *)
(* failed logins are counted is module BanGuard.                           *)
(***************************************************************************)
EXTENDS RateLimit, FiniteSets

CONSTANTS
  Sessions,       \* SMTP connections
  Rcpts,          \* Rcpts[s]: the recipients of the message of s, in order
  Domestic,       \* addresses that a user of this server may have
  MaxRecipients,  \* config: outside recipients of one message, 0 is no limit
  Modes,          \* the ports in use: "inbound", "submission"
  MaxTries,       \* MaxTries[s], bound: times a client sends its message
  MaxChanges,     \* bound: users created or deleted
  MayFail         \* may a statement return an error, or an answer get lost?

Addrs == UNION {{Rcpts[s][k] : k \in DOMAIN Rcpts[s]} : s \in Sessions}

ASSUME SubmissionAssumption ==
  /\ \A s \in Sessions : Rcpts[s] \in Seq(Addrs) /\ Rcpts[s] # <<>>
  /\ Domestic \subseteq Addrs
  /\ Modes \subseteq {"inbound", "submission"}
  /\ MaxTries \in [Sessions -> Nat]
  /\ MaxRecipients \in Nat /\ MaxChanges \in Nat
  /\ MayFail \in BOOLEAN

VARIABLES
  users,      \* the addresses that are those of users
  changes,    \* users created or deleted so far
  pc,         \* where each session is
  mode,       \* smtpSession.mode
  authed,     \* smtpSession.authenticated
  from,       \* smtpSession.from: nobody's yet, the user's own address, another
  named,      \* recipients the client has named, accepted or not
  locals,     \* smtpSession.localRcpts; in DATA those still to be delivered to
  externals   \* smtpSession.externalRcpts; in DATA those still to be queued

\* History.
VARIABLES
  offered,    \* accepted recipients of the present DATA
  skipped,    \* those of them it has passed over
  due,        \* those of a DATA whose success the client has heard of
  missed,     \* those of them that were passed over all the same
  risked,     \* those of any other DATA
  copies,     \* copies made, in an INBOX or in the outbound queue
  sentCopies, \* copies of the message of a session in the user's folder Sent
  tries,      \* times the client has sent its message
  heard       \* the clients that know their message was taken

envVars == <<users, changes>>
sessVars == <<mode, authed, from, named>>
pastVars == <<skipped, due, missed, risked, sentCopies, heard>>
vars == <<rateVars, envVars, pc, sessVars, locals, externals, offered, pastVars, copies, tries>>

-----------------------------------------------------------------------------
NoMail == [a \in Addrs |-> 0]
Plus(f, g) == [a \in Addrs |-> f[a] + g[a]]
Times(q) == [a \in Addrs |-> Cardinality({k \in DOMAIN q : q[k] = a})]

Enabled == MaxPerDay > 0
Goto(s, l) == pc' = [pc EXCEPT ![s] = l]
ForAll(v) == [s \in Sessions |-> v]

Init ==
  /\ RateInit
  /\ users \in SUBSET Domestic /\ changes = 0
  /\ pc = ForAll("closed") /\ mode \in [Sessions -> Modes] /\ authed = ForAll(FALSE)
  /\ from = ForAll("nobody") /\ named = ForAll(0)
  /\ locals = ForAll(<<>>) /\ externals = ForAll(<<>>)
  /\ offered = ForAll(NoMail) /\ skipped = ForAll(NoMail) /\ due = ForAll(NoMail)
  /\ missed = ForAll(NoMail) /\ risked = ForAll(NoMail) /\ copies = ForAll(NoMail)
  /\ sentCopies = ForAll(0) /\ tries = ForAll(0)
  /\ heard = {}

-----------------------------------------------------------------------------
(* Commands before DATA.                                                   *)
Connect(s) ==
  /\ pc[s] = "closed" /\ s \notin heard /\ tries[s] < MaxTries[s]
  /\ Goto(s, "open")
  /\ \E m \in Modes : mode' = [mode EXCEPT ![s] = m]
  /\ UNCHANGED <<rateVars, envVars, authed, from, named, locals, externals, offered, pastVars,
                 copies, tries>>

\* AUTH succeeds; it may also come after MAIL.
Auth(s) ==
  /\ pc[s] = "open" /\ ~authed[s]
  /\ authed' = [authed EXCEPT ![s] = TRUE]
  /\ UNCHANGED <<rateVars, envVars, pc, mode, from, named, locals, externals, offered, pastVars,
                 copies, tries>>

\* MAIL: on the submission ports only after AUTH, and then only as oneself.
Mail(s) ==
  /\ pc[s] = "open" /\ from[s] = "nobody"
  /\ mode[s] = "inbound" \/ authed[s]
  /\ \E f \in {"own", "other"} :
       /\ authed[s] => f = "own"
       /\ from' = [from EXCEPT ![s] = f]
  /\ UNCHANGED <<rateVars, envVars, pc, mode, authed, named, locals, externals, offered, pastVars,
                 copies, tries>>

\* RCPT with the client's next recipient. A failing look-up counts as "not local".
Rcpt(s) ==
  /\ pc[s] = "open" /\ from[s] # "nobody" /\ named[s] < Len(Rcpts[s])
  /\ named' = [named EXCEPT ![s] = @ + 1]
  /\ LET a == Rcpts[s][named'[s]] IN
     \/ /\ a \in users
        /\ locals' = [locals EXCEPT ![s] = Append(@, a)]
        /\ UNCHANGED externals
     \/ /\ a \notin users \/ MayFail
        /\ externals' = IF authed[s] /\ Enabled THEN [externals EXCEPT ![s] = Append(@, a)]
                        ELSE externals
        /\ UNCHANGED locals
  /\ UNCHANGED <<rateVars, envVars, pc, mode, authed, from, offered, pastVars, copies, tries>>

Cleared(s) ==
  /\ from' = [from EXCEPT ![s] = "nobody"]
  /\ named' = [named EXCEPT ![s] = 0]
  /\ locals' = [locals EXCEPT ![s] = <<>>]
  /\ externals' = [externals EXCEPT ![s] = <<>>]

\* RSET; a second MAIL clears the recipients in the same way.
Reset(s) ==
  /\ pc[s] = "open" /\ from[s] # "nobody"
  /\ Cleared(s)
  /\ UNCHANGED <<rateVars, envVars, pc, mode, authed, offered, pastVars, copies, tries>>

Logout(s) ==
  /\ pc[s] = "open"
  /\ Goto(s, "closed")
  /\ Cleared(s)
  /\ authed' = [authed EXCEPT ![s] = FALSE]
  /\ UNCHANGED <<rateVars, envVars, mode, offered, pastVars, copies, tries>>

-----------------------------------------------------------------------------
(* DATA.                                                                   *)
Data(s) ==
  /\ pc[s] = "open" /\ named[s] = Len(Rcpts[s]) /\ tries[s] < MaxTries[s]
  /\ locals[s] \o externals[s] # <<>>
  /\ tries' = [tries EXCEPT ![s] = @ + 1]
  /\ offered' = [offered EXCEPT ![s] = Times(locals[s] \o externals[s])]
  /\ Goto(s, "data")
  /\ UNCHANGED <<rateVars, envVars, sessVars, locals, externals, pastVars, copies>>

\* DATA whose text does not arrive or cannot be parsed.
Unreadable(s) ==
  /\ MayFail
  /\ pc[s] = "open" /\ named[s] = Len(Rcpts[s]) /\ tries[s] < MaxTries[s]
  /\ locals[s] \o externals[s] # <<>>
  /\ tries' = [tries EXCEPT ![s] = @ + 1]
  /\ risked' = [risked EXCEPT ![s] = Plus(@, Times(locals[s] \o externals[s]))]
  /\ Cleared(s)
  /\ UNCHANGED <<rateVars, envVars, pc, mode, authed, offered, skipped, due, missed, sentCopies, heard,
                 copies>>

\* saveMessage: the row, then the attachments and their bytes, whose failures are
\* ignored.
Saved(s, a) == copies' = [copies EXCEPT ![s][a] = @ + 1]

\* The next local recipient: if the user is gone or the message cannot be inserted,
\* the recipient is passed over, and DATA may succeed all the same.
Deliver(s) ==
  /\ pc[s] = "data" /\ locals[s] # <<>>
  /\ LET a == Head(locals[s]) IN
     \/ /\ a \in users
        /\ Saved(s, a)
        /\ UNCHANGED skipped
     \/ /\ a \notin users \/ MayFail
        /\ skipped' = [skipped EXCEPT ![s][a] = @ + 1]
        /\ UNCHANGED copies
  /\ locals' = [locals EXCEPT ![s] = Tail(@)]
  /\ UNCHANGED <<rateVars, envVars, pc, sessVars, externals, offered, due, missed, risked,
                 sentCopies, heard, tries>>

Answered(s) ==
  /\ offered' = [offered EXCEPT ![s] = NoMail]
  /\ skipped' = [skipped EXCEPT ![s] = NoMail]

\* Mutant: the error is not returned.
Fails_Silently(s) ==
  /\ due' = [due EXCEPT ![s] = Plus(@, offered[s])]
  /\ missed' = [missed EXCEPT ![s] = Plus(@, skipped[s])]
  /\ Answered(s)
  /\ heard' = heard \union {s}
  /\ Goto(s, "open")
  /\ Cleared(s)
  /\ UNCHANGED <<mode, authed, envVars, copies, sentCopies, tries, risked>>

\* DATA is answered with an error.
Fails(s) ==
  /\ risked' = [risked EXCEPT ![s] = Plus(@, offered[s])]
  /\ Answered(s)
  /\ Goto(s, "open")
  /\ Cleared(s)
  /\ UNCHANGED <<mode, authed, envVars, copies, sentCopies, tries, due, missed, heard>>

\* The number of outside recipients is checked before the first is queued for;
\* externals only gets shorter then.
TooMany(s) == MaxRecipients > 0 /\ Len(externals[s]) > MaxRecipients
Enqueueing(s) == pc[s] = "data" /\ locals[s] = <<>>

Refused(s) ==
  /\ Enqueueing(s) /\ TooMany(s)
  /\ Fails(s)
  /\ UNCHANGED rateVars

\* Mutant: an error ends the loop, not the command.
Enqueue_Skips(s) ==
  /\ Enqueueing(s) /\ ~TooMany(s) /\ externals[s] # <<>>
  /\ LET a == Head(externals[s]) IN
     \/ /\ Counts
        /\ copies' = [copies EXCEPT ![s][a] = @ + 1]
        /\ externals' = [externals EXCEPT ![s] = Tail(@)]
        /\ UNCHANGED <<pc, offered>>
     \/ /\ Refuses
        /\ externals' = [externals EXCEPT ![s] = <<>>]
        /\ UNCHANGED <<pc, offered, copies>>
  /\ UNCHANGED <<clockVars, envVars, sessVars, locals, pastVars, tries>>

\* Manager.Enqueue for the next outside recipient. The first error ends the
\* command; what has been delivered and queued stays.
Enqueue(s) ==
  /\ Enqueueing(s) /\ ~TooMany(s) /\ externals[s] # <<>>
  /\ LET a == Head(externals[s]) IN
     \/ /\ a \notin users \/ MayFail
        /\ Counts
        /\ copies' = [copies EXCEPT ![s][a] = @ + 1]
        /\ externals' = [externals EXCEPT ![s] = Tail(@)]
        /\ UNCHANGED <<envVars, pc, sessVars, locals, offered, pastVars, tries>>
     \/ MayFail /\ Counts /\ Fails(s)
     \/ Refuses /\ Fails(s)
     \/ a \in users /\ UNCHANGED limitVars /\ Fails(s)
  /\ UNCHANGED clockVars

\* A copy for Sent, whose failure is ignored, and the answer, which may get lost.
Succeeds(s) ==
  /\ Enqueueing(s) /\ externals[s] = <<>>
  /\ \/ /\ authed[s] /\ mode[s] = "submission"
        /\ sentCopies' = [sentCopies EXCEPT ![s] = @ + 1]
     \/ /\ authed[s] /\ mode[s] = "submission" => MayFail
        /\ UNCHANGED sentCopies
  /\ \/ /\ due' = [due EXCEPT ![s] = Plus(@, offered[s])]
        /\ missed' = [missed EXCEPT ![s] = Plus(@, skipped[s])]
        /\ heard' = heard \union {s}
        /\ Goto(s, "open")
        /\ UNCHANGED <<authed, risked>>
     \/ /\ MayFail
        /\ risked' = [risked EXCEPT ![s] = Plus(@, offered[s])]
        /\ Goto(s, "closed")
        /\ authed' = [authed EXCEPT ![s] = FALSE]
        /\ UNCHANGED <<due, missed, heard>>
  /\ Answered(s)
  /\ Cleared(s)
  /\ UNCHANGED <<rateVars, envVars, mode, copies, tries>>

-----------------------------------------------------------------------------
\* The administrator creates or deletes a user.
UserChanges(a) ==
  /\ changes < MaxChanges
  /\ changes' = changes + 1
  /\ users' = IF a \in users THEN users \ {a} ELSE users \union {a}
  /\ UNCHANGED <<rateVars, pc, sessVars, locals, externals, offered, pastVars, copies, tries>>

\* The user sends to outside by another session or by the web interface.
OtherSends ==
  /\ (Counts \/ Refuses) /\ UNCHANGED clockVars
  /\ UNCHANGED <<envVars, pc, sessVars, locals, externals, offered, pastVars, copies, tries>>

Restart ==
  /\ Forgets
  /\ pc' = ForAll("closed") /\ authed' = ForAll(FALSE)
  /\ from' = ForAll("nobody") /\ named' = ForAll(0)
  /\ locals' = ForAll(<<>>) /\ externals' = ForAll(<<>>)
  /\ risked' = [s \in Sessions |-> Plus(risked[s], offered[s])]
  /\ offered' = ForAll(NoMail) /\ skipped' = ForAll(NoMail)
  /\ UNCHANGED <<envVars, mode, due, missed, heard, copies, sentCopies, tries>>

TimePasses ==
  /\ ClockTicks
  /\ UNCHANGED <<envVars, pc, sessVars, locals, externals, offered, pastVars, copies, tries>>

Session(s) ==
  \/ Connect(s) \/ Auth(s) \/ Mail(s) \/ Rcpt(s) \/ Reset(s) \/ Logout(s)
  \/ Data(s) \/ Unreadable(s) \/ Deliver(s) \/ Refused(s) \/ Enqueue(s) \/ Succeeds(s)

Next ==
  \/ \E s \in Sessions : Session(s)
  \/ \E a \in Domestic : UserChanges(a)
  \/ OtherSends \/ Restart \/ TimePasses

Spec == Init /\ [][Next]_vars
=============================================================================
