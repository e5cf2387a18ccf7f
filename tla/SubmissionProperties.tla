------------------------ MODULE SubmissionProperties ------------------------
(***************************************************************************)
(* What SMTP sessions and the limits on sending are meant to guarantee.    *)
(***************************************************************************)
EXTENDS Submission

\* Every variable has its type.
TypeOK ==
  /\ now \in Ticks /\ win \in Window \union {NoWindow}
  /\ {counted, begun, restarts} \subseteq Seq(Ticks)
  /\ users \subseteq Domestic /\ changes \in 0..MaxChanges
  /\ pc \in [Sessions -> {"closed", "open", "data"}]
  /\ mode \in [Sessions -> Modes] /\ authed \in [Sessions -> BOOLEAN]
  /\ from \in [Sessions -> {"nobody", "own", "other"}]
  /\ \A s \in Sessions :
       /\ named[s] \in 0..Len(Rcpts[s])
       /\ {locals[s], externals[s]} \subseteq Seq(Addrs)
       /\ {offered[s], skipped[s], due[s], missed[s], risked[s], copies[s]} \subseteq [Addrs -> Nat]
       /\ tries[s] \in 0..MaxTries[s] /\ sentCopies[s] \in 0..tries[s]
       /\ from[s] = "nobody" => named[s] = 0 /\ locals[s] = <<>> /\ externals[s] = <<>>
       /\ pc[s] = "data" \/ offered[s] = NoMail
  /\ heard \subseteq Sessions

-----------------------------------------------------------------------------
(* The windows tumble: within any minute, wherever it begins, at most two  *)
(* of them meet, and another one for each day that begins in it, with 24   *)
(* hours over or a restart (checkRateLimit). This is what "per minute"     *)
(* amounts to, whatever the sessions of the user do at once.               *)
In(q, t, len) == Cardinality({k \in DOMAIN q : t <= q[k] /\ q[k] < t + len})
MinuteLimit ==
  MaxPerMin > 0 => \A t \in Ticks :
    In(counted, t, Minute) < MaxPerMin * (2 + In(begun, t, Minute))

(* Within any 24 hours at most two days meet, unless the server restarts.  *)
DayLimit ==
  MaxPerDay > 0 => \A t \in Ticks :
    In(counted, t, Day) < MaxPerDay * (2 + In(restarts, t, Day))

(* Both limits at once, over every interval, with the sessions of the user *)
(* sending at the same time and restarts that forget the counts            *)
(* (checkRateLimit).                                                       *)
LimitsHold == MinuteLimit /\ DayLimit

(* A copy for each recipient of a DATA the client knows was taken, except  *)
(* a local one passed over because its user was deleted after RCPT or      *)
(* because its message could not be inserted: DATA answers 250 all the     *)
(* same.  No recipient outside is ever passed over.  And no copy without a *)
(* recipient of some DATA: the message reaches an address twice only if a  *)
(* DATA that named it ended without the client hearing of success, by an   *)
(* error at a later recipient, a restart or a lost answer (Data, Enqueue). *)
Accounted ==
  \A s \in Sessions, a \in Addrs :
    /\ due[s][a] <= copies[s][a] + missed[s][a]
    /\ copies[s][a] + missed[s][a] <= due[s][a] + risked[s][a] + offered[s][a]
    /\ missed[s][a] > 0 => a \in Domestic /\ (MayFail \/ changes > 0)

(* The user's own copy in Sent means that every recipient outside has been *)
(* queued for, once for each such copy (Data).                             *)
SentIsTrue ==
  Enabled => \A s \in Sessions : \A k \in DOMAIN Rcpts[s] :
    Rcpts[s][k] \notin Domestic => sentCopies[s] <= copies[s][Rcpts[s][k]]

(* "Sender verification must have been enforced in Mail() already": on the *)
(* submission ports whoever has an outside recipient accepted sends as     *)
(* himself.  On the inbound port AUTH may follow MAIL, and then the sender *)
(* was not compared (Mail, Rcpt, Auth).                                    *)
SenderVerified ==
  \A s \in Sessions :
    externals[s] # <<>> => authed[s] /\ (from[s] = "own" \/ mode[s] = "inbound")

(* What a session says of itself holds in every order of its commands: the *)
(* copy in Sent, and the sender of what goes outside (Mail, Rcpt, Data,    *)
(* Auth, Reset).                                                           *)
SubmissionInv == TypeOK /\ SentIsTrue /\ SenderVerified
=============================================================================
