------------------------------ MODULE Outbound ------------------------------
(***************************************************************************)
(* The outbound delivery queue: package internal/outbound (Manager) over   *)
(* the outbound_messages table (store/outbound_store.go).                  *)
(*                                                                         *)
(* One dispatcher goroutine scans the table, claims due rows and hands     *)
(* snapshot copies of them to a pool of workers over a buffered channel.   *)
(* A worker delivers its copy to the remote server and saves the whole     *)
(* copy over the row.  Administrators retry and cancel rows concurrently,  *)
(* the process may crash and restart, and a write to the table may fail.   *)
(*                                                                         *)
(* A row is reduced to the columns that steer the queue: status, attempts  *)
(* and whether next_attempt_at has been reached.                           *)
(***************************************************************************)
EXTENDS Naturals, Sequences, FiniteSets

CONSTANTS
  Items,           \* primary keys of outbound_messages rows
  Workers,         \* worker goroutines (cfg.Workers)
  Admins,          \* concurrent admin requests to cancel
  Addrs,           \* recipient addresses
  ToAddr,          \* OutboundMessage.ToAddr of each row
  LocalSenders,    \* rows whose FromAddr is a local user (bounce target)
  MaxAttempts,     \* cfg.MaxAttempts
  BatchSize,       \* cfg.BatchSize: rows per scan and capacity of the channel
  PerAddrLimit,    \* cfg.MaxConcurrentPerDomain; 0 means unlimited
  MaxHosts,        \* bound: MX hosts a lookup returns
  MaxRetries,      \* bound: admin retries of one row
  MaxCrashes,      \* bound: process crashes
  DBMayFail,       \* may a write to the table or the inbox fail?
  MayStop          \* may Manager.Stop be called?

ASSUME QueueAssumption ==
  /\ IsFiniteSet(Workers) /\ Workers # {}
  /\ ToAddr \in [Items -> Addrs]
  /\ LocalSenders \subseteq Items
  /\ MaxAttempts \in Nat \ {0}
  /\ BatchSize \in Nat \ {0}
  /\ PerAddrLimit \in Nat
  /\ MaxHosts \in Nat \ {0}
  /\ MaxRetries \in Nat
  /\ MaxCrashes \in Nat
  /\ DBMayFail \in BOOLEAN
  /\ MayStop \in BOOLEAN

VARIABLES
  rows,        \* table outbound_messages
  dpc,         \* where the dispatcher goroutine is
  batch,       \* rows listed by the current scan and not yet looked at
  hand,        \* the claimed copy the dispatcher is sending to the channel
  jobs,        \* channel m.jobs
  closed,      \* m.jobs has been closed
  stopping,    \* m.stop has been closed
  kick,        \* channel m.kick holds a token
  wpc,         \* where each worker goroutine is
  item,        \* the copy each worker works on
  mx,          \* MX hosts the worker has not tried yet
  reply,       \* what m.deliver returned to the worker
  sem,         \* m.dom: the workers holding a slot of each semaphore
  cancels      \* the copy each cancel request has read (at most one)

(***************************************************************************)
(* The world outside the process, and history the properties refer to.     *)
(***************************************************************************)
VARIABLES
  accepted,    \* copies of the message the remote side has accepted
  inbox,       \* non-delivery notices in the sender's INBOX
  lost,        \* acceptances whose final reply never arrived
  retries,     \* admin retries of the row
  overlapped,  \* rows retried while a claimed copy was in flight
  faulted,     \* rows whose claimed copy a crash or a failed write dropped
  unbounced,   \* rows whose non-delivery notice was dropped
  crashes      \* crashes so far

dispVars == <<dpc, batch, hand>>
chanVars == <<jobs, closed, stopping>>
workVars == <<wpc, item, mx, reply, sem>>
histVars == <<accepted, inbox, lost, retries, overlapped, faulted, unbounced,
              crashes>>
vars == <<rows, dispVars, chanVars, kick, workVars, cancels, histVars>>

-----------------------------------------------------------------------------
Status == {"absent", "pending", "sending", "sent", "deferred", "failed",
           "canceled"}
\* Mutant: rows already delivered are listed and claimed again.
Claimable_Sent == {"pending", "deferred", "sent"}
Claimable == {"pending", "deferred"}
Terminal == {"sent", "failed", "canceled"}

\* A row; "absent" stands for a row not yet inserted. due: next_attempt_at <= now.
Row == [status : Status, attempts : Nat, due : BOOLEAN]

\* A copy of a row in memory (*db.OutboundMessage).
Copy == [id : Items, attempts : Nat]
NoCopy == [id |-> "none", attempts |-> 0]
CopyOf(i) == [id |-> i, attempts |-> rows[i].attempts]

\* Between acquireDomain and the deferred release.
InsideSlot == {"lookup", "connect", "save", "bounce"}
WorkerPC == {"idle", "acquire", "exited"} \union InsideSlot
Busy(w) == wpc[w] \notin {"idle", "exited"}

Replies == {"none", "ok", "temp", "perm"}

\* The rows a claimed and not yet saved copy exists of: with the dispatcher, in
\* the channel or with a worker.
InHand == {c.id : c \in hand}
InChannel == {jobs[k].id : k \in 1..Len(jobs)}
Working == {w \in Workers : wpc[w] \in {"acquire", "lookup", "connect", "save"}}
AtWork == {item[w].id : w \in Working}
Held == InHand \union InChannel \union AtWork

Init ==
  /\ rows = [i \in Items |-> [status |-> "absent", attempts |-> 0, due |-> TRUE]]
  /\ dpc = "processDue" /\ batch = {} /\ hand = {}
  /\ jobs = <<>> /\ closed = FALSE /\ stopping = FALSE
  /\ kick = FALSE
  /\ wpc = [w \in Workers |-> "idle"]
  /\ item = [w \in Workers |-> NoCopy]
  /\ mx = [w \in Workers |-> 0]
  /\ reply = [w \in Workers |-> "none"]
  /\ sem = [a \in Addrs |-> {}]
  /\ cancels = [a \in Admins |-> {}]
  /\ accepted = [i \in Items |-> 0]
  /\ inbox = [i \in Items |-> 0]
  /\ lost = [i \in Items |-> 0]
  /\ retries = [i \in Items |-> 0]
  /\ overlapped = {} /\ faulted = {} /\ unbounced = {}
  /\ crashes = 0

-----------------------------------------------------------------------------
(* Manager.Enqueue: insert a pending row that is due at once and nudge the *)
(* dispatcher; the token is dropped when the channel already holds one.    *)
Enqueue(i) ==
  /\ rows[i].status = "absent"
  /\ rows' = [rows EXCEPT ![i] = [status |-> "pending", attempts |-> 0, due |-> TRUE]]
  /\ kick' = TRUE
  /\ UNCHANGED <<dispVars, chanVars, workVars, cancels, histVars>>

\* Time passes: next_attempt_at of a deferred row is reached.
BackoffElapses(i) ==
  /\ rows[i].status = "deferred" /\ ~rows[i].due
  /\ rows' = [rows EXCEPT ![i].due = TRUE]
  /\ UNCHANGED <<dispVars, chanVars, kick, workVars, cancels, histVars>>

-----------------------------------------------------------------------------
(* The dispatcher goroutine of Manager.Start: the three branches of its    *)
(* select, and processDue.                                                 *)
Tick ==
  /\ dpc = "select"
  /\ dpc' = "processDue"
  /\ UNCHANGED <<rows, batch, hand, chanVars, kick, workVars, cancels, histVars>>

TakeKick ==
  /\ dpc = "select" /\ kick
  /\ kick' = FALSE
  /\ dpc' = "processDue"
  /\ UNCHANGED <<rows, batch, hand, chanVars, workVars, cancels, histVars>>

\* Mutant: the dispatcher returns without closing the channel.
TakeStop_LeavesOpen ==
  /\ dpc = "select" /\ stopping
  /\ dpc' = "stopped"
  /\ UNCHANGED <<rows, batch, hand, chanVars, kick, workVars, cancels, histVars>>

TakeStop ==
  /\ dpc = "select" /\ stopping
  /\ dpc' = "stopped"
  /\ closed' = TRUE
  /\ UNCHANGED <<rows, batch, hand, jobs, stopping, kick, workVars, cancels, histVars>>

DueRows == {i \in Items : rows[i].status \in Claimable /\ rows[i].due}

\* ListDue: at most BatchSize due rows. The order by next_attempt_at is
\* abstracted: any choice of rows, looked at in any order.
ListDue ==
  /\ dpc = "processDue"
  /\ \E S \in SUBSET DueRows :
       /\ Cardinality(S) <= BatchSize
       /\ Cardinality(S) < BatchSize => S = DueRows
       /\ batch' = {CopyOf(i) : i \in S}
  /\ dpc' = "claiming"
  /\ UNCHANGED <<rows, hand, chanVars, kick, workVars, cancels, histVars>>

\* ListDue returns an error: the scan is given up.
ListDueFails ==
  /\ DBMayFail
  /\ dpc = "processDue"
  /\ dpc' = "select"
  /\ UNCHANGED <<rows, batch, hand, chanVars, kick, workVars, cancels, histVars>>

\* Mutant: the row is not marked as claimed.
Claim_Unmarked(c) ==
  /\ dpc = "claiming" /\ c \in batch
  /\ rows[c.id].status \in Claimable
  /\ batch' = batch \ {c}
  /\ hand' = {c}
  /\ dpc' = "handoff"
  /\ UNCHANGED <<rows, chanVars, kick, workVars, cancels, histVars>>

\* The conditional UPDATE of Store.Claim touches the row as it is now; the
\* copy handed on is the one ListDue read.
Claim(c) ==
  /\ dpc = "claiming" /\ c \in batch
  /\ rows[c.id].status \in Claimable
  /\ rows' = [rows EXCEPT ![c.id].status = "sending"]
  /\ batch' = batch \ {c}
  /\ hand' = {c}
  /\ dpc' = "handoff"
  /\ UNCHANGED <<chanVars, kick, workVars, cancels, histVars>>

\* Claim fails with an error, or matches no row: continue with the next one.
SkipUnclaimed(c) ==
  /\ dpc = "claiming" /\ c \in batch
  /\ DBMayFail \/ rows[c.id].status \notin Claimable
  /\ batch' = batch \ {c}
  /\ UNCHANGED <<rows, dpc, hand, chanVars, kick, workVars, cancels, histVars>>

\* m.jobs <- &item blocks while the buffer is full.
Handoff ==
  /\ dpc = "handoff"
  /\ Len(jobs) < BatchSize
  /\ \E c \in hand : jobs' = Append(jobs, c)
  /\ hand' = {}
  /\ dpc' = "claiming"
  /\ UNCHANGED <<rows, batch, closed, stopping, kick, workVars, cancels, histVars>>

\* Mutant: a kick that arrived during the scan is drained.
ScanDone_DrainsKick ==
  /\ dpc = "claiming" /\ batch = {}
  /\ dpc' = "select"
  /\ kick' = FALSE
  /\ UNCHANGED <<rows, batch, hand, chanVars, workVars, cancels, histVars>>

ScanDone ==
  /\ dpc = "claiming" /\ batch = {}
  /\ dpc' = "select"
  /\ UNCHANGED <<rows, batch, hand, chanVars, kick, workVars, cancels, histVars>>

\* Manager.Stop closes m.stop (once).
Stop ==
  /\ MayStop /\ ~stopping
  /\ stopping' = TRUE
  /\ UNCHANGED <<rows, dispVars, jobs, closed, kick, workVars, cancels, histVars>>

-----------------------------------------------------------------------------
(* A worker goroutine: for job := range m.jobs { m.deliverOne(job) }.      *)
TakeJob(w) ==
  /\ wpc[w] = "idle" /\ jobs # <<>>
  /\ item' = [item EXCEPT ![w] = Head(jobs)]
  /\ jobs' = Tail(jobs)
  /\ wpc' = [wpc EXCEPT ![w] = "acquire"]
  /\ UNCHANGED <<rows, dispVars, closed, stopping, kick, mx, reply, sem, cancels, histVars>>

\* Mutant: a worker leaves as soon as the channel is closed.
ExitWorker_Early(w) ==
  /\ wpc[w] = "idle" /\ closed
  /\ wpc' = [wpc EXCEPT ![w] = "exited"]
  /\ UNCHANGED <<rows, dispVars, chanVars, kick, item, mx, reply, sem, cancels, histVars>>

\* The channel is closed and drained.
ExitWorker(w) ==
  /\ wpc[w] = "idle" /\ jobs = <<>> /\ closed
  /\ wpc' = [wpc EXCEPT ![w] = "exited"]
  /\ UNCHANGED <<rows, dispVars, chanVars, kick, item, mx, reply, sem, cancels, histVars>>

\* The key deliverOne passes to acquireDomain.
SlotKey(c) == ToAddr[c.id]

\* acquireDomain: take a slot, or go on without one when there is no limit.
AcquireSlot(w) ==
  LET key == SlotKey(item[w]) IN
  /\ wpc[w] = "acquire"
  /\ \/ PerAddrLimit = 0 /\ UNCHANGED sem
     \/ /\ PerAddrLimit > 0
        /\ Cardinality(sem[key]) < PerAddrLimit
        /\ sem' = [sem EXCEPT ![key] = @ \union {w}]
  /\ wpc' = [wpc EXCEPT ![w] = "lookup"]
  /\ UNCHANGED <<rows, dispVars, chanVars, kick, item, mx, reply, cancels, histVars>>

\* m.deliver has returned r: deliverOne counts the attempt.
Return(w, r) ==
  /\ wpc' = [wpc EXCEPT ![w] = "save"]
  /\ item' = [item EXCEPT ![w].attempts = @ + 1]
  /\ mx' = [mx EXCEPT ![w] = 0]
  /\ reply' = [reply EXCEPT ![w] = r]

\* Mailer.Deliver resolves the MX hosts (a relay is a single host).
LookupMX(w) ==
  /\ wpc[w] = "lookup"
  /\ \/ \E n \in 1..MaxHosts :
          /\ mx' = [mx EXCEPT ![w] = n]
          /\ wpc' = [wpc EXCEPT ![w] = "connect"]
          /\ UNCHANGED <<item, reply>>
     \/ \E r \in {"temp", "perm"} : Return(w, r)
  /\ UNCHANGED <<rows, dispVars, chanVars, kick, sem, cancels, histVars>>

\* One SMTP transaction succeeds.
HostAccepts(w) ==
  /\ wpc[w] = "connect"
  /\ accepted' = [accepted EXCEPT ![item[w].id] = @ + 1]
  /\ Return(w, "ok")
  /\ UNCHANGED <<rows, dispVars, chanVars, kick, sem, cancels, inbox, lost, retries,
                 overlapped, faulted, unbounced, crashes>>

\* A 5xx answer: no other host is tried.
HostRejects(w) ==
  /\ wpc[w] = "connect"
  /\ Return(w, "perm")
  /\ UNCHANGED <<rows, dispVars, chanVars, kick, sem, cancels, histVars>>

\* A temporary error moves on to the next host, if there is one.
NextHost(w) ==
  IF mx[w] > 1
  THEN mx' = [mx EXCEPT ![w] = @ - 1] /\ UNCHANGED <<wpc, item, reply>>
  ELSE Return(w, "temp")

HostDefers(w) ==
  /\ wpc[w] = "connect"
  /\ NextHost(w)
  /\ UNCHANGED <<rows, dispVars, chanVars, kick, sem, cancels, histVars>>

\* The host has taken the message but its reply to the final dot is lost: for
\* the mailer this is a temporary error like any other.
ReplyLost(w) ==
  /\ wpc[w] = "connect"
  /\ accepted' = [accepted EXCEPT ![item[w].id] = @ + 1]
  /\ lost' = [lost EXCEPT ![item[w].id] = @ + 1]
  /\ NextHost(w)
  /\ UNCHANGED <<rows, dispVars, chanVars, kick, sem, cancels, inbox, retries,
                 overlapped, faulted, unbounced, crashes>>

\* Mutant: the slot is not released.
Finish_KeepsSlot(w) ==
  /\ wpc' = [wpc EXCEPT ![w] = "idle"]
  /\ item' = [item EXCEPT ![w] = NoCopy]
  /\ reply' = [reply EXCEPT ![w] = "none"]
  /\ UNCHANGED sem

\* deliverOne returns: the deferred release, and back to the channel.
Finish(w) ==
  /\ wpc' = [wpc EXCEPT ![w] = "idle"]
  /\ item' = [item EXCEPT ![w] = NoCopy]
  /\ reply' = [reply EXCEPT ![w] = "none"]
  /\ sem' = [sem EXCEPT ![SlotKey(item[w])] = @ \ {w}]

GivesUp(w) == reply[w] = "perm" \/ item[w].attempts >= MaxAttempts

\* Outbound.Update(item): the full copy overwrites the row, whatever the row
\* has become meanwhile.
Saved(w, st) ==
  rows' = [rows EXCEPT ![item[w].id] =
             [status |-> st, attempts |-> item[w].attempts, due |-> st # "deferred"]]

SaveSent(w) ==
  /\ wpc[w] = "save" /\ reply[w] = "ok"
  /\ Saved(w, "sent")
  /\ Finish(w)
  /\ UNCHANGED <<dispVars, chanVars, kick, mx, cancels, histVars>>

\* Mutant: a temporary failure is not saved.
SaveDeferred_Unsaved(w) ==
  /\ wpc[w] = "save" /\ reply[w] # "ok" /\ ~GivesUp(w)
  /\ Finish(w)
  /\ UNCHANGED <<rows, dispVars, chanVars, kick, mx, cancels, histVars>>

\* Mutant: a delivered message may be put back into the queue.
SaveDeferred_Delivered(w) ==
  /\ wpc[w] = "save" /\ ~GivesUp(w)
  /\ Saved(w, "deferred")
  /\ Finish(w)
  /\ UNCHANGED <<dispVars, chanVars, kick, mx, cancels, histVars>>

SaveDeferred(w) ==
  /\ wpc[w] = "save" /\ reply[w] # "ok" /\ ~GivesUp(w)
  /\ Saved(w, "deferred")
  /\ Finish(w)
  /\ UNCHANGED <<dispVars, chanVars, kick, mx, cancels, histVars>>

\* Mutant: no notice is written.
SaveFailed_Silent(w) ==
  /\ wpc[w] = "save" /\ reply[w] # "ok" /\ GivesUp(w)
  /\ Saved(w, "failed")
  /\ Finish(w)
  /\ UNCHANGED <<dispVars, chanVars, kick, mx, cancels, histVars>>

\* Mutant: the last attempt counts as failed even if it succeeded.
SaveFailed_LastAttempt(w) ==
  /\ wpc[w] = "save" /\ GivesUp(w)
  /\ Saved(w, "failed")
  /\ wpc' = [wpc EXCEPT ![w] = "bounce"]
  /\ UNCHANGED <<dispVars, chanVars, kick, item, mx, reply, sem, cancels, histVars>>

SaveFailed(w) ==
  /\ wpc[w] = "save" /\ reply[w] # "ok" /\ GivesUp(w)
  /\ Saved(w, "failed")
  /\ wpc' = [wpc EXCEPT ![w] = "bounce"]
  /\ UNCHANGED <<dispVars, chanVars, kick, item, mx, reply, sem, cancels, histVars>>

\* Update returns an error: it is logged and the row keeps what it has.
SaveError(w) ==
  /\ DBMayFail
  /\ wpc[w] = "save"
  /\ faulted' = faulted \union {item[w].id}
  /\ Finish(w)
  /\ UNCHANGED <<rows, dispVars, chanVars, kick, mx, cancels, accepted, inbox, lost,
                 retries, overlapped, unbounced, crashes>>

\* bounce: a notice for a local sender, or nothing.
Bounce(w) ==
  LET i == item[w].id IN
  /\ wpc[w] = "bounce"
  /\ \/ /\ i \in LocalSenders
        /\ inbox' = [inbox EXCEPT ![i] = @ + 1]
        /\ UNCHANGED unbounced
     \/ /\ i \notin LocalSenders
        /\ UNCHANGED <<inbox, unbounced>>
     \/ /\ DBMayFail
        /\ unbounced' = unbounced \union {i}
        /\ UNCHANGED inbox
  /\ Finish(w)
  /\ UNCHANGED <<rows, dispVars, chanVars, kick, mx, cancels, accepted, lost, retries,
                 overlapped, faulted, crashes>>

-----------------------------------------------------------------------------
(* Manager.Retry: every column that matters is overwritten, whatever was   *)
(* read, so reading and saving are one step; the status is not checked.    *)
Retry(i) ==
  /\ rows[i].status # "absent"
  /\ retries[i] < MaxRetries
  /\ rows' = [rows EXCEPT ![i] = [status |-> "pending", attempts |-> 0, due |-> TRUE]]
  /\ kick' = TRUE
  /\ retries' = [retries EXCEPT ![i] = @ + 1]
  /\ overlapped' = IF i \in Held THEN overlapped \union {i} ELSE overlapped
  /\ UNCHANGED <<dispVars, chanVars, workVars, cancels, accepted, inbox, lost, faulted,
                 unbounced, crashes>>

\* Manager.Cancel reads the row and refuses a sent one ...
CancelRead(a, i) ==
  /\ cancels[a] = {}
  /\ rows[i].status \notin {"absent", "sent"}
  /\ cancels' = [cancels EXCEPT ![a] = {CopyOf(i)}]
  /\ UNCHANGED <<rows, dispVars, chanVars, kick, workVars, histVars>>

\* ... then saves its copy as canceled, whatever the row has become.
CancelSave(a) ==
  /\ \E c \in cancels[a] :
       \/ rows' = [rows EXCEPT ![c.id] =
                    [status |-> "canceled", attempts |-> c.attempts, due |-> TRUE]]
       \/ DBMayFail /\ UNCHANGED rows
  /\ cancels' = [cancels EXCEPT ![a] = {}]
  /\ UNCHANGED <<dispVars, chanVars, kick, workVars, histVars>>

-----------------------------------------------------------------------------
(* The process dies and is started again (main.go): everything in memory   *)
(* is lost, the table stays, and Start scans at once. Nothing resets rows  *)
(* left in "sending".                                                      *)
Crash ==
  /\ crashes < MaxCrashes
  /\ crashes' = crashes + 1
  /\ faulted' = faulted \union Held
  /\ unbounced' = unbounced \union {item[w].id : w \in {v \in Workers : wpc[v] = "bounce"}}
  /\ dpc' = "processDue" /\ batch' = {} /\ hand' = {}
  /\ jobs' = <<>> /\ closed' = FALSE /\ stopping' = FALSE /\ kick' = FALSE
  /\ wpc' = [w \in Workers |-> "idle"]
  /\ item' = [w \in Workers |-> NoCopy]
  /\ mx' = [w \in Workers |-> 0]
  /\ reply' = [w \in Workers |-> "none"]
  /\ sem' = [a \in Addrs |-> {}]
  /\ cancels' = [a \in Admins |-> {}]
  /\ UNCHANGED <<rows, accepted, inbox, lost, retries, overlapped>>

-----------------------------------------------------------------------------
Dispatcher ==
  \/ Tick \/ TakeKick \/ TakeStop \/ ListDue \/ ListDueFails
  \/ \E c \in batch : Claim(c) \/ SkipUnclaimed(c)
  \/ Handoff \/ ScanDone

Attempt(w) == HostAccepts(w) \/ HostRejects(w) \/ HostDefers(w) \/ ReplyLost(w)
Save(w) == SaveSent(w) \/ SaveDeferred(w) \/ SaveFailed(w) \/ SaveError(w)
Worker(w) ==
  \/ TakeJob(w) \/ ExitWorker(w) \/ AcquireSlot(w) \/ LookupMX(w)
  \/ Attempt(w) \/ Save(w) \/ Bounce(w)

Environment ==
  \/ \E i \in Items : Enqueue(i) \/ BackoffElapses(i) \/ Retry(i)
  \/ \E a \in Admins : CancelSave(a) \/ \E i \in Items : CancelRead(a, i)
  \/ Stop \/ Crash

Next == Dispatcher \/ (\E w \in Workers : Worker(w)) \/ Environment

Spec == Init /\ [][Next]_vars

(***************************************************************************)
(* Fairness. Go's select picks among ready branches at random, so a ready  *)
(* branch is not passed over for ever (strong fairness of TakeKick and     *)
(* TakeStop); goroutines that can run do; a sender blocked on a semaphore  *)
(* gets a slot in FIFO order, hence strong fairness of AcquireSlot.  That  *)
(* an SMTP transaction ends is an assumption on the remote host: after the *)
(* dial the mailer sets no deadline.  Requests, stops and crashes are not  *)
(* fair, and neither is time: a property that needs it assumes TimePasses. *)
(***************************************************************************)
Fairness ==
  /\ WF_vars(ListDue)
  /\ WF_vars(\E c \in batch : Claim(c) \/ SkipUnclaimed(c))
  /\ WF_vars(Handoff) /\ WF_vars(ScanDone)
  /\ SF_vars(TakeKick) /\ SF_vars(TakeStop)
  /\ \A w \in Workers :
       /\ WF_vars(TakeJob(w)) /\ WF_vars(ExitWorker(w)) /\ SF_vars(AcquireSlot(w))
       /\ WF_vars(LookupMX(w)) /\ WF_vars(Attempt(w))
       /\ WF_vars(Save(w)) /\ WF_vars(Bounce(w))

FairSpec == Spec /\ Fairness

\* The ticker keeps firing and backoffs elapse.
TimePasses == WF_vars(Tick) /\ \A i \in Items : WF_vars(BackoffElapses(i))
=============================================================================
