------------------------- MODULE OutboundProperties -------------------------
(***************************************************************************)
(* What the outbound queue is meant to guarantee.                          *)
(***************************************************************************)
EXTENDS Outbound

\* Every variable has its type.
TableType ==
  /\ rows \in [Items -> Row]
  /\ cancels \in [Admins -> SUBSET Copy]
DispatcherType ==
  /\ dpc \in {"processDue", "claiming", "handoff", "select", "stopped"}
  /\ batch \in SUBSET Copy
  /\ hand \in SUBSET Copy
ChannelType ==
  /\ jobs \in Seq(Copy)
  /\ closed \in BOOLEAN /\ stopping \in BOOLEAN /\ kick \in BOOLEAN
WorkerType ==
  /\ wpc \in [Workers -> WorkerPC]
  /\ item \in [Workers -> Copy \union {NoCopy}]
  /\ \A w \in Workers : Busy(w) => item[w] \in Copy
  /\ mx \in [Workers -> Nat]
  /\ reply \in [Workers -> Replies]
  /\ sem \in [Addrs -> SUBSET Workers]
HistoryType ==
  /\ accepted \in [Items -> Nat] /\ inbox \in [Items -> Nat]
  /\ lost \in [Items -> Nat] /\ retries \in [Items -> Nat]
  /\ overlapped \in SUBSET Items /\ faulted \in SUBSET Items
  /\ unbounced \in SUBSET Items
  /\ crashes \in Nat
TypeOK == TableType /\ DispatcherType /\ ChannelType /\ WorkerType /\ HistoryType

-----------------------------------------------------------------------------
(* A row in "sending" is being worked on: some claimed copy of it is with  *)
(* the dispatcher, in the channel or with a worker, unless a crash or a    *)
(* failed write dropped the copy.  Nothing ever lists a "sending" row, so  *)
(* a row for which this fails is stuck (Claim, deliverOne).                *)
SendingIsHeld ==
  \A i \in Items : rows[i].status = "sending" => i \in Held \union faulted

(* Claim is exclusive: as long as no retry hit a row in flight, there is   *)
(* at most one claimed copy of it, and while there is one the row cannot   *)
(* be claimed again (Store.Claim, processDue).                             *)
SoleCopy(i) ==
  /\ i \in InHand => i \notin InChannel \union AtWork
  /\ i \in InChannel => i \notin AtWork
  /\ \A k, l \in 1..Len(jobs) : jobs[k].id = i /\ jobs[l].id = i => k = l
  /\ \A v, w \in Working : item[v].id = i /\ item[w].id = i => v = w
ExclusiveClaim ==
  \A i \in Held \ overlapped : SoleCopy(i) /\ rows[i].status \notin Claimable

(* What the two above rest on: the dispatcher holds a copy exactly while   *)
(* it sends it, and only rows that exist are held.                         *)
HandInv ==
  IF dpc = "handoff" THEN \E c \in hand : hand = {c} ELSE hand = {}
HeldExists == \A i \in Held : rows[i].status # "absent"
ClaimInv == HandInv /\ HeldExists /\ SendingIsHeld /\ ExclusiveClaim

\* The workers between acquireDomain and the deferred release for address a.
Inside(a) == {w \in Workers : wpc[w] \in InsideSlot /\ ToAddr[item[w].id] = a}

(* No slot leaks: a semaphore holds exactly the workers between acquiring  *)
(* and releasing it, on every way out of deliverOne.                       *)
SlotsExact ==
  \A a \in Addrs : sem[a] = IF PerAddrLimit = 0 THEN {} ELSE Inside(a)

(* The limit as the code keeps it: at most PerAddrLimit workers deliver to *)
(* one recipient address at a time (acquireDomain, deliverOne).            *)
SlotLimit ==
  PerAddrLimit > 0 => \A a \in Addrs : Cardinality(Inside(a)) <= PerAddrLimit

(* A row waiting for another attempt has attempts left, and no copy or     *)
(* overwritten row ever counts beyond the budget (deliverOne, Cancel).     *)
AttemptBudget ==
  /\ \A i \in Items :
       /\ rows[i].attempts <= MaxAttempts
       /\ rows[i].status \in Claimable => rows[i].attempts < MaxAttempts
  /\ \A w \in Workers : Busy(w) => item[w].attempts <= MaxAttempts

(* "sent" is the truth: the remote side has accepted the message, however  *)
(* retries, cancels and other workers interleave (deliverOne).             *)
SentWasAccepted ==
  \A i \in Items : rows[i].status = "sent" => accepted[i] > 0

(* Every failed message of a local sender is reported to the sender: the   *)
(* notice is in the INBOX or a worker is about to write it, unless a crash *)
(* or a failed write came between saving the row and writing the notice.   *)
FailureIsReported ==
  \A i \in LocalSenders :
    rows[i].status = "failed" =>
      \/ inbox[i] > 0 \/ i \in unbounced
      \/ \E w \in Workers : wpc[w] = "bounce" /\ item[w].id = i

(* A notice tells the truth: a message reported as undeliverable was not   *)
(* accepted, unless the remote reply got lost or an admin retried the row. *)
HonestBounce ==
  \A i \in Items : inbox[i] > 0 /\ accepted[i] > 0 => lost[i] > 0 \/ retries[i] > 0

(* A delivered message stays delivered: only a retry, a copy that a retry  *)
(* put in flight, or a cancel that read the row before it was sent may     *)
(* overwrite "sent" (deliverOne, Cancel, Retry).                           *)
SentIsKept ==
  [][\A i \in Items :
       rows[i].status = "sent" /\ rows'[i].status # "sent" =>
         \/ retries'[i] > retries[i] \/ i \in overlapped
         \/ \E a \in Admins : cancels'[a] = {} /\ \E c \in cancels[a] : c.id = i]_vars

-----------------------------------------------------------------------------
(* Every queued message is settled: sent, failed or canceled, as time      *)
(* passes and unless the server stops (no crash, no failing writes).       *)
EventuallySettled ==
  TimePasses =>
    \A i \in Items :
      rows[i].status # "absent" ~> rows[i].status \in Terminal \/ stopping

(* A kick is not lost: a freshly queued row is picked up even if the       *)
(* ticker never fires, whenever it arrives relative to a running scan, as  *)
(* long as a scan takes all the due rows (Enqueue, Start, ListDue).        *)
KickSuffices ==
  [](Cardinality(DueRows) <= BatchSize) =>
    \A i \in Items :
      rows[i].status = "pending" ~> rows[i].status # "pending" \/ stopping

(* Stop ends: every worker exits, after the claimed copies are worked off. *)
StopCompletes == stopping ~> (\A w \in Workers : wpc[w] = "exited")

(* A graceful stop leaves nothing behind: once every worker has exited and *)
(* no copy was dropped, no row is in "sending".                            *)
CleanStop ==
  (\A w \in Workers : wpc[w] = "exited") /\ faulted = {} =>
    \A i \in Items : rows[i].status # "sending"

-----------------------------------------------------------------------------
Queued(i) == IF rows[i].status = "absent" THEN 0 ELSE 1

(* The queue implements the Ledger: remote copies are bounded by one plus  *)
(* the retries plus the lost replies of the message.                       *)
LedgerOf == INSTANCE Ledger WITH
              licences <- [i \in Items |-> Queued(i) + retries[i] + lost[i]],
              copies <- accepted
LedgerSpec == LedgerOf!Spec
=============================================================================
