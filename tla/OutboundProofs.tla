--------------------------- MODULE OutboundProofs ---------------------------
(***************************************************************************)
(* Proofs about the outbound queue, for any number of rows, workers and    *)
(* administrators, any limits, and any crashes and failing writes: first   *)
(* the types and the claims, then the delivery slots, the outcome that is  *)
(* recorded, the notices, and the refinement of Ledger.                    *)
(***************************************************************************)
EXTENDS OutboundProperties, FiniteSetTheorems, FunctionTheorems, TLAPS

\* An empty channel is a sequence of copies (Stop, Crash, Init).
LEMMA EmptyJobs == <<>> \in Seq(Copy)
  OBVIOUS

\* A freshly started Manager has well-typed variables (NewManager).
LEMMA InitTypes == Init => TypeOK
<1> SUFFICES ASSUME Init PROVE TypeOK
  OBVIOUS
<1> USE DEF Init
<1>1. TableType
  BY DEF TableType, Row, Status
<1>2. DispatcherType
  BY DEF DispatcherType
<1>3. ChannelType
  BY EmptyJobs DEF ChannelType
<1>4. WorkerType
  BY DEF WorkerType, WorkerPC, Busy, Replies
<1>5. HistoryType
  BY DEF HistoryType
<1>6. QED
  BY <1>1, <1>2, <1>3, <1>4, <1>5 DEF TypeOK

\* The dispatcher goroutine preserves the types (Start, processDue).
LEMMA DispatcherTypes == TypeOK /\ Dispatcher => TypeOK'
<1> SUFFICES ASSUME TypeOK, Dispatcher PROVE TypeOK'
  OBVIOUS
<1> USE DEF TypeOK
<1>1. WorkerType' /\ HistoryType'
  BY DEF Dispatcher, WorkerType, HistoryType, Busy, workVars, histVars, Tick, TakeKick,
     TakeStop, ListDueFails, ScanDone, ListDue, Claim, SkipUnclaimed, Handoff
<1>2. CASE Tick \/ TakeKick \/ TakeStop \/ ListDueFails \/ ScanDone
  BY <1>1, <1>2 DEF Tick, TakeKick, TakeStop, ListDueFails, ScanDone, TableType,
     DispatcherType, ChannelType, chanVars
<1>3. CASE ListDue
  <2>1. \A i \in Items : CopyOf(i) \in Copy
    BY DEF TableType, CopyOf, Copy, Row
  <2>2. QED
    BY <1>1, <1>3, <2>1 DEF ListDue, DueRows, TableType, DispatcherType, ChannelType, chanVars
<1>4. ASSUME NEW c \in batch, Claim(c) PROVE TypeOK'
  <2>1. c.id \in Items
    BY DEF DispatcherType, Copy
  <2>2. TableType'
    BY <1>4, <2>1 DEF Claim, TableType, Row, Status
  <2>3. QED
    BY <1>1, <1>4, <2>2 DEF Claim, DispatcherType, ChannelType, chanVars
<1>5. ASSUME NEW c \in batch, SkipUnclaimed(c) PROVE TypeOK'
  BY <1>1, <1>5 DEF SkipUnclaimed, TableType, DispatcherType, ChannelType, chanVars
<1>6. CASE Handoff
  BY <1>1, <1>6 DEF Handoff, TableType, DispatcherType, ChannelType
<1>7. QED
  BY <1>2, <1>3, <1>4, <1>5, <1>6 DEF Dispatcher

\* A worker goroutine preserves the types (deliverOne).
LEMMA WorkerTypes == ASSUME TypeOK, NEW w \in Workers, Worker(w) PROVE TypeOK'
<1> USE DEF TypeOK
<1>1. DispatcherType'
  BY DEF Worker, DispatcherType, dispVars, TakeJob, ExitWorker, AcquireSlot, LookupMX,
     Attempt, HostAccepts, HostRejects, HostDefers, ReplyLost, Save, SaveSent, SaveDeferred,
     SaveFailed, SaveError, Bounce
<1>2. CASE TakeJob(w)
  <2>1. Head(jobs) \in Copy /\ Tail(jobs) \in Seq(Copy)
    BY <1>2 DEF TakeJob, ChannelType
  <2>2. WorkerType'
    BY <1>2, <2>1 DEF TakeJob, WorkerType, WorkerPC, Busy
  <2>3. QED
    BY <1>1, <1>2, <2>1, <2>2 DEF TakeJob, TableType, ChannelType, HistoryType, histVars
<1>3. CASE ExitWorker(w)
  <2>1. WorkerType'
    BY <1>3 DEF ExitWorker, WorkerType, WorkerPC, Busy
  <2>2. QED
    BY <1>1, <1>3, <2>1 DEF ExitWorker, TableType, ChannelType, HistoryType, chanVars, histVars
<1>4. CASE AcquireSlot(w)
  <2>1. WorkerType'
    BY <1>4 DEF AcquireSlot, WorkerType, WorkerPC, InsideSlot, Busy
  <2>2. QED
    BY <1>1, <1>4, <2>1 DEF AcquireSlot, TableType, ChannelType, HistoryType, chanVars, histVars
<1>5. ASSUME NEW r \in Replies, Busy(w), Return(w, r), UNCHANGED sem PROVE WorkerType'
  <2>1. [item[w] EXCEPT !.attempts = @ + 1] \in Copy
    BY <1>5 DEF WorkerType, Copy
  <2>2. QED
    BY <1>5, <2>1 DEF Return, WorkerType, WorkerPC, InsideSlot, Busy
<1>6. CASE LookupMX(w)
  <2>1. Busy(w)
    BY <1>6 DEF LookupMX, Busy
  <2>2. WorkerType'
    <3>1. ASSUME NEW n \in 1..MaxHosts, mx' = [mx EXCEPT ![w] = n],
                 wpc' = [wpc EXCEPT ![w] = "connect"], UNCHANGED <<item, reply, sem>>
          PROVE WorkerType'
      BY <2>1, <3>1, QueueAssumption DEF WorkerType, WorkerPC, InsideSlot, Busy
    <3>2. QED
      BY <1>5, <1>6, <2>1, <3>1 DEF LookupMX, Replies
  <2>3. QED
    BY <1>1, <1>6, <2>2 DEF LookupMX, TableType, ChannelType, HistoryType, chanVars, histVars
<1>7. CASE Attempt(w)
  <2>1. Busy(w) /\ item[w].id \in Items
    BY <1>7 DEF Attempt, HostAccepts, HostRejects, HostDefers, ReplyLost, Busy, WorkerType, Copy
  <2>2. ASSUME NextHost(w), UNCHANGED sem PROVE WorkerType'
    <3>1. CASE mx[w] > 1
      BY <2>2, <3>1 DEF NextHost, WorkerType, Busy
    <3>2. QED
      BY <1>5, <2>1, <2>2, <3>1 DEF NextHost, Replies
  <2>3. WorkerType'
    BY <1>5, <1>7, <2>1, <2>2 DEF Attempt, HostAccepts, HostRejects, HostDefers, ReplyLost, Replies
  <2>4. HistoryType'
    BY <1>7, <2>1 DEF Attempt, HostAccepts, HostRejects, HostDefers, ReplyLost, HistoryType, histVars
  <2>5. QED
    BY <1>1, <1>7, <2>3, <2>4 DEF Attempt, HostAccepts, HostRejects, HostDefers, ReplyLost,
       TableType, ChannelType, chanVars
<1>8. ASSUME Busy(w), Finish(w), UNCHANGED mx PROVE WorkerType'
  BY <1>8 DEF Finish, WorkerType, WorkerPC, Busy, Replies
<1>9. ASSUME Busy(w), NEW st \in Status, Saved(w, st), UNCHANGED cancels PROVE TableType'
  BY <1>9 DEF Saved, TableType, WorkerType, Copy, Row
<1>10. CASE Save(w)
  <2>1. Busy(w) /\ item[w].id \in Items
    BY <1>10 DEF Save, SaveSent, SaveDeferred, SaveFailed, SaveError, Busy, WorkerType, Copy
  <2>2. TableType'
    BY <1>9, <1>10, <2>1 DEF Save, SaveSent, SaveDeferred, SaveFailed, SaveError, Status, TableType
  <2>3. WorkerType'
    <3>1. CASE SaveFailed(w)
      BY <2>1, <3>1 DEF SaveFailed, WorkerType, WorkerPC, InsideSlot, Busy
    <3>2. QED
      BY <1>8, <1>10, <2>1, <3>1 DEF Save, SaveSent, SaveDeferred, SaveError
  <2>4. HistoryType' /\ ChannelType'
    BY <1>10, <2>1 DEF Save, SaveSent, SaveDeferred, SaveFailed, SaveError, HistoryType, histVars,
       ChannelType, chanVars
  <2>5. QED
    BY <1>1, <2>2, <2>3, <2>4
<1>11. CASE Bounce(w)
  <2>1. Busy(w) /\ item[w].id \in Items
    BY <1>11 DEF Bounce, Busy, WorkerType, Copy
  <2>2. WorkerType'
    BY <1>8, <1>11, <2>1 DEF Bounce
  <2>3. HistoryType'
    BY <1>11, <2>1 DEF Bounce, HistoryType
  <2>4. QED
    BY <1>1, <1>11, <2>2, <2>3 DEF Bounce, TableType, ChannelType, chanVars
<1>12. QED
  BY <1>2, <1>3, <1>4, <1>6, <1>7, <1>10, <1>11 DEF Worker

\* Only rows of the table are held: copies stem from ListDue (processDue).
LEMMA HeldAreItems == TypeOK => Held \subseteq Items
<1> SUFFICES ASSUME TypeOK PROVE Held \subseteq Items
  OBVIOUS
<1>1. InHand \subseteq Items
  BY DEF TypeOK, DispatcherType, InHand, Copy
<1>2. InChannel \subseteq Items
  <2>1. \A k \in 1..Len(jobs) : jobs[k] \in Copy
    BY DEF TypeOK, ChannelType
  <2>2. QED
    BY <2>1 DEF InChannel, Copy
<1>3. AtWork \subseteq Items
  BY DEF TypeOK, WorkerType, AtWork, Working, Busy, Copy
<1>4. QED
  BY <1>1, <1>2, <1>3 DEF Held

\* Enqueue, Retry, Cancel, Stop and a crash preserve the types.
LEMMA EnvironmentTypes == TypeOK /\ Environment => TypeOK'
<1> SUFFICES ASSUME TypeOK, Environment PROVE TypeOK'
  OBVIOUS
<1> USE DEF TypeOK
<1>1. ASSUME NEW i \in Items, Enqueue(i) \/ BackoffElapses(i) PROVE TypeOK'
  <2>1. TableType'
    <3>1. CASE Enqueue(i)
      BY <3>1 DEF Enqueue, TableType, Row, Status
    <3>2. CASE BackoffElapses(i)
      BY <3>2 DEF BackoffElapses, TableType, Row
    <3>3. QED
      BY <1>1, <3>1, <3>2
  <2>2. QED
    BY <1>1, <2>1 DEF Enqueue, BackoffElapses, DispatcherType, dispVars,
       ChannelType, chanVars, WorkerType, workVars, Busy, HistoryType, histVars
<1>2. ASSUME NEW i \in Items, Retry(i) PROVE TypeOK'
  BY <1>2 DEF Retry, TableType, Row, Status, DispatcherType, dispVars,
     ChannelType, chanVars, WorkerType, workVars, Busy, HistoryType, histVars
<1>3. ASSUME NEW a \in Admins, NEW i \in Items, CancelRead(a, i) PROVE TypeOK'
  <2>1. CopyOf(i) \in Copy
    BY DEF TableType, CopyOf, Copy, Row
  <2>2. TableType'
    BY <1>3, <2>1 DEF CancelRead, TableType
  <2>3. QED
    BY <1>3, <2>2 DEF CancelRead, DispatcherType, dispVars,
       ChannelType, chanVars, WorkerType, workVars, Busy, HistoryType, histVars
<1>4. ASSUME NEW a \in Admins, CancelSave(a) PROVE TypeOK'
  <2>1. \A c \in cancels[a] : c.id \in Items /\ c.attempts \in Nat
    BY DEF TableType, Copy
  <2>2. rows' \in [Items -> Row]
    <3>1. ASSUME NEW c \in cancels[a]
          PROVE [rows EXCEPT ![c.id] = [status |-> "canceled", attempts |-> c.attempts,
                                        due |-> TRUE]] \in [Items -> Row]
      BY <2>1, <3>1 DEF TableType, Row, Status
    <3>2. QED
      BY <1>4, <3>1 DEF CancelSave, TableType
  <2>3. cancels' \in [Admins -> SUBSET Copy]
    BY <1>4 DEF CancelSave, TableType
  <2>4. QED
    BY <1>4, <2>2, <2>3 DEF TableType, CancelSave, DispatcherType, dispVars,
       ChannelType, chanVars, WorkerType, workVars, Busy, HistoryType, histVars
<1>5. CASE Stop
  BY <1>5 DEF Stop, TableType, DispatcherType, dispVars,
     ChannelType, WorkerType, workVars, Busy, HistoryType, histVars
<1>6. CASE Crash
  <2>1. WorkerType'
    BY <1>6 DEF Crash, WorkerType, WorkerPC, Busy, Replies
  <2>2. HistoryType'
    <3>1. {item[w].id : w \in {v \in Workers : wpc[v] = "bounce"}} \subseteq Items
      BY DEF WorkerType, Busy, Copy
    <3>2. QED
      BY <1>6, <3>1, HeldAreItems DEF Crash, HistoryType
  <2>3. TableType' /\ DispatcherType' /\ ChannelType'
    BY <1>6, EmptyJobs DEF Crash, TableType, DispatcherType, ChannelType
  <2>4. QED
    BY <2>1, <2>2, <2>3
<1>7. QED
  BY <1>1, <1>2, <1>3, <1>4, <1>5, <1>6 DEF Environment

\* Every step of the queue preserves the types.
LEMMA StepTypes == TypeOK /\ [Next]_vars => TypeOK'
<1>1. TypeOK /\ UNCHANGED vars => TypeOK'
  BY DEF TypeOK, TableType, DispatcherType, ChannelType, WorkerType, HistoryType,
     vars, dispVars, chanVars, workVars, histVars, Busy
<1>2. QED
  BY <1>1, DispatcherTypes, WorkerTypes, EnvironmentTypes DEF Next

(* Every variable keeps its type in every behaviour of the queue.          *)
THEOREM TypeCorrect == Spec => []TypeOK
  BY InitTypes, StepTypes, PTL DEF Spec

-----------------------------------------------------------------------------
(***************************************************************************)
(* The claim. A claimed copy travels from the dispatcher's hand through    *)
(* the channel to a worker; the inductive invariant ClaimInv follows it.   *)
(***************************************************************************)

\* A freshly started Manager holds no copy.
LEMMA InitClaim == Init => ClaimInv
<1> SUFFICES ASSUME Init PROVE ClaimInv
  OBVIOUS
<1>1. Held = {}
  <2>1. InHand = {} /\ Working = {}
    BY DEF Init, InHand, Working
  <2>2. InChannel = {}
    <3>1. Len(jobs) = 0
      BY DEF Init
    <3>2. QED
      BY <3>1 DEF InChannel
  <2>3. QED
    BY <2>1, <2>2 DEF Held, AtWork
<1>2. QED
  BY <1>1 DEF Init, ClaimInv, HandInv, HeldExists, SendingIsHeld, ExclusiveClaim

\* Steps that move no copy and change no row.
LEMMA NothingMoves ==
  ASSUME ClaimInv, UNCHANGED <<rows, hand, jobs, overlapped, Working>>,
         faulted \subseteq faulted',
         \A w \in Working : item'[w].id = item[w].id,
         HandInv'
  PROVE  ClaimInv'
<1>1. InHand' = InHand /\ InChannel' = InChannel
  BY DEF InHand, InChannel
<1>2. AtWork' = AtWork
  BY DEF AtWork
<1>3. Held' = Held
  BY <1>1, <1>2 DEF Held
<1>4. HeldExists' /\ SendingIsHeld'
  BY <1>3 DEF ClaimInv, HeldExists, SendingIsHeld
<1>5. ExclusiveClaim'
  BY <1>1, <1>2, <1>3 DEF ClaimInv, ExclusiveClaim, SoleCopy
<1>6. QED
  BY <1>4, <1>5 DEF ClaimInv

\* Listing, claiming and handing off preserve the claim invariant (processDue).
LEMMA DispatcherClaim == TypeOK /\ ClaimInv /\ Dispatcher => ClaimInv'
<1> SUFFICES ASSUME TypeOK, ClaimInv, Dispatcher PROVE ClaimInv'
  OBVIOUS
<1>1. UNCHANGED <<wpc, item, overlapped, faulted>>
  BY DEF Dispatcher, Tick, TakeKick, TakeStop, ListDue, ListDueFails, Claim, SkipUnclaimed,
     Handoff, ScanDone, workVars, histVars
<1>2. Working' = Working /\ AtWork' = AtWork
  BY <1>1 DEF Working, AtWork
<1>3. CASE Tick \/ TakeKick \/ TakeStop \/ ListDue \/ ListDueFails \/ ScanDone
  BY <1>1, <1>2, <1>3, NothingMoves DEF Tick, TakeKick, TakeStop, ListDue, ListDueFails,
     ScanDone, chanVars, ClaimInv, HandInv
<1>4. ASSUME NEW c \in batch, SkipUnclaimed(c) PROVE ClaimInv'
  BY <1>1, <1>2, <1>4, NothingMoves DEF SkipUnclaimed, chanVars, ClaimInv, HandInv
<1>5. ASSUME NEW c \in batch, Claim(c) PROVE ClaimInv'
  <2>1. /\ c.id \in Items /\ hand = {} /\ hand' = {c}
        /\ rows' = [rows EXCEPT ![c.id].status = "sending"]
        /\ UNCHANGED jobs
    BY <1>5 DEF Claim, chanVars, TypeOK, DispatcherType, Copy, ClaimInv, HandInv
  <2>2. HandInv'
    BY <1>5, <2>1 DEF Claim, HandInv
  <2>3. InHand = {} /\ InHand' = {c.id} /\ InChannel' = InChannel
    BY <2>1 DEF InHand, InChannel
  <2>4. Held' = Held \union {c.id}
    BY <1>2, <2>3 DEF Held
  <2>5. \A i \in Items : rows'[i].status = IF i = c.id THEN "sending" ELSE rows[i].status
    BY <2>1 DEF TypeOK, TableType, Row
  <2>6. HeldExists' /\ SendingIsHeld'
    BY <1>1, <2>1, <2>4, <2>5, HeldAreItems DEF ClaimInv, HeldExists, SendingIsHeld
  <2>7. c.id \notin overlapped => c.id \notin Held
    BY <1>5, <2>1 DEF Claim, ClaimInv, ExclusiveClaim
  <2>8. ExclusiveClaim'
    <3> SUFFICES ASSUME NEW i \in Held' \ overlapped
                 PROVE  SoleCopy(i)' /\ rows'[i].status \notin Claimable
      BY <1>1 DEF ExclusiveClaim
    <3>1. CASE i = c.id
      <4>1. i \notin Held
        BY <2>7, <3>1
      <4>2. SoleCopy(i)'
        BY <1>1, <1>2, <2>1, <2>3, <4>1 DEF SoleCopy, Held, InChannel, AtWork
      <4>3. QED
        BY <2>1, <2>5, <3>1, <4>2 DEF Claimable
    <3>2. CASE i # c.id
      <4>1. i \in Held /\ i \in Items
        BY <2>4, <3>2, HeldAreItems
      <4>2. QED
        BY <1>1, <1>2, <2>1, <2>3, <2>5, <3>2, <4>1 DEF ClaimInv, ExclusiveClaim, SoleCopy
    <3>3. QED
      BY <3>1, <3>2
  <2>9. QED
    BY <2>2, <2>6, <2>8 DEF ClaimInv
<1>6. CASE Handoff
  <2>1. PICK c \in hand : hand = {c} /\ jobs' = Append(jobs, c)
    <3>1. PICK c \in hand : hand = {c}
      BY <1>6 DEF Handoff, ClaimInv, HandInv
    <3>2. QED
      BY <1>6, <3>1 DEF Handoff
  <2>2. /\ Len(jobs') = Len(jobs) + 1 /\ Len(jobs) \in Nat
        /\ \A k \in 1..Len(jobs') : jobs'[k] = IF k = Len(jobs) + 1 THEN c ELSE jobs[k]
    BY <2>1 DEF TypeOK, ChannelType, DispatcherType
  <2>3. HandInv' /\ UNCHANGED rows /\ hand' = {}
    BY <1>6 DEF Handoff, HandInv
  <2>4. InHand = {c.id} /\ InHand' = {} /\ InChannel' = InChannel \union {c.id}
    BY <2>1, <2>2, <2>3 DEF InHand, InChannel
  <2>5. Held' = Held
    BY <1>2, <2>4 DEF Held
  <2>6. HeldExists' /\ SendingIsHeld'
    BY <1>1, <2>3, <2>5 DEF ClaimInv, HeldExists, SendingIsHeld
  <2>7. ASSUME NEW i \in Held \ overlapped PROVE SoleCopy(i)'
    <3>1. SoleCopy(i)
      BY DEF ClaimInv, ExclusiveClaim
    <3>2. \A k, l \in 1..Len(jobs') : jobs'[k].id = i /\ jobs'[l].id = i => k = l
      BY <2>2, <2>4, <3>1 DEF SoleCopy, InChannel
    <3>3. QED
      BY <1>1, <1>2, <2>4, <3>1, <3>2 DEF SoleCopy
  <2>8. ExclusiveClaim'
    BY <1>1, <2>3, <2>5, <2>7 DEF ClaimInv, ExclusiveClaim
  <2>9. QED
    BY <2>3, <2>6, <2>8 DEF ClaimInv
<1>7. QED
  BY <1>3, <1>4, <1>5, <1>6 DEF Dispatcher

\* A worker that takes a job takes the copy out of the channel, and holds it.
LEMMA JobTaken ==
  ASSUME TypeOK, NEW w \in Workers, TakeJob(w)
  PROVE  /\ Len(jobs) \in Nat \ {0} /\ Len(jobs') = Len(jobs) - 1
         /\ \A k \in 1..Len(jobs') : k + 1 \in 1..Len(jobs) /\ jobs[k + 1] = jobs'[k]
         /\ UNCHANGED <<rows, faulted>>
         /\ w \notin Working /\ Working' = Working \union {w}
         /\ \A v \in Working : item'[v] = item[v]
         /\ item'[w] = jobs[1]
         /\ AtWork' = AtWork \union {jobs[1].id}
         /\ InChannel = InChannel' \union {jobs[1].id}
         /\ Held' = Held
<1>1. /\ Len(jobs) \in Nat \ {0} /\ Len(jobs') = Len(jobs) - 1
      /\ Head(jobs) = jobs[1]
      /\ \A k \in 1..Len(jobs') : jobs'[k] = jobs[k + 1]
  BY DEF TakeJob, TypeOK, ChannelType
<1>1a. \A k \in 1..Len(jobs') : k + 1 \in 1..Len(jobs) /\ jobs[k + 1] = jobs'[k]
  BY <1>1
<1>2. /\ UNCHANGED <<rows, faulted>>
      /\ w \notin Working /\ Working' = Working \union {w}
      /\ \A v \in Working : item'[v] = item[v]
      /\ item'[w] = jobs[1]
  BY <1>1 DEF TakeJob, Working, TypeOK, WorkerType, histVars
<1>3. AtWork' = AtWork \union {jobs[1].id}
  BY <1>2 DEF AtWork
<1>4. InChannel = InChannel' \union {jobs[1].id}
  <2>1. ASSUME NEW k \in 1..Len(jobs) PROVE jobs[k].id \in InChannel' \union {jobs[1].id}
    <3>1. CASE k = 1
      BY <3>1
    <3>2. CASE k # 1
      <4>1. k - 1 \in 1..Len(jobs') /\ (k - 1) + 1 = k
        BY <1>1, <3>2
      <4>2. jobs'[k - 1] = jobs[k]
        BY <1>1, <4>1
      <4>3. QED
        BY <4>1, <4>2 DEF InChannel
    <3>3. QED
      BY <3>1, <3>2
  <2>2. ASSUME NEW k \in 1..Len(jobs') PROVE jobs'[k].id \in InChannel
    BY <1>1a DEF InChannel
  <2>3. 1 \in 1..Len(jobs)
    BY <1>1
  <2>4. jobs[1].id \in InChannel
    BY <2>3 DEF InChannel
  <2>5. InChannel = {jobs[k].id : k \in 1..Len(jobs)}
    BY DEF InChannel
  <2>6. InChannel' = {jobs'[k].id : k \in 1..Len(jobs')}
    BY DEF InChannel
  <2>7. InChannel \subseteq InChannel' \union {jobs[1].id}
    BY <2>1, <2>5
  <2>8. InChannel' \subseteq InChannel
    BY <2>2, <2>6
  <2>9. QED
    BY <2>4, <2>7, <2>8
<1>5. UNCHANGED hand
  BY DEF TakeJob, dispVars
<1>6. Held' = Held
  BY <1>3, <1>4, <1>5 DEF Held, InHand
<1>7. QED
  BY <1>1, <1>1a, <1>2, <1>3, <1>4, <1>6

\* A worker that saves gives its copy up, and it was the only one.
LEMMA CopySaved ==
  ASSUME TypeOK, ClaimInv, NEW w \in Workers, Save(w)
  PROVE  /\ item[w].id \in Items
         /\ Held = Held' \union {item[w].id}
         /\ \A i \in Held' \ overlapped : SoleCopy(i)' /\ i # item[w].id
<1>0. InHand' = InHand
  BY DEF Save, SaveSent, SaveDeferred, SaveFailed, SaveError, dispVars, InHand
<1>1. /\ w \in Working /\ item[w].id \in Items
      /\ Working' = Working \ {w}
      /\ \A v \in Working' : item'[v] = item[v]
      /\ UNCHANGED jobs
  BY DEF Save, SaveSent, SaveDeferred, SaveFailed, SaveError, Finish, Working, chanVars,
     TypeOK, WorkerType, Busy, Copy
<1>2. InChannel' = InChannel
  BY <1>1 DEF InChannel
<1>3. AtWork = AtWork' \union {item[w].id}
  BY <1>1 DEF AtWork
<1>4. Held = Held' \union {item[w].id}
  BY <1>0, <1>2, <1>3 DEF Held
<1>5. ASSUME NEW i \in Held' \ overlapped PROVE SoleCopy(i)' /\ i # item[w].id
  <2>1. SoleCopy(i)
    BY <1>4 DEF ClaimInv, ExclusiveClaim
  <2>2. SoleCopy(i)'
    BY <1>0, <1>1, <1>2, <1>3, <2>1 DEF SoleCopy
  <2>3. i # item[w].id
    <3>1. SUFFICES ASSUME i = item[w].id PROVE FALSE
      OBVIOUS
    <3>2. i \in AtWork
      BY <1>3, <3>1
    <3>3. i \notin InHand \union InChannel
      BY <2>1, <3>2 DEF SoleCopy
    <3>4. PICK v \in Working' : item'[v].id = i
      BY <1>0, <1>2, <3>3 DEF Held, AtWork
    <3>5. v \in Working /\ v # w /\ item[v].id = i
      BY <1>1, <3>4
    <3>6. QED
      BY <1>1, <2>1, <3>1, <3>5 DEF SoleCopy
  <2>4. QED
    BY <2>2, <2>3
<1>6. QED
  BY <1>1, <1>4, <1>5

\* Delivering and saving preserve the claim invariant (deliverOne).
LEMMA WorkerClaim == ASSUME TypeOK, ClaimInv, NEW w \in Workers, Worker(w) PROVE ClaimInv'
<1>1. UNCHANGED <<dpc, hand, overlapped>> /\ HandInv'
  BY DEF Worker, TakeJob, ExitWorker, AcquireSlot, LookupMX, Attempt, HostAccepts, HostRejects,
     HostDefers, ReplyLost, Save, SaveSent, SaveDeferred, SaveFailed, SaveError, Bounce,
     dispVars, histVars, ClaimInv, HandInv
<1>2. InHand' = InHand
  BY <1>1 DEF InHand
<1>3. CASE TakeJob(w)
  <2>1. /\ Len(jobs) \in Nat \ {0} /\ Len(jobs') = Len(jobs) - 1
        /\ \A k \in 1..Len(jobs') : k + 1 \in 1..Len(jobs) /\ jobs[k + 1] = jobs'[k]
    BY <1>3, JobTaken
  <2>2. /\ UNCHANGED <<rows, faulted>>
        /\ Working' = Working \union {w}
        /\ \A v \in Working : item'[v] = item[v]
        /\ item'[w] = jobs[1]
    BY <1>3, JobTaken
  <2>3. AtWork' = AtWork \union {jobs[1].id}
    BY <1>3, JobTaken
  <2>4. InChannel = InChannel' \union {jobs[1].id}
    BY <1>3, JobTaken
  <2>5. Held' = Held
    BY <1>3, JobTaken
  <2>6. HeldExists' /\ SendingIsHeld'
    BY <2>2, <2>5 DEF ClaimInv, HeldExists, SendingIsHeld
  <2>7. ASSUME NEW i \in Held \ overlapped PROVE SoleCopy(i)'
    <3>1. SoleCopy(i)
      BY DEF ClaimInv, ExclusiveClaim
    <3>2. \A k, l \in 1..Len(jobs') : jobs'[k].id = i /\ jobs'[l].id = i => k = l
      <4>1. SUFFICES ASSUME NEW k \in 1..Len(jobs'), NEW l \in 1..Len(jobs'),
                            jobs'[k].id = i, jobs'[l].id = i
                     PROVE  k = l
        OBVIOUS
      <4>2. /\ k + 1 \in 1..Len(jobs) /\ jobs[k + 1].id = i
            /\ l + 1 \in 1..Len(jobs) /\ jobs[l + 1].id = i
        BY <2>1, <4>1
      <4>3. k + 1 = l + 1
        BY <3>1, <4>2 DEF SoleCopy
      <4>4. QED
        BY <4>3
    <3>3. jobs[1].id = i => i \notin InChannel'
      <4>1. SUFFICES ASSUME jobs[1].id = i, NEW k \in 1..Len(jobs'), jobs'[k].id = i
                     PROVE  FALSE
        BY DEF InChannel
      <4>2. 1 = k + 1
        BY <2>1, <3>1, <4>1 DEF SoleCopy
      <4>3. QED
        BY <2>1, <4>2
    <3>4. \A u, v \in Working' : item'[u].id = i /\ item'[v].id = i => u = v
      <4>1. jobs[1].id = i => i \notin AtWork
        BY <2>1, <3>1 DEF SoleCopy, InChannel
      <4>2. QED
        BY <2>2, <3>1, <4>1 DEF SoleCopy, AtWork
    <3>5. QED
      BY <1>2, <2>3, <2>4, <3>1, <3>2, <3>3, <3>4 DEF SoleCopy
  <2>8. ExclusiveClaim'
    BY <1>1, <2>2, <2>5, <2>7 DEF ClaimInv, ExclusiveClaim
  <2>9. QED
    BY <1>1, <2>6, <2>8 DEF ClaimInv
<1>4. CASE ExitWorker(w) \/ AcquireSlot(w) \/ LookupMX(w) \/ Attempt(w) \/ Bounce(w)
  <2>1. Working' = Working /\ \A v \in Working : item'[v].id = item[v].id
    BY <1>4 DEF ExitWorker, AcquireSlot, LookupMX, Attempt, HostAccepts, HostRejects, HostDefers,
       ReplyLost, NextHost, Return, Bounce, Finish, Working, TypeOK, WorkerType, WorkerPC, Busy, Copy
  <2>2. UNCHANGED <<rows, jobs, faulted>>
    BY <1>4 DEF ExitWorker, AcquireSlot, LookupMX, Attempt, HostAccepts, HostRejects, HostDefers,
       ReplyLost, Bounce, chanVars, histVars
  <2>3. QED
    BY <1>1, <2>1, <2>2, NothingMoves
<1>5. CASE Save(w)
  <2>1. item[w].id \in Items
    BY <1>5, CopySaved
  <2>4. Held = Held' \union {item[w].id}
    BY <1>5, CopySaved
  <2>5. ASSUME NEW i \in Held' \ overlapped PROVE SoleCopy(i)' /\ i # item[w].id
    BY <1>5, <2>5, CopySaved
  <2>6. CASE SaveError(w)
    <3>1. UNCHANGED rows /\ faulted' = faulted \union {item[w].id}
      BY <2>6 DEF SaveError
    <3>2. HeldExists' /\ SendingIsHeld'
      BY <2>4, <3>1 DEF ClaimInv, HeldExists, SendingIsHeld
    <3>3. ExclusiveClaim'
      BY <1>1, <2>4, <2>5, <3>1 DEF ClaimInv, ExclusiveClaim
    <3>4. QED
      BY <1>1, <3>2, <3>3 DEF ClaimInv
  <2>7. ASSUME NEW st \in {"sent", "deferred", "failed"}, Saved(w, st), UNCHANGED faulted
        PROVE  ClaimInv'
    <3>1. \A i \in Items : rows'[i].status = IF i = item[w].id THEN st ELSE rows[i].status
      BY <2>1, <2>7 DEF Saved, TypeOK, TableType, Row
    <3>2. HeldExists' /\ SendingIsHeld'
      BY <2>1, <2>4, <2>7, <3>1, HeldAreItems DEF ClaimInv, HeldExists, SendingIsHeld
    <3>3. ExclusiveClaim'
      BY <1>1, <2>4, <2>5, <3>1, HeldAreItems DEF ClaimInv, ExclusiveClaim
    <3>4. QED
      BY <1>1, <3>2, <3>3 DEF ClaimInv
  <2>8. QED
    BY <1>5, <2>6, <2>7 DEF Save, SaveSent, SaveDeferred, SaveFailed, histVars
<1>6. QED
  BY <1>3, <1>4, <1>5 DEF Worker

\* Steps of the environment that change row i while the copies stay where they are.
LEMMA RowChanges ==
  ASSUME TypeOK, ClaimInv, UNCHANGED <<dispVars, jobs, workVars, faulted>>, NEW i \in Items,
         NEW r \in Row, r.status \notin {"absent", "sending"},
         rows' = [rows EXCEPT ![i] = r],
         overlapped \subseteq overlapped',
         r.status \in Claimable => i \notin Held \/ i \in overlapped'
  PROVE  ClaimInv'
<1>1. Held' = Held /\ \A j : SoleCopy(j) => SoleCopy(j)'
  BY DEF Held, InHand, InChannel, AtWork, Working, SoleCopy, dispVars, workVars
<1>2. \A j \in Items : rows'[j].status = IF j = i THEN r.status ELSE rows[j].status
  BY DEF TypeOK, TableType
<1>3. HandInv'
  BY DEF ClaimInv, HandInv, dispVars
<1>4. HeldExists' /\ SendingIsHeld'
  BY <1>1, <1>2, HeldAreItems DEF ClaimInv, HeldExists, SendingIsHeld
<1>5. ExclusiveClaim'
  BY <1>1, <1>2, HeldAreItems DEF ClaimInv, ExclusiveClaim
<1>6. QED
  BY <1>3, <1>4, <1>5 DEF ClaimInv

\* So do Enqueue, Retry, Cancel, Stop and a crash.
LEMMA EnvironmentClaim == TypeOK /\ ClaimInv /\ Environment => ClaimInv'
<1> SUFFICES ASSUME TypeOK, ClaimInv, Environment PROVE ClaimInv'
  OBVIOUS
<1>1. ASSUME NEW i \in Items, Enqueue(i) PROVE ClaimInv'
  <2>1. i \notin Held
    BY <1>1 DEF Enqueue, ClaimInv, HeldExists
  <2>2. [status |-> "pending", attempts |-> 0, due |-> TRUE] \in Row
    BY DEF Row, Status
  <2>3. QED
    BY <1>1, <2>1, <2>2, RowChanges DEF Enqueue, chanVars, histVars
<1>2. ASSUME NEW i \in Items, BackoffElapses(i) PROVE ClaimInv'
  <2>1. [rows[i] EXCEPT !.due = TRUE] \in Row /\ [rows[i] EXCEPT !.due = TRUE].status = "deferred"
    BY <1>2 DEF BackoffElapses, TypeOK, TableType, Row
  <2>2. i \notin Held \/ i \in overlapped
    BY <1>2 DEF BackoffElapses, ClaimInv, ExclusiveClaim, Claimable
  <2>3. QED
    BY <1>2, <2>1, <2>2, RowChanges DEF BackoffElapses, chanVars, histVars
<1>3. ASSUME NEW i \in Items, Retry(i) PROVE ClaimInv'
  <2>1. [status |-> "pending", attempts |-> 0, due |-> TRUE] \in Row
    BY DEF Row, Status
  <2>2. QED
    BY <1>3, <2>1, RowChanges DEF Retry, chanVars
<1>4. ASSUME NEW a \in Admins, CancelSave(a) PROVE ClaimInv'
  <2>1. CASE UNCHANGED rows
    BY <1>4, <2>1, NothingMoves DEF CancelSave, dispVars, chanVars, workVars, histVars, Working,
       ClaimInv, HandInv
  <2>2. ASSUME NEW c \in cancels[a],
               rows' = [rows EXCEPT ![c.id] =
                          [status |-> "canceled", attempts |-> c.attempts, due |-> TRUE]]
        PROVE  ClaimInv'
    <3>1. c.id \in Items /\ [status |-> "canceled", attempts |-> c.attempts, due |-> TRUE] \in Row
      BY DEF TypeOK, TableType, Copy, Row, Status
    <3>2. QED
      BY <1>4, <2>2, <3>1, RowChanges DEF CancelSave, chanVars, histVars, Claimable
  <2>3. QED
    BY <1>4, <2>1, <2>2 DEF CancelSave
<1>5. ASSUME NEW a \in Admins, NEW i \in Items, CancelRead(a, i) PROVE ClaimInv'
  BY <1>5, NothingMoves DEF CancelRead, dispVars, chanVars, workVars, histVars, Working,
     ClaimInv, HandInv
<1>6. CASE Stop
  BY <1>6, NothingMoves DEF Stop, dispVars, workVars, histVars, Working, ClaimInv, HandInv
<1>7. CASE Crash
  <2>1. Held' = {}
    <3>1. InHand' = {} /\ Working' = {} /\ Len(jobs') = 0
      BY <1>7 DEF Crash, InHand, Working
    <3>2. QED
      BY <3>1 DEF Held, InChannel, AtWork
  <2>2. HandInv'
    BY <1>7 DEF Crash, HandInv
  <2>3. UNCHANGED rows /\ faulted' = faulted \union Held
    BY <1>7 DEF Crash
  <2>4. QED
    BY <2>1, <2>2, <2>3 DEF ClaimInv, HeldExists, SendingIsHeld, ExclusiveClaim
<1>8. QED
  BY <1>1, <1>2, <1>3, <1>4, <1>5, <1>6, <1>7 DEF Environment

\* Every step of the queue preserves the claim invariant.
LEMMA StepClaim == TypeOK /\ ClaimInv /\ [Next]_vars => ClaimInv'
<1> SUFFICES ASSUME TypeOK, ClaimInv, [Next]_vars PROVE ClaimInv'
  OBVIOUS
<1>1. CASE UNCHANGED vars
  BY <1>1, NothingMoves DEF vars, dispVars, chanVars, workVars, histVars, Working, ClaimInv,
     HandInv
<1>2. QED
  BY <1>1, DispatcherClaim, WorkerClaim, EnvironmentClaim DEF Next

(* The claim invariant: the dispatcher's hand is what it is sending, held  *)
(* rows exist, rows in "sending" are held, and held rows are held once     *)
(* (Store.Claim, processDue, deliverOne).                                  *)
THEOREM ClaimCorrect == Spec => []ClaimInv
  BY InitClaim, StepClaim, TypeCorrect, PTL DEF Spec

(* No row gets stuck unnoticed: one in "sending" is with the dispatcher,   *)
(* in the channel or with a worker, unless a crash or a failed write       *)
(* dropped its copy.                                                       *)
THEOREM SendingCorrect == Spec => []SendingIsHeld
<1>1. ClaimInv => SendingIsHeld
  BY DEF ClaimInv
<1>2. QED
  BY <1>1, ClaimCorrect, PTL

(* Store.Claim hands a row to one worker at a time, unless an admin's      *)
(* retry hits the row while a copy of it is in flight.                     *)
THEOREM ExclusiveCorrect == Spec => []ExclusiveClaim
<1>1. ClaimInv => ExclusiveClaim
  BY DEF ClaimInv
<1>2. QED
  BY <1>1, ClaimCorrect, PTL

-----------------------------------------------------------------------------
(***************************************************************************)
(* Proofs about the delivery slots of the outbound queue: no slot leaks on *)
(* any way out of deliverOne, no address has more than its share, and a    *)
(* graceful stop leaves nothing behind.                                    *)
(***************************************************************************)

\* Worker w is between acquireDomain and the release for address a.
In(w, a) == wpc[w] \in InsideSlot /\ ToAddr[item[w].id] = a

\* SlotsExact member by member, and the bound on each semaphore.
SlotMembers ==
  \A a \in Addrs, w \in Workers : w \in sem[a] <=> PerAddrLimit > 0 /\ In(w, a)
SlotBound == \A a \in Addrs : IsFiniteSet(sem[a]) /\ Cardinality(sem[a]) <= PerAddrLimit
SlotInv == SlotMembers /\ SlotBound

\* The invariant gives the two properties (acquireDomain).
LEMMA SlotInvSuffices == TypeOK /\ SlotInv => SlotsExact /\ SlotLimit
<1> SUFFICES ASSUME TypeOK, SlotInv PROVE SlotsExact /\ SlotLimit
  OBVIOUS
<1>1. SlotsExact
  BY QueueAssumption
  DEF SlotsExact, Inside, SlotInv, SlotMembers, In, TypeOK, WorkerType
<1>2. ASSUME PerAddrLimit > 0, NEW a \in Addrs PROVE Cardinality(Inside(a)) <= PerAddrLimit
  BY <1>1, <1>2 DEF SlotsExact, SlotInv, SlotBound
<1>3. QED
  BY <1>1, <1>2 DEF SlotLimit

\* No worker is inside a slot in the beginning (NewManager).
LEMMA InitSlots == Init => SlotInv
<1> SUFFICES ASSUME Init PROVE SlotInv
  OBVIOUS
<1>1. SlotMembers
  BY DEF Init, SlotMembers, In, InsideSlot
<1>2. SlotBound
  BY FS_EmptySet, QueueAssumption DEF Init, SlotBound
<1>3. QED
  BY <1>1, <1>2 DEF SlotInv

\* A step that takes no worker in or out of a slot preserves the invariant.
LEMMA SlotsStay ==
  ASSUME SlotInv, UNCHANGED sem,
         \A v \in Workers : wpc'[v] \in InsideSlot <=> wpc[v] \in InsideSlot,
         \A v \in Workers : wpc[v] \in InsideSlot => item'[v].id = item[v].id
  PROVE  SlotInv'
<1>1. SlotMembers'
  BY DEF SlotInv, SlotMembers, In
<1>2. SlotBound'
  BY DEF SlotInv, SlotBound
<1>3. QED
  BY <1>1, <1>2 DEF SlotInv

\* The deferred release gives back the slot of the worker that returns.
LEMMA SlotReleased ==
  ASSUME TypeOK, SlotInv, NEW w \in Workers, wpc[w] \in InsideSlot, Finish(w)
  PROVE  SlotInv'
<1> DEFINE key == SlotKey(item[w])
<1>1. key \in Addrs /\ key = ToAddr[item[w].id]
  BY QueueAssumption DEF SlotKey, TypeOK, WorkerType, Copy, InsideSlot, Busy
<1>2. sem' = [sem EXCEPT ![key] = @ \ {w}] /\ sem \in [Addrs -> SUBSET Workers]
  BY DEF Finish, TypeOK, WorkerType
<1>3. SlotMembers'
  <2> SUFFICES ASSUME NEW a \in Addrs, NEW v \in Workers
               PROVE  v \in sem'[a] <=> PerAddrLimit > 0 /\ In(v, a)'
    BY DEF SlotMembers
  <2>1. v \in sem[a] <=> PerAddrLimit > 0 /\ In(v, a)
    BY DEF SlotInv, SlotMembers
  <2>2. CASE v = w
    <3>1. wpc'[w] = "idle"
      BY DEF Finish, TypeOK, WorkerType
    <3>2. ~In(v, a)'
      BY <2>2, <3>1 DEF In, InsideSlot
    <3>3. v \notin sem'[a]
      <4>1. CASE a = key
        BY <1>2, <2>2, <4>1
      <4>2. CASE a # key
        BY <1>1, <1>2, <2>1, <2>2, <4>2 DEF In
      <4>3. QED
        BY <4>1, <4>2
    <3>4. QED
      BY <3>2, <3>3
  <2>3. CASE v # w
    <3>1. wpc'[v] = wpc[v] /\ item'[v] = item[v]
      BY <2>3 DEF Finish, TypeOK, WorkerType
    <3>2. v \in sem'[a] <=> v \in sem[a]
      BY <1>1, <1>2, <2>3
    <3>3. QED
      BY <2>1, <3>1, <3>2 DEF In
  <2>4. QED
    BY <2>2, <2>3
<1>4. SlotBound'
  <2> SUFFICES ASSUME NEW a \in Addrs
               PROVE  IsFiniteSet(sem'[a]) /\ Cardinality(sem'[a]) <= PerAddrLimit
    BY DEF SlotBound
  <2>1. IsFiniteSet(sem[a]) /\ Cardinality(sem[a]) <= PerAddrLimit
    BY DEF SlotInv, SlotBound
  <2>2. sem'[a] \subseteq sem[a]
    BY <1>1, <1>2
  <2>3. IsFiniteSet(sem'[a]) /\ Cardinality(sem'[a]) <= Cardinality(sem[a])
    BY <2>1, <2>2, FS_Subset
  <2>4. Cardinality(sem[a]) \in Nat /\ Cardinality(sem'[a]) \in Nat
    BY <2>1, <2>3, FS_CardinalityType
  <2>5. QED
    BY <2>1, <2>3, <2>4, QueueAssumption
<1>5. QED
  BY <1>3, <1>4 DEF SlotInv

\* acquireDomain hands a slot out only below the limit.
LEMMA SlotAcquired ==
  ASSUME TypeOK, SlotInv, NEW w \in Workers, AcquireSlot(w)
  PROVE  SlotInv'
<1> DEFINE key == SlotKey(item[w])
<1>1. wpc[w] = "acquire" /\ wpc'[w] = "lookup" /\ UNCHANGED item
  BY DEF AcquireSlot, TypeOK, WorkerType
<1>2. key \in Addrs /\ key = ToAddr[item[w].id]
  BY <1>1, QueueAssumption DEF SlotKey, TypeOK, WorkerType, Copy, Busy
<1>3. \A v \in Workers \ {w} : wpc'[v] = wpc[v]
  BY DEF AcquireSlot, TypeOK, WorkerType
<1>4. \A a \in Addrs : w \notin sem[a]
  BY <1>1 DEF SlotInv, SlotMembers, In, InsideSlot
<1>5. CASE PerAddrLimit = 0
  <2>1. UNCHANGED sem
    BY <1>5 DEF AcquireSlot
  <2>2. \A a \in Addrs, v \in Workers : v \notin sem[a]
    BY <1>5 DEF SlotInv, SlotMembers
  <2>3. QED
    BY <1>5, <2>1, <2>2 DEF SlotInv, SlotMembers, SlotBound
<1>6. CASE PerAddrLimit > 0
  <2>1. /\ Cardinality(sem[key]) < PerAddrLimit
        /\ sem' = [sem EXCEPT ![key] = @ \union {w}]
        /\ sem \in [Addrs -> SUBSET Workers]
    BY <1>6, QueueAssumption DEF AcquireSlot, TypeOK, WorkerType
  <2>2. SlotMembers'
    <3> SUFFICES ASSUME NEW a \in Addrs, NEW v \in Workers
                 PROVE  v \in sem'[a] <=> PerAddrLimit > 0 /\ In(v, a)'
      BY DEF SlotMembers
    <3>1. v \in sem[a] <=> PerAddrLimit > 0 /\ In(v, a)
      BY DEF SlotInv, SlotMembers
    <3>2. CASE v = w
      <4>1. In(v, a)' <=> a = key
        BY <1>1, <1>2, <3>2 DEF In, InsideSlot
      <4>2. v \in sem'[a] <=> a = key
        BY <1>2, <1>4, <2>1, <3>2
      <4>3. QED
        BY <1>6, <4>1, <4>2
    <3>3. CASE v # w
      <4>1. In(v, a)' <=> In(v, a)
        BY <1>1, <1>3, <3>3 DEF In
      <4>2. v \in sem'[a] <=> v \in sem[a]
        BY <1>2, <2>1, <3>3
      <4>3. QED
        BY <3>1, <4>1, <4>2
    <3>4. QED
      BY <3>2, <3>3
  <2>3. SlotBound'
    <3> SUFFICES ASSUME NEW a \in Addrs
                 PROVE  IsFiniteSet(sem'[a]) /\ Cardinality(sem'[a]) <= PerAddrLimit
      BY DEF SlotBound
    <3>1. IsFiniteSet(sem[a]) /\ Cardinality(sem[a]) <= PerAddrLimit
      BY DEF SlotInv, SlotBound
    <3>2. CASE a # key
      BY <2>1, <3>1, <3>2
    <3>3. CASE a = key
      <4>1. sem'[a] = sem[a] \union {w}
        BY <2>1, <3>3
      <4>2. /\ IsFiniteSet(sem[a] \union {w})
            /\ Cardinality(sem[a] \union {w}) = Cardinality(sem[a]) + 1
        BY <1>4, <3>1, FS_AddElement
      <4>3. Cardinality(sem[a]) \in Nat
        BY <3>1, FS_CardinalityType
      <4>4. QED
        BY <2>1, <3>3, <4>1, <4>2, <4>3, QueueAssumption
    <3>4. QED
      BY <3>2, <3>3
  <2>4. QED
    BY <2>2, <2>3 DEF SlotInv
<1>7. QED
  BY <1>5, <1>6, QueueAssumption

\* A worker's steps preserve the invariant (deliverOne).
LEMMA WorkerSlots ==
  ASSUME TypeOK, SlotInv, NEW w \in Workers, Worker(w)
  PROVE  SlotInv'
<1> USE DEF InsideSlot
<1>1. CASE TakeJob(w)
  BY <1>1, SlotsStay DEF TakeJob, TypeOK, WorkerType
<1>2. CASE ExitWorker(w)
  BY <1>2, SlotsStay DEF ExitWorker, TypeOK, WorkerType
<1>3. CASE AcquireSlot(w)
  BY <1>3, SlotAcquired
<1>4. ASSUME wpc[w] \in InsideSlot, NEW r, Return(w, r), UNCHANGED sem PROVE SlotInv'
  <2>1. item'[w].id = item[w].id
    BY <1>4 DEF Return, TypeOK, WorkerType, Copy, Busy
  <2>2. \A v \in Workers : item'[v].id = item[v].id
    BY <1>4, <2>1 DEF Return, TypeOK, WorkerType
  <2>3. QED
    BY <1>4, <2>2, SlotsStay DEF Return, TypeOK, WorkerType
<1>5. CASE LookupMX(w)
  <2>1. ASSUME wpc' = [wpc EXCEPT ![w] = "connect"], UNCHANGED <<item, sem>> PROVE SlotInv'
    BY <1>5, <2>1, SlotsStay DEF LookupMX, TypeOK, WorkerType
  <2>2. QED
    BY <1>4, <1>5, <2>1 DEF LookupMX
<1>6. CASE Attempt(w)
  <2>1. wpc[w] \in InsideSlot /\ UNCHANGED sem
    BY <1>6 DEF Attempt, HostAccepts, HostRejects, HostDefers, ReplyLost
  <2>2. ASSUME NextHost(w) PROVE SlotInv'
    <3>1. CASE UNCHANGED <<wpc, item, reply>>
      BY <2>1, <3>1, SlotsStay
    <3>2. QED
      BY <1>4, <2>1, <2>2, <3>1 DEF NextHost
  <2>3. QED
    BY <1>4, <1>6, <2>1, <2>2 DEF Attempt, HostAccepts, HostRejects, HostDefers, ReplyLost
<1>7. CASE Save(w)
  <2>1. CASE SaveFailed(w)
    BY <2>1, SlotsStay DEF SaveFailed, TypeOK, WorkerType
  <2>2. CASE ~SaveFailed(w)
    BY <1>7, <2>2, SlotReleased DEF Save, SaveSent, SaveDeferred, SaveError
  <2>3. QED
    BY <2>1, <2>2
<1>8. CASE Bounce(w)
  BY <1>8, SlotReleased DEF Bounce
<1>9. QED
  BY <1>1, <1>2, <1>3, <1>5, <1>6, <1>7, <1>8 DEF Worker

\* Every step preserves the invariant.
LEMMA StepSlots == TypeOK /\ SlotInv /\ [Next]_vars => SlotInv'
<1> SUFFICES ASSUME TypeOK, SlotInv, [Next]_vars PROVE SlotInv'
  OBVIOUS
<1>1. CASE UNCHANGED <<wpc, item, sem>>
  BY <1>1, SlotsStay
<1>2. CASE Dispatcher
  BY <1>1, <1>2 DEF Dispatcher, Tick, TakeKick, TakeStop, ListDue, ListDueFails, Claim,
     SkipUnclaimed, Handoff, ScanDone, workVars
<1>3. ASSUME NEW w \in Workers, Worker(w) PROVE SlotInv'
  BY <1>3, WorkerSlots
<1>4. CASE Crash
  <2>1. SlotMembers'
    BY <1>4 DEF Crash, SlotMembers, In, InsideSlot
  <2>2. SlotBound'
    BY <1>4, FS_EmptySet, QueueAssumption DEF Crash, SlotBound
  <2>3. QED
    BY <2>1, <2>2 DEF SlotInv
<1>5. CASE Environment
  BY <1>1, <1>4, <1>5 DEF Environment, Enqueue, BackoffElapses, Retry, CancelRead, CancelSave,
     Stop, workVars
<1>6. CASE UNCHANGED vars
  BY <1>1, <1>6 DEF vars, workVars
<1>7. QED
  BY <1>2, <1>3, <1>5, <1>6 DEF Next

\* SlotInv is an invariant (acquireDomain, deliverOne).
THEOREM SlotInvCorrect == Spec => []SlotInv
  BY InitSlots, StepSlots, TypeCorrect, PTL DEF Spec

\* A semaphore holds exactly the workers inside it: no slot leaks, on any way
\* out of deliverOne, after any crash (acquireDomain).
THEOREM SlotsExactCorrect == Spec => []SlotsExact
  BY SlotInvSuffices, SlotInvCorrect, TypeCorrect, PTL

\* At most PerAddrLimit workers deliver to one recipient address at a time.
THEOREM SlotLimitCorrect == Spec => []SlotLimit
  BY SlotInvSuffices, SlotInvCorrect, TypeCorrect, PTL

-----------------------------------------------------------------------------
\* A worker only leaves once the dispatcher has closed the channel and it is empty.
ExitInv ==
  /\ closed => dpc = "stopped"
  /\ \A w \in Workers : wpc[w] = "exited" => closed /\ jobs = <<>>

\* Only a dispatcher that has not stopped sends on the channel (Start, Stop).
LEMMA StepExit == TypeOK /\ ExitInv /\ [Next]_vars => ExitInv'
<1> SUFFICES ASSUME TypeOK, ExitInv, [Next]_vars PROVE ExitInv'
  OBVIOUS
<1> USE DEF ExitInv
<1>1. CASE Dispatcher
  <2>1. UNCHANGED wpc
    BY <1>1 DEF Dispatcher, Tick, TakeKick, TakeStop, ListDue, ListDueFails, Claim, SkipUnclaimed,
       Handoff, ScanDone, workVars
  <2>2. CASE TakeStop
    BY <2>1, <2>2 DEF TakeStop
  <2>3. CASE Handoff
    BY <2>1, <2>3 DEF Handoff
  <2>4. CASE ~TakeStop /\ ~Handoff
    <3>1. UNCHANGED <<closed, jobs>> /\ dpc # "stopped"
      BY <1>1, <2>4 DEF Dispatcher, Tick, TakeKick, ListDue, ListDueFails, Claim,
         SkipUnclaimed, ScanDone, chanVars
    <3>2. QED
      BY <2>1, <3>1
  <2>5. QED
    BY <2>2, <2>3, <2>4
<1>2. ASSUME NEW w \in Workers, Worker(w) PROVE ExitInv'
  <2>1. UNCHANGED <<dpc, closed>>
    BY <1>2 DEF Worker, TakeJob, ExitWorker, AcquireSlot, LookupMX, Attempt, HostAccepts,
       HostRejects, HostDefers, ReplyLost, Save, SaveSent, SaveDeferred, SaveFailed, SaveError,
       Bounce, dispVars, chanVars
  <2>2. CASE TakeJob(w)
    BY <2>1, <2>2 DEF TakeJob, TypeOK, WorkerType
  <2>3. CASE ExitWorker(w)
    BY <2>1, <2>3 DEF ExitWorker, TypeOK, WorkerType, chanVars
  <2>4. CASE ~TakeJob(w) /\ ~ExitWorker(w)
    <3>1. UNCHANGED jobs
      BY <1>2, <2>4 DEF Worker, AcquireSlot, LookupMX, Attempt, HostAccepts, HostRejects,
         HostDefers, ReplyLost, Save, SaveSent, SaveDeferred, SaveFailed, SaveError, Bounce,
         chanVars
    <3>2. \A v \in Workers : wpc'[v] = "exited" => wpc[v] = "exited"
      BY <1>2, <2>4 DEF Worker, AcquireSlot, LookupMX, Attempt, HostAccepts, HostRejects,
         HostDefers, ReplyLost, NextHost, Return, Save, SaveSent, SaveDeferred, SaveFailed,
         SaveError, Bounce, Finish, TypeOK, WorkerType
    <3>3. QED
      BY <2>1, <3>1, <3>2
  <2>5. QED
    BY <2>2, <2>3, <2>4
<1>3. CASE Environment /\ ~Crash
  BY <1>3 DEF Environment, Enqueue, BackoffElapses, Retry, CancelRead, CancelSave, Stop,
     dispVars, chanVars, workVars
<1>4. CASE Crash
  BY <1>4 DEF Crash
<1>5. CASE UNCHANGED vars
  BY <1>5 DEF vars, dispVars, chanVars, workVars
<1>6. QED
  BY <1>1, <1>2, <1>3, <1>4, <1>5 DEF Next

(* A graceful stop leaves nothing behind: once every worker has exited and *)
(* no copy was dropped, no row is in "sending" (Stop, deliverOne).         *)
THEOREM CleanStopCorrect == Spec => []CleanStop
<1>1. Init => ExitInv
  BY DEF Init, ExitInv
<1>2. TypeOK /\ ClaimInv /\ ExitInv => CleanStop
  <2> SUFFICES ASSUME TypeOK, ClaimInv, ExitInv, \A w \in Workers : wpc[w] = "exited",
                      faulted = {}
               PROVE  \A i \in Items : rows[i].status # "sending"
    BY DEF CleanStop
  <2>1. dpc = "stopped" /\ jobs = <<>>
    BY QueueAssumption DEF ExitInv
  <2>2. InHand = {}
    BY <2>1 DEF ClaimInv, HandInv, InHand
  <2>3. InChannel = {}
    <3>1. Len(jobs) = 0
      BY <2>1
    <3>2. QED
      BY <3>1 DEF InChannel
  <2>4. AtWork = {}
    BY DEF AtWork, Working
  <2>5. QED
    BY <2>2, <2>3, <2>4 DEF Held, ClaimInv, SendingIsHeld
<1>3. QED
  BY <1>1, <1>2, StepExit, ClaimCorrect, TypeCorrect, PTL DEF Spec

-----------------------------------------------------------------------------
(***************************************************************************)
(* Proofs about the outcome the queue records for a message: what "sent"   *)
(* and "failed" say is true, and no row outlives its attempts.             *)
(***************************************************************************)

\* What the dispatcher leaves alone, and which rows it changes (processDue).
LEMMA DispatcherFrame ==
  TypeOK /\ Dispatcher =>
    /\ UNCHANGED <<workVars, cancels, histVars>>
    /\ \A i \in Items :
         /\ rows'[i].attempts = rows[i].attempts
         /\ \/ rows'[i].status = rows[i].status
            \/ rows[i].status \in Claimable /\ rows'[i].status = "sending"
<1> SUFFICES ASSUME TypeOK, Dispatcher
             PROVE  /\ UNCHANGED <<workVars, cancels, histVars>>
                    /\ \A i \in Items :
                         /\ rows'[i].attempts = rows[i].attempts
                         /\ \/ rows'[i].status = rows[i].status
                            \/ rows[i].status \in Claimable /\ rows'[i].status = "sending"
  OBVIOUS
<1>1. UNCHANGED <<workVars, cancels, histVars>>
  BY DEF Dispatcher, Tick, TakeKick, TakeStop, ListDue, ListDueFails, Claim, SkipUnclaimed,
     Handoff, ScanDone
<1>2. CASE UNCHANGED rows
  BY <1>1, <1>2
<1>3. ASSUME NEW c \in batch, Claim(c)
      PROVE  \A i \in Items :
               /\ rows'[i].attempts = rows[i].attempts
               /\ \/ rows'[i].status = rows[i].status
                  \/ rows[i].status \in Claimable /\ rows'[i].status = "sending"
  BY <1>3 DEF Claim, TypeOK, TableType, Row, DispatcherType, Copy
<1>4. CASE ~\E c \in batch : Claim(c)
  BY <1>2, <1>4 DEF Dispatcher, Tick, TakeKick, TakeStop, ListDue, ListDueFails,
     SkipUnclaimed, Handoff, ScanDone
<1>5. QED
  BY <1>1, <1>3, <1>4

\* What requests, time and a stop leave alone, and which rows they change.
LEMMA RequestFrame ==
  TypeOK /\ Environment /\ ~Crash =>
    /\ UNCHANGED <<workVars, accepted, inbox, lost, faulted, unbounced, crashes>>
    /\ \A i \in Items :
         \/ rows'[i].status = rows[i].status
         \/ rows'[i].status \in {"pending", "canceled"}
<1> SUFFICES ASSUME TypeOK, Environment, ~Crash
             PROVE  /\ UNCHANGED <<workVars, accepted, inbox, lost, faulted, unbounced, crashes>>
                    /\ \A i \in Items :
                         \/ rows'[i].status = rows[i].status
                         \/ rows'[i].status \in {"pending", "canceled"}
  OBVIOUS
<1>1. UNCHANGED <<workVars, accepted, inbox, lost, faulted, unbounced, crashes>>
  BY DEF Environment, Enqueue, BackoffElapses, Retry, CancelRead, CancelSave, Stop, histVars
<1>2. ASSUME NEW i \in Items, Enqueue(i) \/ BackoffElapses(i) \/ Retry(i)
      PROVE  \A j \in Items : \/ rows'[j].status = rows[j].status
                              \/ rows'[j].status \in {"pending", "canceled"}
  BY <1>2 DEF Enqueue, BackoffElapses, Retry, TypeOK, TableType, Row
<1>3. ASSUME NEW a \in Admins, CancelSave(a)
      PROVE  \A j \in Items : \/ rows'[j].status = rows[j].status
                              \/ rows'[j].status \in {"pending", "canceled"}
  BY <1>3 DEF CancelSave, TypeOK, TableType, Row, Copy
<1>4. ASSUME UNCHANGED rows
      PROVE  \A j \in Items : \/ rows'[j].status = rows[j].status
                              \/ rows'[j].status \in {"pending", "canceled"}
  BY <1>4
<1>5. QED
  BY <1>1, <1>2, <1>3, <1>4 DEF Environment, Stop, CancelRead

\* The row that a worker saves (deliverOne).
LEMMA SavedRow ==
  ASSUME TypeOK, NEW w \in Workers, Busy(w), NEW st, Saved(w, st)
  PROVE  /\ item[w].id \in Items
         /\ \A i \in Items :
              IF i = item[w].id
              THEN rows'[i].status = st /\ rows'[i].attempts = item[w].attempts
              ELSE rows'[i] = rows[i]
  BY DEF Saved, TypeOK, TableType, WorkerType, Copy

-----------------------------------------------------------------------------
\* "sent" is only saved after an answer that the remote side gave.
AnswerInv ==
  \A w \in Workers : wpc[w] = "save" /\ reply[w] = "ok" => accepted[item[w].id] > 0
SentInv == SentWasAccepted /\ AnswerInv

\* Acceptances are never undone, and only an attempt makes one.
LEMMA WorkerSent ==
  ASSUME TypeOK, SentInv, NEW w \in Workers, Worker(w)
  PROVE  SentInv'
<1> USE DEF SentInv
<1>1. ASSUME UNCHANGED <<rows, accepted>>,
             \A v \in Workers : wpc'[v] = "save" /\ reply'[v] = "ok" =>
               wpc[v] = "save" /\ reply[v] = "ok" /\ item'[v].id = item[v].id
      PROVE  SentInv'
  BY <1>1 DEF SentWasAccepted, AnswerInv
<1>2. CASE TakeJob(w) \/ ExitWorker(w) \/ AcquireSlot(w)
  BY <1>1, <1>2 DEF TakeJob, ExitWorker, AcquireSlot, TypeOK, WorkerType, histVars
<1>3. ASSUME Busy(w), NEW r \in Replies, Return(w, r)
      PROVE  \A v \in Workers : /\ item'[v].id = item[v].id
                                /\ v # w => wpc'[v] = wpc[v] /\ reply'[v] = reply[v]
                                /\ reply'[w] = r
  BY <1>3 DEF Return, TypeOK, WorkerType, Copy
<1>4. CASE LookupMX(w)
  <2>1. UNCHANGED <<rows, accepted>> /\ Busy(w)
    BY <1>4 DEF LookupMX, histVars, Busy
  <2>2. CASE \E r \in {"temp", "perm"} : Return(w, r)
    BY <1>1, <1>3, <2>1, <2>2 DEF Replies
  <2>3. QED
    BY <1>1, <1>4, <2>1, <2>2 DEF LookupMX, TypeOK, WorkerType
<1>5. CASE HostAccepts(w) \/ ReplyLost(w) \/ HostRejects(w) \/ HostDefers(w)
  <2>1. /\ Busy(w) /\ UNCHANGED rows /\ item[w].id \in Items
        /\ \A i \in Items : accepted'[i] \in Nat /\ accepted'[i] >= accepted[i]
        /\ HostAccepts(w) => accepted'[item[w].id] > 0
    BY <1>5 DEF HostAccepts, ReplyLost, HostRejects, HostDefers, histVars, TypeOK, WorkerType,
       HistoryType, Busy, Copy
  <2>2. SentWasAccepted'
    BY <2>1 DEF SentWasAccepted, TypeOK, HistoryType
  <2>3. ASSUME NEW v \in Workers, wpc'[v] = "save", reply'[v] = "ok"
        PROVE  accepted'[item'[v].id] > 0
    <3>1. CASE HostAccepts(w)
      <4>1. item'[v].id = item[v].id /\ (v # w => wpc[v] = "save" /\ reply[v] = "ok")
        BY <1>3, <2>1, <2>3, <3>1 DEF HostAccepts, Replies
      <4>2. CASE v = w
        BY <2>1, <3>1, <4>1, <4>2
      <4>3. CASE v # w
        BY <2>1, <4>1, <4>3 DEF AnswerInv, TypeOK, HistoryType, WorkerType, Copy, Busy
      <4>4. QED
        BY <4>2, <4>3
    <3>2. CASE ~HostAccepts(w)
      <4>1. \/ UNCHANGED <<wpc, item, reply>>
            \/ Return(w, "temp") \/ Return(w, "perm")
        BY <1>5, <3>2 DEF ReplyLost, HostRejects, HostDefers, NextHost
      <4>2. item'[v].id = item[v].id /\ wpc[v] = "save" /\ reply[v] = "ok"
        BY <1>3, <2>1, <2>3, <4>1 DEF Replies
      <4>3. QED
        BY <2>1, <4>2 DEF AnswerInv, TypeOK, HistoryType, WorkerType, Copy, Busy
    <3>3. QED
      BY <3>1, <3>2
  <2>4. QED
    BY <2>2, <2>3 DEF AnswerInv
<1>6. CASE Save(w) \/ Bounce(w)
  <2>1. /\ Busy(w) /\ UNCHANGED accepted
        /\ \A v \in Workers : wpc'[v] = "save" =>
             wpc[v] = "save" /\ UNCHANGED <<item[v], reply[v]>>
    BY <1>6 DEF Save, SaveSent, SaveDeferred, SaveFailed, SaveError, Bounce, Finish, histVars,
       Busy, TypeOK, WorkerType
  <2>2. AnswerInv'
    BY <2>1 DEF AnswerInv
  <2>3. CASE UNCHANGED rows
    BY <2>1, <2>2, <2>3 DEF SentWasAccepted
  <2>4. ASSUME \/ Saved(w, "sent") /\ accepted[item[w].id] > 0
               \/ Saved(w, "deferred")
               \/ Saved(w, "failed")
        PROVE  SentWasAccepted'
    <3>1. \A i \in Items : rows'[i].status = "sent" =>
            rows[i].status = "sent" \/ accepted[i] > 0
      BY <2>1, <2>4, SavedRow
    <3>2. QED
      BY <2>1, <3>1 DEF SentWasAccepted
  <2>5. QED
    BY <1>6, <2>2, <2>3, <2>4 DEF Save, SaveSent, SaveDeferred, SaveFailed, SaveError, Bounce,
       AnswerInv
<1>7. QED
  BY <1>2, <1>4, <1>5, <1>6 DEF Worker, Attempt

\* Every step of the queue keeps "sent" true.
LEMMA StepSent == TypeOK /\ SentInv /\ [Next]_vars => SentInv'
<1> SUFFICES ASSUME TypeOK, SentInv, [Next]_vars PROVE SentInv'
  OBVIOUS
<1>1. ASSUME UNCHANGED <<workVars, accepted>>,
             \A i \in Items : rows'[i].status = "sent" => rows[i].status = "sent"
      PROVE  SentInv'
  BY <1>1 DEF SentInv, SentWasAccepted, AnswerInv, workVars
<1>2. CASE Dispatcher
  BY <1>1, <1>2, DispatcherFrame DEF histVars
<1>3. CASE Environment /\ ~Crash
  BY <1>1, <1>3, RequestFrame
<1>4. CASE Crash
  BY <1>4 DEF Crash, SentInv, SentWasAccepted, AnswerInv
<1>5. CASE UNCHANGED vars
  BY <1>1, <1>5 DEF vars, histVars
<1>6. QED
  BY <1>2, <1>3, <1>4, <1>5, WorkerSent DEF Next

(* "sent" is the truth: the remote side has accepted the message, however  *)
(* retries, cancels, crashes and other workers interleave (deliverOne).    *)
THEOREM SentWasAcceptedCorrect == Spec => []SentWasAccepted
<1>1. Init => SentInv
  BY DEF Init, SentInv, SentWasAccepted, AnswerInv
<1>2. SentInv => SentWasAccepted
  BY DEF SentInv
<1>3. QED
  BY <1>1, <1>2, StepSent, TypeCorrect, PTL DEF Spec

-----------------------------------------------------------------------------
\* A notice is written before the worker forgets the row, or is known dropped.
LEMMA StepReported == TypeOK /\ FailureIsReported /\ [Next]_vars => FailureIsReported'
<1> SUFFICES ASSUME TypeOK, FailureIsReported, [Next]_vars PROVE FailureIsReported'
  OBVIOUS
<1> DEFINE Bouncing(i) == \E w \in Workers : wpc[w] = "bounce" /\ item[w].id = i
<1>1. ASSUME \A i \in Items : rows'[i].status = "failed" => rows[i].status = "failed",
             UNCHANGED inbox, unbounced \subseteq unbounced',
             \A v \in Workers : wpc[v] = "bounce" =>
               \/ item[v].id \in unbounced'
               \/ wpc'[v] = "bounce" /\ item'[v].id = item[v].id
      PROVE  FailureIsReported'
  BY <1>1, QueueAssumption DEF FailureIsReported
<1>2. CASE Dispatcher
  BY <1>1, <1>2, DispatcherFrame DEF histVars, workVars
<1>3. CASE Environment /\ ~Crash
  BY <1>1, <1>3, RequestFrame DEF workVars
<1>4. CASE Crash
  BY <1>1, <1>4 DEF Crash
<1>5. CASE UNCHANGED vars
  BY <1>1, <1>5 DEF vars, histVars, workVars
<1>6. ASSUME NEW w \in Workers, Worker(w) PROVE FailureIsReported'
  <2>1. CASE TakeJob(w) \/ ExitWorker(w) \/ AcquireSlot(w) \/ LookupMX(w) \/ Attempt(w)
    <3>1. UNCHANGED <<rows, inbox, unbounced>> /\ wpc[w] # "bounce"
      BY <2>1 DEF TakeJob, ExitWorker, AcquireSlot, LookupMX, Attempt, HostAccepts,
         HostRejects, HostDefers, ReplyLost, histVars
    <3>2. \A v \in Workers \ {w} : wpc'[v] = wpc[v] /\ item'[v] = item[v]
      BY <2>1 DEF TakeJob, ExitWorker, AcquireSlot, LookupMX, Attempt, HostAccepts,
         HostRejects, HostDefers, ReplyLost, NextHost, Return, TypeOK, WorkerType
    <3>3. QED
      BY <1>1, <3>1, <3>2
  <2>2. CASE SaveFailed(w)
    <3>1. /\ UNCHANGED <<inbox, unbounced, item>> /\ Busy(w)
          /\ \A v \in Workers : wpc'[v] = IF v = w THEN "bounce" ELSE wpc[v]
      BY <2>2 DEF SaveFailed, histVars, Busy, TypeOK, WorkerType
    <3>2. \A i \in Items : i # item[w].id => rows'[i] = rows[i]
      BY <2>2, <3>1, SavedRow DEF SaveFailed
    <3>3. QED
      BY <3>1, <3>2, QueueAssumption DEF FailureIsReported
  <2>3. CASE SaveSent(w) \/ SaveDeferred(w) \/ SaveError(w)
    <3>1. /\ UNCHANGED <<inbox, unbounced>> /\ Busy(w) /\ wpc[w] # "bounce"
          /\ \A v \in Workers \ {w} : wpc'[v] = wpc[v] /\ item'[v] = item[v]
      BY <2>3 DEF SaveSent, SaveDeferred, SaveError, Finish, histVars, Busy, TypeOK, WorkerType
    <3>2. \A i \in Items : rows'[i].status = "failed" => rows[i].status = "failed"
      BY <2>3, <3>1, SavedRow DEF SaveSent, SaveDeferred, SaveError
    <3>3. QED
      BY <1>1, <3>1, <3>2
  <2>4. CASE Bounce(w)
    <3>1. /\ UNCHANGED rows /\ item[w].id \in Items
          /\ \A v \in Workers \ {w} : wpc'[v] = wpc[v] /\ item'[v] = item[v]
      BY <2>4 DEF Bounce, Finish, Busy, TypeOK, WorkerType, Copy
    <3>2. /\ \A i \in Items : inbox[i] > 0 => inbox'[i] > 0
          /\ unbounced \subseteq unbounced'
          /\ item[w].id \in LocalSenders =>
               inbox'[item[w].id] > 0 \/ item[w].id \in unbounced'
      BY <2>4, <3>1 DEF Bounce, TypeOK, HistoryType
    <3>3. QED
      BY <3>1, <3>2, QueueAssumption DEF FailureIsReported
  <2>5. QED
    BY <1>6, <2>1, <2>2, <2>3, <2>4 DEF Worker, Save
<1>7. QED
  BY <1>2, <1>3, <1>4, <1>5, <1>6 DEF Next

(* Every failed message of a local sender is reported, or a crash or a     *)
(* failed write is to blame (deliverOne, bounce).                          *)
THEOREM FailureIsReportedCorrect == Spec => []FailureIsReported
<1>1. Init => FailureIsReported
  BY QueueAssumption DEF Init, FailureIsReported
<1>2. QED
  BY <1>1, StepReported, TypeCorrect, PTL DEF Spec

-----------------------------------------------------------------------------
\* Every copy that is still to be tried has an attempt left, wherever it is.
RowBudget ==
  \A i \in Items :
    /\ rows[i].attempts <= MaxAttempts
    /\ rows[i].status \in Claimable => rows[i].attempts < MaxAttempts
QueueBudget ==
  /\ \A c \in batch \union hand : c.attempts < MaxAttempts
  /\ \A k \in 1..Len(jobs) : jobs[k].attempts < MaxAttempts
WorkBudget ==
  \A w \in Workers :
    /\ wpc[w] \in {"acquire", "lookup", "connect"} => item[w].attempts < MaxAttempts
    /\ wpc[w] \in {"save", "bounce"} => item[w].attempts <= MaxAttempts
CancelBudget == \A a \in Admins : \A c \in cancels[a] : c.attempts <= MaxAttempts
BudgetInv == RowBudget /\ QueueBudget /\ WorkBudget /\ CancelBudget

\* A scan copies rows with attempts left, and copies keep what they have.
LEMMA DispatcherBudget == TypeOK /\ BudgetInv /\ Dispatcher => BudgetInv'
<1> SUFFICES ASSUME TypeOK, BudgetInv, Dispatcher PROVE BudgetInv'
  OBVIOUS
<1> USE DEF BudgetInv
<1>1. WorkBudget' /\ CancelBudget'
  BY DispatcherFrame DEF WorkBudget, CancelBudget, workVars
<1>2. RowBudget'
  BY DispatcherFrame DEF RowBudget, Claimable
<1>3. QueueBudget'
  <2>1. CASE UNCHANGED jobs /\ batch' \union hand' \subseteq batch \union hand
    BY <2>1 DEF QueueBudget
  <2>2. CASE ListDue
    BY <2>2 DEF ListDue, DueRows, CopyOf, RowBudget, QueueBudget, chanVars
  <2>3. CASE Handoff
    <3>1. PICK c \in hand : jobs' = Append(jobs, c)
      BY <2>3 DEF Handoff
    <3>1a. c \in Copy
      BY <3>1 DEF TypeOK, DispatcherType
    <3>2. /\ Len(jobs') = Len(jobs) + 1 /\ Len(jobs) \in Nat
          /\ \A k \in 1..Len(jobs') : jobs'[k] = IF k = Len(jobs) + 1 THEN c ELSE jobs[k]
      BY <3>1, <3>1a DEF TypeOK, ChannelType
    <3>3. ASSUME NEW k \in 1..Len(jobs'), k # Len(jobs) + 1
          PROVE  k \in 1..Len(jobs) /\ jobs'[k] = jobs[k]
      BY <3>2, <3>3
    <3>4. QED
      BY <2>3, <3>1, <3>2, <3>3 DEF Handoff, QueueBudget
  <2>4. QED
    BY <2>1, <2>2, <2>3 DEF Dispatcher, Tick, TakeKick, TakeStop, ListDueFails, Claim,
       SkipUnclaimed, ScanDone, chanVars
<1>4. QED
  BY <1>1, <1>2, <1>3

\* A worker counts one attempt and saves only what GivesUp lets it (deliverOne).
LEMMA WorkerBudget ==
  ASSUME TypeOK, BudgetInv, NEW w \in Workers, Worker(w)
  PROVE  BudgetInv'
<1> USE DEF BudgetInv
<1>1. UNCHANGED <<batch, hand, cancels>> /\ CancelBudget'
  BY DEF Worker, TakeJob, ExitWorker, AcquireSlot, LookupMX, Attempt, HostAccepts, HostRejects,
     HostDefers, ReplyLost, Save, SaveSent, SaveDeferred, SaveFailed, SaveError, Bounce,
     dispVars, CancelBudget
<1>2. CASE TakeJob(w)
  <2>1. /\ jobs[1] = Head(jobs) /\ 1 \in 1..Len(jobs)
        /\ \A k \in 1..Len(jobs') : jobs'[k] = jobs[k + 1] /\ k + 1 \in 1..Len(jobs)
    BY <1>2 DEF TakeJob, TypeOK, ChannelType
  <2>2. QueueBudget'
    BY <1>1, <2>1 DEF QueueBudget
  <2>3. WorkBudget'
    BY <1>2, <2>1 DEF TakeJob, WorkBudget, QueueBudget, TypeOK, WorkerType
  <2>4. QED
    BY <1>1, <1>2, <2>2, <2>3 DEF TakeJob, RowBudget
<1>3. ASSUME UNCHANGED jobs PROVE QueueBudget'
  BY <1>1, <1>3 DEF QueueBudget
<1>4. ASSUME wpc[w] \in {"lookup", "connect"}, NEW r, Return(w, r) PROVE WorkBudget'
  <2>1. item[w].attempts \in Nat /\ item'[w].attempts = item[w].attempts + 1
    BY <1>4 DEF Return, TypeOK, WorkerType, Copy, Busy
  <2>2. item'[w].attempts <= MaxAttempts
    BY <1>4, <2>1, QueueAssumption DEF WorkBudget
  <2>3. /\ wpc'[w] = "save"
        /\ \A v \in Workers \ {w} : wpc'[v] = wpc[v] /\ item'[v] = item[v]
    BY <1>4 DEF Return, TypeOK, WorkerType
  <2>4. QED
    BY <2>2, <2>3 DEF WorkBudget
<1>5. CASE ExitWorker(w) \/ AcquireSlot(w) \/ LookupMX(w) \/ Attempt(w)
  <2>1. WorkBudget'
    <3>1. CASE ExitWorker(w) \/ AcquireSlot(w)
      BY <3>1 DEF ExitWorker, AcquireSlot, WorkBudget, TypeOK, WorkerType
    <3>2. CASE LookupMX(w)
      BY <1>4, <3>2 DEF LookupMX, WorkBudget, TypeOK, WorkerType
    <3>3. CASE Attempt(w)
      BY <1>4, <3>3 DEF Attempt, HostAccepts, HostRejects, HostDefers, ReplyLost, NextHost,
         WorkBudget
    <3>4. QED
      BY <1>5, <3>1, <3>2, <3>3
  <2>2. UNCHANGED <<rows, jobs>>
    BY <1>5 DEF ExitWorker, AcquireSlot, LookupMX, Attempt, HostAccepts, HostRejects,
       HostDefers, ReplyLost, chanVars
  <2>3. QED
    BY <1>1, <1>3, <2>1, <2>2 DEF RowBudget
<1>6. CASE Save(w) \/ Bounce(w)
  <2>1. Busy(w) /\ UNCHANGED jobs
    BY <1>6 DEF Save, SaveSent, SaveDeferred, SaveFailed, SaveError, Bounce, Busy, chanVars
  <2>2. WorkBudget'
    BY <1>6 DEF Save, SaveSent, SaveDeferred, SaveFailed, SaveError, Bounce, Finish, WorkBudget,
       TypeOK, WorkerType
  <2>3. RowBudget'
    <3>1. CASE UNCHANGED rows
      BY <3>1 DEF RowBudget
    <3>2. ASSUME NEW st, Saved(w, st), wpc[w] = "save",
                 st \in Claimable => item[w].attempts < MaxAttempts
          PROVE  RowBudget'
      <4>1. item[w].attempts <= MaxAttempts
        BY <3>2 DEF WorkBudget
      <4>2. QED
        BY <2>1, <3>2, <4>1, SavedRow DEF RowBudget
    <3>3. CASE SaveDeferred(w)
      <4>1. item[w].attempts \in Nat
        BY <2>1 DEF TypeOK, WorkerType, Copy
      <4>2. item[w].attempts < MaxAttempts
        BY <3>3, <4>1, QueueAssumption DEF SaveDeferred, GivesUp
      <4>3. QED
        BY <3>2, <3>3, <4>2 DEF SaveDeferred
    <3>4. QED
      BY <1>6, <3>1, <3>2, <3>3 DEF Save, SaveSent, SaveFailed, SaveError, Bounce, Claimable
  <2>4. QED
    BY <1>1, <1>3, <2>1, <2>2, <2>3
<1>7. QED
  BY <1>2, <1>5, <1>6 DEF Worker

\* A retry starts over, and a cancel writes back a count it has read.
LEMMA EnvironmentBudget == TypeOK /\ BudgetInv /\ Environment => BudgetInv'
<1> SUFFICES ASSUME TypeOK, BudgetInv, Environment PROVE BudgetInv'
  OBVIOUS
<1> USE DEF BudgetInv
<1>1. CASE Crash
  <2>1. Len(jobs') = 0
    BY <1>1 DEF Crash
  <2>2. QED
    BY <1>1, <2>1 DEF Crash, RowBudget, QueueBudget, WorkBudget, CancelBudget
<1>2. ASSUME ~Crash PROVE QueueBudget' /\ WorkBudget'
  <2>1. UNCHANGED <<batch, hand, jobs, workVars>>
    BY <1>2 DEF Environment, Enqueue, BackoffElapses, Retry, CancelRead, CancelSave, Stop,
       dispVars, chanVars
  <2>2. QED
    BY <2>1 DEF QueueBudget, WorkBudget, workVars
<1>3. ASSUME NEW i \in Items, Enqueue(i) \/ BackoffElapses(i) \/ Retry(i)
      PROVE  RowBudget' /\ CancelBudget'
  <2>1. \A j \in Items : \/ rows'[j].status = rows[j].status /\ rows'[j].attempts = rows[j].attempts
                         \/ rows'[j].attempts = 0
    BY <1>3 DEF Enqueue, BackoffElapses, Retry, TypeOK, TableType, Row
  <2>2. QED
    BY <1>3, <2>1, QueueAssumption DEF Enqueue, BackoffElapses, Retry, RowBudget, CancelBudget
<1>4. ASSUME NEW a \in Admins, NEW i \in Items, CancelRead(a, i)
      PROVE  RowBudget' /\ CancelBudget'
  BY <1>4 DEF CancelRead, CopyOf, RowBudget, CancelBudget, TypeOK, TableType
<1>5. ASSUME NEW a \in Admins, CancelSave(a) PROVE RowBudget' /\ CancelBudget'
  <2>1. \A j \in Items :
          \/ rows'[j] = rows[j]
          \/ \E c \in cancels[a] : rows'[j].status = "canceled" /\ rows'[j].attempts = c.attempts
    BY <1>5 DEF CancelSave, TypeOK, TableType, Copy
  <2>2. RowBudget'
    BY <2>1 DEF RowBudget, CancelBudget, Claimable
  <2>3. CancelBudget'
    BY <1>5 DEF CancelSave, CancelBudget, TypeOK, TableType
  <2>4. QED
    BY <2>2, <2>3
<1>6. CASE Stop
  BY <1>6 DEF Stop, dispVars, workVars, RowBudget, QueueBudget, WorkBudget, CancelBudget
<1>7. QED
  BY <1>1, <1>2, <1>3, <1>4, <1>5, <1>6 DEF Environment

(* No row outlives its attempts: a row waiting for another attempt has one *)
(* left, whatever retries, cancels and crashes did (deliverOne, Cancel).   *)
THEOREM AttemptBudgetCorrect == Spec => []AttemptBudget
<1>1. Init => BudgetInv
  <2> SUFFICES ASSUME Init PROVE BudgetInv
    OBVIOUS
  <2>1. Len(jobs) = 0
    BY DEF Init
  <2>2. QED
    BY <2>1, QueueAssumption
    DEF Init, BudgetInv, RowBudget, QueueBudget, WorkBudget, CancelBudget
<1>2. BudgetInv /\ UNCHANGED vars => BudgetInv'
  BY DEF vars, dispVars, chanVars, workVars, BudgetInv, RowBudget, QueueBudget, WorkBudget,
     CancelBudget
<1>3. TypeOK /\ BudgetInv /\ [Next]_vars => BudgetInv'
  BY <1>2, DispatcherBudget, WorkerBudget, EnvironmentBudget DEF Next
<1>4. TypeOK /\ BudgetInv => AttemptBudget
  <2> SUFFICES ASSUME TypeOK, BudgetInv, NEW w \in Workers, Busy(w)
               PROVE  item[w].attempts <= MaxAttempts
    BY DEF BudgetInv, RowBudget, AttemptBudget
  <2>1. item[w].attempts \in Nat
    BY DEF TypeOK, WorkerType, Copy
  <2>2. wpc[w] \in {"acquire", "lookup", "connect", "save", "bounce"}
    BY DEF TypeOK, WorkerType, WorkerPC, InsideSlot, Busy
  <2>3. QED
    BY <2>1, <2>2, QueueAssumption DEF BudgetInv, WorkBudget
<1>5. QED
  BY <1>1, <1>3, <1>4, TypeCorrect, PTL DEF Spec

-----------------------------------------------------------------------------
(***************************************************************************)
(* Proofs that relate a row to what happened to its message: a delivered   *)
(* message stays delivered, and a non-delivery notice is honest.           *)
(***************************************************************************)

(* What exclusive claims rest on over time: while a copy is held that no   *)
(* retry hit, the row is still as Store.Claim left it, or was canceled.    *)
HeldStatus == \A i \in Held \ overlapped : rows[i].status \in {"sending", "canceled"}
OnlyRetriesOverlap == \A i \in overlapped : retries[i] > 0
HeldInv == HeldStatus /\ OnlyRetriesOverlap

\* A worker never takes a copy from nowhere (deliverOne).
LEMMA WorkerHeld ==
  ASSUME TypeOK, ClaimInv, NEW w \in Workers, Worker(w)
  PROVE  /\ Held' \subseteq Held
         /\ UNCHANGED <<overlapped, retries>>
         /\ Save(w) => \A i \in Held' \ overlapped : i # item[w].id
         /\ ~Save(w) => UNCHANGED rows
<1>1. UNCHANGED <<overlapped, retries>> /\ (~Save(w) => UNCHANGED rows)
  BY DEF Worker, TakeJob, ExitWorker, AcquireSlot, LookupMX, Attempt, HostAccepts, HostRejects,
     HostDefers, ReplyLost, Save, SaveSent, SaveDeferred, SaveFailed, SaveError, Bounce, histVars
<1>2. CASE TakeJob(w)
  <2>1. wpc[w] = "idle"
    BY <1>2 DEF TakeJob
  <2>2. ~Save(w)
    BY <2>1 DEF Save, SaveSent, SaveDeferred, SaveFailed, SaveError
  <2>3. QED
    BY <1>1, <1>2, <2>2, JobTaken
<1>3. CASE Save(w)
  BY <1>1, <1>3, CopySaved
<1>4. CASE ~Save(w) /\ (ExitWorker(w) \/ AcquireSlot(w) \/ LookupMX(w) \/ Attempt(w) \/ Bounce(w))
  <2>1. Working' = Working /\ \A v \in Working : item'[v].id = item[v].id
    BY <1>4 DEF ExitWorker, AcquireSlot, LookupMX, Attempt, HostAccepts, HostRejects,
       HostDefers, ReplyLost, NextHost, Return, Bounce, Finish, Working, TypeOK, WorkerType,
       WorkerPC, Busy, Copy
  <2>2. UNCHANGED <<jobs, hand>>
    BY <1>4 DEF ExitWorker, AcquireSlot, LookupMX, Attempt, HostAccepts, HostRejects,
       HostDefers, ReplyLost, Bounce, chanVars, dispVars
  <2>3. Held' = Held
    BY <2>1, <2>2 DEF Held, InHand, InChannel, AtWork
  <2>4. QED
    BY <1>1, <1>4, <2>3
<1>5. QED
  BY <1>2, <1>3, <1>4 DEF Worker

\* A scan adds at most the row it has just claimed (Store.Claim).
LEMMA DispatcherHeld ==
  ASSUME TypeOK, ClaimInv, Dispatcher
  PROVE  \A i \in Held' : i \in Held \/ (rows[i].status \in Claimable /\ rows'[i].status = "sending")
<1>1. AtWork' = AtWork
  <2>1. UNCHANGED <<wpc, item>>
    BY DispatcherFrame DEF workVars
  <2>2. QED
    BY <2>1 DEF AtWork, Working
<1>2. CASE UNCHANGED <<hand, jobs>>
  BY <1>1, <1>2 DEF Held, InHand, InChannel
<1>3. ASSUME NEW c \in batch, Claim(c)
      PROVE  \A i \in Held' :
               i \in Held \/ (rows[i].status \in Claimable /\ rows'[i].status = "sending")
  <2>1. InHand' = {c.id} /\ InChannel' = InChannel
    BY <1>3 DEF Claim, InHand, InChannel, chanVars
  <2>2. rows[c.id].status \in Claimable /\ rows'[c.id].status = "sending"
    <3>1. c.id \in Items
      BY <1>3 DEF TypeOK, DispatcherType, Copy
    <3>2. QED
      BY <1>3, <3>1 DEF Claim, TypeOK, TableType, Row
  <2>3. QED
    BY <1>1, <2>1, <2>2 DEF Held
<1>4. CASE Handoff
  <2>1. PICK c \in hand : jobs' = Append(jobs, c)
    BY <1>4 DEF Handoff
  <2>2. c \in Copy
    BY <2>1 DEF TypeOK, DispatcherType
  <2>3. /\ Len(jobs') = Len(jobs) + 1 /\ Len(jobs) \in Nat
        /\ \A k \in 1..Len(jobs') : jobs'[k] = IF k = Len(jobs) + 1 THEN c ELSE jobs[k]
    BY <2>1, <2>2 DEF TypeOK, ChannelType
  <2>4. ASSUME NEW k \in 1..Len(jobs') PROVE jobs'[k].id \in InHand \union InChannel
    <3>1. CASE k = Len(jobs) + 1
      BY <2>1, <2>3, <3>1 DEF InHand
    <3>2. CASE k # Len(jobs) + 1
      BY <2>3, <3>2 DEF InChannel
    <3>3. QED
      BY <3>1, <3>2
  <2>5. InHand' = {} /\ InChannel' \subseteq InHand \union InChannel
    <3>1. InHand' = {}
      BY <1>4 DEF Handoff, InHand
    <3>2. InChannel' = {jobs'[k].id : k \in 1..Len(jobs')}
      BY DEF InChannel
    <3>3. QED
      BY <2>4, <3>1, <3>2
  <2>6. QED
    BY <1>1, <2>5 DEF Held
<1>5. QED
  BY <1>2, <1>3, <1>4 DEF Dispatcher, Tick, TakeKick, TakeStop, ListDue, ListDueFails,
     SkipUnclaimed, ScanDone, chanVars

\* Requests leave the copies where they are; a crash drops them all.
LEMMA EnvironmentHeld ==
  ASSUME Environment
  PROVE  IF Crash THEN Held' = {} ELSE UNCHANGED <<Held, InHand, InChannel, AtWork>>
<1>1. CASE Crash
  <2>1. InHand' = {} /\ Working' = {} /\ Len(jobs') = 0
    BY <1>1 DEF Crash, InHand, Working
  <2>2. QED
    BY <1>1, <2>1 DEF Held, InChannel, AtWork
<1>2. CASE ~Crash
  <2>1. UNCHANGED <<hand, jobs, workVars>>
    BY <1>2 DEF Environment, Enqueue, BackoffElapses, Retry, CancelRead, CancelSave, Stop,
       dispVars, chanVars
  <2>2. QED
    BY <1>2, <2>1 DEF Held, InHand, InChannel, AtWork, Working, workVars
<1>3. QED
  BY <1>1, <1>2

\* Every step preserves the status of held rows.
LEMMA StepHeld == TypeOK /\ ClaimInv /\ HeldInv /\ [Next]_vars => HeldInv'
<1> SUFFICES ASSUME TypeOK, ClaimInv, HeldInv, [Next]_vars PROVE HeldInv'
  OBVIOUS
<1> USE DEF HeldInv
<1>1. ASSUME UNCHANGED <<overlapped, retries>>,
             \A i \in Held' \ overlapped :
               \/ i \in Held /\ rows'[i].status = rows[i].status
               \/ rows'[i].status \in {"sending", "canceled"}
      PROVE  HeldInv'
  BY <1>1 DEF HeldStatus, OnlyRetriesOverlap
<1>2. CASE Dispatcher
  <2>1. UNCHANGED <<overlapped, retries>>
    BY <1>2, DispatcherFrame DEF histVars
  <2>2. \A i \in Held' : \/ i \in Held /\ rows'[i].status = rows[i].status
                         \/ rows'[i].status = "sending"
    BY <1>2, DispatcherHeld, DispatcherFrame, HeldAreItems
  <2>3. QED
    BY <1>1, <2>1, <2>2
<1>3. ASSUME NEW w \in Workers, Worker(w) PROVE HeldInv'
  <2>1. CASE UNCHANGED rows
    BY <1>1, <1>3, <2>1, WorkerHeld
  <2>2. ASSUME Save(w), NEW st, Saved(w, st) PROVE HeldInv'
    <3>1. Busy(w)
      BY <2>2 DEF Save, SaveSent, SaveDeferred, SaveFailed, SaveError, Busy
    <3>2. \A i \in Items : i # item[w].id => rows'[i] = rows[i]
      BY <2>2, <3>1, SavedRow
    <3>3. QED
      BY <1>1, <1>3, <2>2, <3>2, WorkerHeld, HeldAreItems
  <2>3. QED
    BY <1>3, <2>1, <2>2, WorkerHeld DEF Save, SaveSent, SaveDeferred, SaveFailed, SaveError
<1>4. CASE Environment /\ ~Crash
  <2>1. Held' = Held
    BY <1>4, EnvironmentHeld
  <2>2. ASSUME NEW i \in Items, Enqueue(i) PROVE HeldInv'
    <3>1. i \notin Held
      BY <2>2 DEF Enqueue, ClaimInv, HeldExists
    <3>2. \A j \in Items : j # i => rows'[j] = rows[j]
      BY <2>2 DEF Enqueue, TypeOK, TableType
    <3>3. QED
      BY <1>1, <2>1, <2>2, <3>1, <3>2, HeldAreItems DEF Enqueue, histVars
  <2>3. ASSUME NEW i \in Items, BackoffElapses(i) PROVE HeldInv'
    <3>1. \A j \in Items : rows'[j].status = rows[j].status
      BY <2>3 DEF BackoffElapses, TypeOK, TableType, Row
    <3>2. QED
      BY <1>1, <2>1, <2>3, <3>1, HeldAreItems DEF BackoffElapses, histVars
  <2>4. ASSUME NEW i \in Items, Retry(i) PROVE HeldInv'
    <3>1. /\ \A j \in Items : j # i => rows'[j] = rows[j]
          /\ \A j \in Items : retries'[j] = IF j = i THEN retries[i] + 1 ELSE retries[j]
          /\ retries[i] \in Nat
      BY <2>4 DEF Retry, TypeOK, TableType, HistoryType
    <3>2. overlapped' = IF i \in Held THEN overlapped \union {i} ELSE overlapped
      BY <2>4 DEF Retry
    <3>3. HeldStatus'
      BY <2>1, <3>1, <3>2, HeldAreItems DEF HeldStatus
    <3>4. OnlyRetriesOverlap'
      BY <3>1, <3>2 DEF OnlyRetriesOverlap, TypeOK, HistoryType
    <3>5. QED
      BY <3>3, <3>4
  <2>5. ASSUME NEW a \in Admins, CancelSave(a) PROVE HeldInv'
    <3>1. \A j \in Items : rows'[j] = rows[j] \/ rows'[j].status = "canceled"
      BY <2>5 DEF CancelSave, TypeOK, TableType, Copy
    <3>2. QED
      BY <1>1, <2>1, <2>5, <3>1, HeldAreItems DEF CancelSave, histVars
  <2>6. CASE UNCHANGED <<rows, overlapped, retries>>
    BY <1>1, <2>1, <2>6
  <2>7. QED
    BY <1>4, <2>2, <2>3, <2>4, <2>5, <2>6 DEF Environment, Stop, CancelRead, histVars
<1>5. CASE Crash
  BY <1>1, <1>5, EnvironmentHeld DEF Crash, Environment
<1>6. CASE UNCHANGED vars
  <2>1. Held' = Held
    BY <1>6 DEF vars, dispVars, chanVars, workVars, Held, InHand, InChannel, AtWork, Working
  <2>2. QED
    BY <1>1, <1>6, <2>1 DEF vars, histVars
<1>7. QED
  BY <1>2, <1>3, <1>4, <1>5, <1>6 DEF Next

\* A held row stays as it was claimed until it is saved, canceled or retried.
THEOREM HeldInvCorrect == Spec => []HeldInv
<1>1. Init => HeldInv
  <2> SUFFICES ASSUME Init PROVE HeldInv
    OBVIOUS
  <2>1. Len(jobs) = 0 /\ InHand = {} /\ Working = {}
    BY DEF Init, InHand, Working
  <2>2. Held = {}
    BY <2>1 DEF Held, InChannel, AtWork
  <2>3. QED
    BY <2>2 DEF Init, HeldInv, HeldStatus, OnlyRetriesOverlap
<1>2. QED
  BY <1>1, StepHeld, ClaimCorrect, TypeCorrect, PTL DEF Spec

-----------------------------------------------------------------------------
\* No step but a retry, an overlapped save or a late cancel takes "sent" away.
LEMMA StepKeepsSent ==
  ASSUME TypeOK, ClaimInv, HeldInv, [Next]_vars, NEW i \in Items,
         rows[i].status = "sent", rows'[i].status # "sent"
  PROVE  \/ retries'[i] > retries[i] \/ i \in overlapped
         \/ \E a \in Admins : cancels'[a] = {} /\ \E c \in cancels[a] : c.id = i
<1>1. ~Dispatcher
  BY DispatcherFrame DEF Claimable
<1>2. ASSUME NEW w \in Workers, Worker(w) PROVE i \in overlapped
  <2>1. Save(w)
    BY <1>2, WorkerHeld
  <2>2. i = item[w].id
    <3>1. Busy(w)
      BY <2>1 DEF Save, SaveSent, SaveDeferred, SaveFailed, SaveError, Busy
    <3>2. \A st : Saved(w, st) => i = item[w].id
      BY <3>1, SavedRow
    <3>3. QED
      BY <2>1, <3>2 DEF Save, SaveSent, SaveDeferred, SaveFailed, SaveError
  <2>3. i \in Held
    BY <2>1, <2>2, CopySaved
  <2>4. QED
    BY <2>3 DEF HeldInv, HeldStatus
<1>3. ASSUME NEW j \in Items, Enqueue(j) \/ BackoffElapses(j) PROVE FALSE
  BY <1>3 DEF Enqueue, BackoffElapses, TypeOK, TableType, Row
<1>4. ASSUME NEW j \in Items, Retry(j) PROVE retries'[i] > retries[i]
  <2>1. i = j
    BY <1>4 DEF Retry, TypeOK, TableType
  <2>2. QED
    BY <1>4, <2>1 DEF Retry, TypeOK, HistoryType
<1>5. ASSUME NEW a \in Admins, CancelSave(a)
      PROVE  cancels'[a] = {} /\ \E c \in cancels[a] : c.id = i
  BY <1>5 DEF CancelSave, TypeOK, TableType, Copy
<1>6. rows' # rows
  OBVIOUS
<1>7. QED
  BY <1>1, <1>2, <1>3, <1>4, <1>5, <1>6 DEF Next, Environment, CancelRead, Stop, Crash, vars

(* A delivered message stays delivered: only a retry, a copy that a retry  *)
(* put in flight, or a cancel that read the row before it was sent may     *)
(* overwrite "sent" (deliverOne, Cancel, Retry).                           *)
THEOREM SentIsKeptCorrect == Spec => SentIsKept
<1>1. TypeOK /\ ClaimInv /\ HeldInv /\ [Next]_vars =>
        [\A i \in Items :
           rows[i].status = "sent" /\ rows'[i].status # "sent" =>
             \/ retries'[i] > retries[i] \/ i \in overlapped
             \/ \E a \in Admins : cancels'[a] = {} /\ \E c \in cancels[a] : c.id = i]_vars
  BY StepKeepsSent
<1>2. QED
  BY <1>1, HeldInvCorrect, ClaimCorrect, TypeCorrect, PTL DEF Spec, SentIsKept

-----------------------------------------------------------------------------
(* The rows whose worker has an acceptance to save, and the rows a notice  *)
(* was written or is being written for.                                    *)
Answered == {item[w].id : w \in {v \in Workers : wpc[v] = "save" /\ reply[v] = "ok"}}
Bouncing == {item[w].id : w \in {v \in Workers : wpc[v] = "bounce"}}
Noticed == {i \in Items : inbox[i] > 0} \union Bouncing

(* Of a message that was neither retried nor lost a reply: once accepted,  *)
(* all that is left to do is to save that; once given up, nothing is left. *)
Clean == {i \in Items : retries[i] = 0 /\ lost[i] = 0}
NoticeInv ==
  \A i \in Clean :
    /\ accepted[i] > 0 =>
         /\ rows[i].status \in {"sending", "sent", "canceled"}
         /\ i \notin Noticed
         /\ i \in Held => i \in Answered
    /\ i \in Noticed => rows[i].status \in {"failed", "canceled"} /\ i \notin Held

\* Steps that neither deliver nor give up a message.
LEMMA NoticeStays ==
  ASSUME NoticeInv, Clean' \subseteq Clean,
         \A i \in Clean' :
           /\ accepted'[i] = accepted[i]
           /\ i \in Noticed' => i \in Noticed
           /\ \/ rows[i].status \in {"absent", "pending", "deferred"}
              \/ /\ rows'[i].status \in {rows[i].status, "canceled"}
                 /\ i \in Held' => i \in Held
                 /\ i \in Answered => i \in Answered' \/ i \notin Held'
  PROVE  NoticeInv'
<1> SUFFICES ASSUME NEW i \in Clean'
             PROVE  /\ accepted'[i] > 0 =>
                         /\ rows'[i].status \in {"sending", "sent", "canceled"}
                         /\ i \notin Noticed'
                         /\ i \in Held' => i \in Answered'
                    /\ i \in Noticed' =>
                         rows'[i].status \in {"failed", "canceled"} /\ i \notin Held'
  BY DEF NoticeInv
<1>1. /\ accepted[i] > 0 =>
           /\ rows[i].status \in {"sending", "sent", "canceled"}
           /\ i \notin Noticed
           /\ i \in Held => i \in Answered
      /\ i \in Noticed => rows[i].status \in {"failed", "canceled"} /\ i \notin Held
  BY DEF NoticeInv
<1>2. QED
  BY <1>1

\* A worker before its first answer, or with its notice, changes no outcome.
LEMMA WorkerNotice ==
  ASSUME TypeOK, ClaimInv, HeldInv, NoticeInv, NEW w \in Workers, Worker(w)
  PROVE  NoticeInv'
<1>1. Held' \subseteq Held /\ UNCHANGED <<overlapped, retries>>
  BY WorkerHeld
<1>2. \A i \in Clean : i \notin overlapped
  BY DEF Clean, HeldInv, OnlyRetriesOverlap
<1>3. CASE TakeJob(w) \/ ExitWorker(w) \/ AcquireSlot(w)
  <2>1. /\ UNCHANGED <<rows, reply, accepted, inbox, lost>>
        /\ \A v \in Workers : wpc[v] \in {"save", "bounce"} \/ wpc'[v] \in {"save", "bounce"} =>
             wpc'[v] = wpc[v] /\ item'[v] = item[v]
    BY <1>3 DEF TakeJob, ExitWorker, AcquireSlot, TypeOK, WorkerType, histVars
  <2>2. Answered' = Answered /\ Noticed' = Noticed
    BY <2>1 DEF Answered, Noticed, Bouncing
  <2>3. Clean' = Clean
    BY <1>1, <2>1 DEF Clean
  <2>4. QED
    BY <1>1, <2>1, <2>2, <2>3, NoticeStays
<1>4. CASE LookupMX(w) \/ Attempt(w)
  <2>1. wpc[w] \in {"lookup", "connect"} /\ item[w].id \in Items
    BY <1>4 DEF LookupMX, Attempt, HostAccepts, HostRejects, HostDefers, ReplyLost, TypeOK,
       WorkerType, Copy, Busy
  <2>2. /\ UNCHANGED <<rows, inbox>>
        /\ wpc'[w] \in {"lookup", "connect", "save"} /\ item'[w].id = item[w].id
        /\ \A v \in Workers \ {w} :
             wpc'[v] = wpc[v] /\ item'[v] = item[v] /\ reply'[v] = reply[v]
    BY <1>4, <2>1 DEF LookupMX, Attempt, HostAccepts, HostRejects, HostDefers, ReplyLost, NextHost,
       Return, TypeOK, WorkerType, Copy, Busy, histVars
  <2>3. Noticed' = Noticed
    BY <2>1, <2>2 DEF Noticed, Bouncing
  <2>4. Answered \subseteq Answered'
    BY <2>1, <2>2 DEF Answered
  <2>5. CASE UNCHANGED <<accepted, lost>>
    <3>1. Clean' = Clean
      BY <1>1, <2>5 DEF Clean
    <3>2. QED
      BY <1>1, <2>2, <2>3, <2>4, <2>5, <3>1, NoticeStays
  <2>6. CASE ReplyLost(w)
    <3>1. \A i \in Items : IF i = item[w].id THEN lost'[i] > 0
                          ELSE lost'[i] = lost[i] /\ accepted'[i] = accepted[i]
      BY <2>1, <2>6 DEF ReplyLost, TypeOK, HistoryType
    <3>2. Clean' \subseteq Clean /\ item[w].id \notin Clean'
      BY <1>1, <2>1, <3>1 DEF Clean
    <3>3. \A i \in Clean' : accepted'[i] = accepted[i]
      BY <3>1, <3>2 DEF Clean
    <3>4. QED
      BY <1>1, <2>2, <2>3, <2>4, <3>2, <3>3, NoticeStays
  <2>7. CASE HostAccepts(w)
    <3> DEFINE m == item[w].id
    <3>1. /\ \A i \in Items : i # m => accepted'[i] = accepted[i]
          /\ Clean' = Clean
      BY <1>1, <2>7 DEF HostAccepts, Clean, TypeOK, HistoryType
    <3>2. m \in Answered'
      <4>1. wpc'[w] = "save" /\ reply'[w] = "ok" /\ item'[w].id = m
        BY <2>2, <2>7 DEF HostAccepts, Return, TypeOK, WorkerType
      <4>2. QED
        BY <4>1 DEF Answered
    <3>3. m \in Held
      BY <2>1 DEF Held, AtWork, Working
    <3>4. ASSUME NEW i \in Clean
          PROVE  /\ accepted'[i] > 0 =>
                      /\ rows'[i].status \in {"sending", "sent", "canceled"}
                      /\ i \notin Noticed'
                      /\ i \in Held' => i \in Answered'
                 /\ i \in Noticed' =>
                      rows'[i].status \in {"failed", "canceled"} /\ i \notin Held'
      <4>1. /\ accepted[i] > 0 =>
                 /\ rows[i].status \in {"sending", "sent", "canceled"}
                 /\ i \notin Noticed
                 /\ i \in Held => i \in Answered
            /\ i \in Noticed => rows[i].status \in {"failed", "canceled"} /\ i \notin Held
        BY DEF NoticeInv
      <4>2. CASE i = m
        <5>1. rows[i].status \in {"sending", "canceled"}
          BY <1>2, <3>3, <4>2 DEF HeldInv, HeldStatus
        <5>2. QED
          BY <2>2, <2>3, <3>2, <3>3, <4>1, <4>2, <5>1
      <4>3. CASE i # m
        BY <1>1, <2>2, <2>3, <2>4, <3>1, <4>1, <4>3 DEF Clean
      <4>4. QED
        BY <4>2, <4>3
    <3>5. QED
      BY <3>1, <3>4 DEF NoticeInv
  <2>8. QED
    BY <1>4, <2>5, <2>6, <2>7 DEF LookupMX, Attempt, HostRejects, HostDefers, histVars
<1>5. CASE Bounce(w)
  <2>1. /\ UNCHANGED <<rows, accepted, lost>> /\ item[w].id \in Bouncing
        /\ \A v \in Workers \ {w} :
             wpc'[v] = wpc[v] /\ item'[v] = item[v] /\ reply'[v] = reply[v]
        /\ wpc[w] = "bounce" /\ wpc'[w] = "idle"
    BY <1>5 DEF Bounce, Bouncing, Finish, TypeOK, WorkerType
  <2>2. \A i \in Items : i # item[w].id => inbox'[i] = inbox[i]
    BY <1>5 DEF Bounce, TypeOK, HistoryType
  <2>3. Noticed' \subseteq Noticed
    BY <2>1, <2>2 DEF Noticed, Bouncing
  <2>4. Answered' = Answered
    BY <2>1 DEF Answered
  <2>5. Clean' = Clean
    BY <1>1, <2>1 DEF Clean
  <2>6. QED
    BY <1>1, <2>1, <2>3, <2>4, <2>5, NoticeStays
<1>6. CASE Save(w)
  <2> DEFINE m == item[w].id
  <2>1. /\ wpc[w] = "save" /\ Busy(w) /\ m \in Items
        /\ UNCHANGED <<accepted, lost, inbox>>
        /\ \A v \in Workers \ {w} :
             wpc'[v] = wpc[v] /\ item'[v] = item[v] /\ reply'[v] = reply[v]
        /\ wpc'[w] = IF SaveFailed(w) THEN "bounce" ELSE "idle"
        /\ SaveFailed(w) => item'[w] = item[w]
    BY <1>6 DEF Save, SaveSent, SaveDeferred, SaveFailed, SaveError, Finish, Busy, TypeOK,
       WorkerType, Copy, histVars
  <2>2. Clean' = Clean
    BY <1>1, <2>1 DEF Clean
  <2>3. \A i \in Items \ {m} : rows'[i] = rows[i]
    BY <1>6, <2>1, SavedRow DEF Save, SaveSent, SaveDeferred, SaveFailed, SaveError
  <2>4. m \in Held /\ (m \in Clean => m \notin Held')
    BY <1>1, <1>2, <1>6, CopySaved
  <2>5. /\ Answered \subseteq Answered' \union {m}
        /\ Noticed' \subseteq Noticed \union {m}
        /\ ~SaveFailed(w) => Noticed' = Noticed
    BY <2>1 DEF Answered, Noticed, Bouncing
  <2>6. m \in Answered /\ m \in Clean => reply[w] = "ok"
    <3> SUFFICES ASSUME m \in Answered, m \in Clean PROVE reply[w] = "ok"
      OBVIOUS
    <3>1. PICK v \in Workers : wpc[v] = "save" /\ reply[v] = "ok" /\ item[v].id = m
      BY DEF Answered
    <3>2. SoleCopy(m)
      BY <1>2, <2>4 DEF ClaimInv, ExclusiveClaim
    <3>3. v = w
      BY <2>1, <3>1, <3>2 DEF SoleCopy, Working
    <3>4. QED
      BY <3>1, <3>3
  <2>7. ASSUME NEW i \in Clean
        PROVE  /\ accepted'[i] > 0 =>
                    /\ rows'[i].status \in {"sending", "sent", "canceled"}
                    /\ i \notin Noticed'
                    /\ i \in Held' => i \in Answered'
               /\ i \in Noticed' =>
                    rows'[i].status \in {"failed", "canceled"} /\ i \notin Held'
    <3>1. /\ accepted[i] > 0 =>
               /\ rows[i].status \in {"sending", "sent", "canceled"}
               /\ i \notin Noticed
               /\ i \in Held => i \in Answered
          /\ i \in Noticed => rows[i].status \in {"failed", "canceled"} /\ i \notin Held
      BY DEF NoticeInv
    <3>2. CASE i # m
      BY <1>1, <2>1, <2>3, <2>5, <3>1, <3>2 DEF Clean
    <3>3. CASE i = m /\ SaveSent(w)
      <4>1. rows'[i].status = "sent"
        BY <2>1, <3>3, SavedRow DEF SaveSent
      <4>2. ~SaveFailed(w)
        BY <3>3 DEF SaveSent, SaveFailed
      <4>3. QED
        BY <2>4, <2>5, <3>1, <3>3, <4>1, <4>2
    <3>4. CASE i = m /\ (SaveDeferred(w) \/ SaveFailed(w))
      <4>1. ~(accepted'[i] > 0)
        BY <2>1, <2>4, <2>6, <3>1, <3>4 DEF SaveDeferred, SaveFailed
      <4>2. SaveFailed(w) => rows'[i].status = "failed"
        BY <2>1, <3>4, SavedRow DEF SaveFailed
      <4>3. QED
        BY <2>4, <2>5, <3>1, <3>4, <4>1, <4>2
    <3>5. CASE i = m /\ SaveError(w)
      <4>1. rows' = rows
        BY <3>5 DEF SaveError
      <4>2. wpc'[w] = "idle" /\ Noticed' = Noticed
        <5>1. wpc'[w] = "idle"
          BY <3>5 DEF SaveError, Finish, TypeOK, WorkerType
        <5>2. QED
          BY <2>1, <5>1 DEF Noticed, Bouncing
      <4>3. QED
        BY <2>1, <2>4, <3>1, <3>5, <4>1, <4>2
    <3>6. QED
      BY <1>6, <3>2, <3>3, <3>4, <3>5 DEF Save
  <2>8. QED
    BY <2>2, <2>7 DEF NoticeInv
<1>7. QED
  BY <1>3, <1>4, <1>5, <1>6 DEF Worker

\* Every step keeps notices honest.
LEMMA StepNotice == TypeOK /\ ClaimInv /\ HeldInv /\ NoticeInv /\ [Next]_vars => NoticeInv'
<1> SUFFICES ASSUME TypeOK, ClaimInv, HeldInv, NoticeInv, [Next]_vars PROVE NoticeInv'
  OBVIOUS
<1>1. CASE Dispatcher
  <2>1. UNCHANGED <<workVars, histVars>>
    BY <1>1, DispatcherFrame
  <2>2. Answered' = Answered /\ Noticed' = Noticed /\ Clean' = Clean
    BY <2>1 DEF workVars, histVars, Answered, Noticed, Bouncing, Clean
  <2>3. \A i \in Clean :
          \/ rows[i].status \in {"absent", "pending", "deferred"}
          \/ /\ rows'[i].status = rows[i].status
             /\ i \in Held' => i \in Held
    BY <1>1, DispatcherFrame, DispatcherHeld DEF Claimable, Clean
  <2>4. QED
    BY <2>1, <2>2, <2>3, NoticeStays DEF histVars
<1>2. CASE Environment /\ ~Crash
  <2>1. /\ UNCHANGED <<workVars, accepted, inbox, lost>>
        /\ Held' = Held
    BY <1>2, RequestFrame, EnvironmentHeld
  <2>2. Answered' = Answered /\ Noticed' = Noticed
    BY <2>1 DEF workVars, Answered, Noticed, Bouncing
  <2>3. ASSUME Clean' \subseteq Clean,
               \A i \in Clean' : \/ rows[i].status \in {"absent", "pending", "deferred"}
                                \/ rows'[i].status \in {rows[i].status, "canceled"}
        PROVE  NoticeInv'
    BY <2>1, <2>2, <2>3, NoticeStays
  <2>4. CASE UNCHANGED <<rows, retries>>
    BY <2>1, <2>3, <2>4 DEF Clean
  <2>5. ASSUME NEW i \in Items, Enqueue(i) \/ BackoffElapses(i) PROVE NoticeInv'
    <3>1. Clean' = Clean
      BY <2>1, <2>5 DEF Enqueue, BackoffElapses, Clean, histVars
    <3>2. \A j \in Items : \/ rows[j].status \in {"absent", "pending", "deferred"}
                           \/ rows'[j].status = rows[j].status
      BY <2>5 DEF Enqueue, BackoffElapses, TypeOK, TableType, Row
    <3>3. QED
      BY <2>3, <3>1, <3>2 DEF Clean
  <2>6. ASSUME NEW i \in Items, Retry(i) PROVE NoticeInv'
    <3>1. \A j \in Items :
            IF j = i THEN retries'[j] # 0 ELSE retries'[j] = retries[j] /\ rows'[j] = rows[j]
      BY <2>6 DEF Retry, TypeOK, TableType, HistoryType
    <3>2. Clean' \subseteq Clean /\ i \notin Clean'
      BY <2>1, <3>1 DEF Clean
    <3>3. \A j \in Clean' : rows'[j] = rows[j]
      BY <3>1, <3>2 DEF Clean
    <3>4. QED
      BY <2>3, <3>2, <3>3
  <2>7. ASSUME NEW a \in Admins, CancelSave(a) PROVE NoticeInv'
    <3>1. \A j \in Items : rows'[j].status \in {rows[j].status, "canceled"}
      BY <2>7 DEF CancelSave, TypeOK, TableType, Copy
    <3>2. Clean' = Clean
      BY <2>1, <2>7 DEF CancelSave, Clean, histVars
    <3>3. QED
      BY <2>3, <3>1, <3>2 DEF Clean
  <2>8. QED
    BY <1>2, <2>4, <2>5, <2>6, <2>7 DEF Environment, CancelRead, Stop, histVars
<1>3. CASE Crash
  <2>1. UNCHANGED <<rows, accepted, inbox, lost, retries>> /\ \A w \in Workers : wpc'[w] = "idle"
    BY <1>3 DEF Crash
  <2>2. Noticed' \subseteq Noticed /\ Clean' = Clean
    BY <2>1 DEF Noticed, Bouncing, Clean
  <2>3. Held' = {}
    BY <1>3, EnvironmentHeld DEF Environment
  <2>4. QED
    BY <2>1, <2>2, <2>3, NoticeStays
<1>4. CASE UNCHANGED vars
  <2>1. Held' = Held /\ Answered' = Answered /\ Noticed' = Noticed /\ Clean' = Clean
    BY <1>4 DEF vars, dispVars, chanVars, workVars, histVars, Held, InHand, InChannel, AtWork,
       Working, Answered, Noticed, Bouncing, Clean
  <2>2. QED
    BY <1>4, <2>1, NoticeStays DEF vars, histVars
<1>5. QED
  BY <1>1, <1>2, <1>3, <1>4, WorkerNotice DEF Next

(* A notice tells the truth: a message reported as undeliverable was not   *)
(* accepted, unless a remote reply got lost or an admin retried the row.   *)
THEOREM HonestBounceCorrect == Spec => []HonestBounce
<1>1. Init => NoticeInv
  <2> SUFFICES ASSUME Init PROVE NoticeInv
    OBVIOUS
  <2>1. Noticed = {}
    BY DEF Init, Noticed, Bouncing
  <2>2. \A i \in Clean : accepted[i] = 0
    BY DEF Init, Clean
  <2>3. QED
    BY <2>1, <2>2 DEF NoticeInv
<1>2. TypeOK /\ NoticeInv => HonestBounce
  <2> SUFFICES ASSUME TypeOK, NoticeInv, NEW i \in Items, inbox[i] > 0, accepted[i] > 0,
                      ~(lost[i] > 0 \/ retries[i] > 0)
               PROVE  FALSE
    BY DEF HonestBounce
  <2>1. lost[i] \in Nat /\ retries[i] \in Nat
    BY DEF TypeOK, HistoryType
  <2>2. i \in Clean
    BY <2>1 DEF Clean
  <2>3. i \in Noticed
    BY DEF Noticed
  <2>4. QED
    BY <2>2, <2>3 DEF NoticeInv
<1>3. QED
  BY <1>1, <1>2, StepNotice, HeldInvCorrect, ClaimCorrect, TypeCorrect, PTL DEF Spec

-----------------------------------------------------------------------------
(***************************************************************************)
(* The refinement of Ledger. A message has a chance to be accepted for     *)
(* each of: its row being claimable, its copy in the dispatcher's hand,    *)
(* its copies in the channel, and the workers that hold a copy and have    *)
(* not had it accepted yet.  Acceptances and chances together never exceed *)
(* the licences: a step moves a chance on, turns it into an acceptance or  *)
(* drops it, and only queueing, a retry and a lost reply add to the sum.   *)
(***************************************************************************)
Waits(i) == IF rows[i].status \in Claimable THEN 1 ELSE 0
Offered(i) == IF i \in InHand THEN 1 ELSE 0
JobsOf(q, i) == {k \in 1..Len(q) : q[k].id = i}
Trying(i) == {w \in Working : item[w].id = i /\ ~(wpc[w] = "save" /\ reply[w] = "ok")}
Chances(i) == Waits(i) + Offered(i) + Cardinality(JobsOf(jobs, i)) + Cardinality(Trying(i))
Licences(i) == Queued(i) + retries[i] + lost[i]
LedgerInv == \A i \in Items : accepted[i] + Chances(i) <= Licences(i)

\* The sets are finite, so their sizes are natural numbers.
LEMMA ChancesAreFinite ==
  ASSUME TypeOK, NEW i
  PROVE  /\ IsFiniteSet(JobsOf(jobs, i)) /\ Cardinality(JobsOf(jobs, i)) \in Nat
         /\ IsFiniteSet(Trying(i)) /\ Cardinality(Trying(i)) \in Nat
         /\ Waits(i) \in 0..1 /\ Offered(i) \in 0..1
<1>1. Len(jobs) \in Nat
  BY DEF TypeOK, ChannelType
<1>2. IsFiniteSet(1..Len(jobs))
  BY <1>1, FS_Interval
<1>3. IsFiniteSet(JobsOf(jobs, i))
  BY <1>2, FS_Subset DEF JobsOf
<1>4. Trying(i) \in SUBSET Workers
  BY DEF Trying, Working
<1>5. IsFiniteSet(Trying(i))
  BY <1>4, FS_Subset, QueueAssumption
<1> QED
  BY <1>3, <1>5, FS_CardinalityType DEF Waits, Offered

\* A finite set without one of its members.
LEMMA OneLess ==
  ASSUME NEW S, IsFiniteSet(S), NEW x \in S
  PROVE  Cardinality(S) >= 1 /\ Cardinality(S \ {x}) = Cardinality(S) - 1
<1> DEFINE n == Cardinality(S)
           m == Cardinality(S \ {x})
<1>1. m = n - 1 /\ IsFiniteSet(S \ {x})
  BY FS_RemoveElement
<1>2. n \in Nat /\ m \in Nat
  BY <1>1, FS_CardinalityType
<1> HIDE DEF n, m
<1>3. n >= 1
  BY <1>1, <1>2
<1> QED
  BY <1>1, <1>3 DEF n, m

\* The copies of a row in a channel are finitely many.
LEMMA JobsFinite ==
  ASSUME NEW q \in Seq(Copy), NEW i
  PROVE  IsFiniteSet(JobsOf(q, i)) /\ Cardinality(JobsOf(q, i)) \in Nat
<1>1. Len(q) \in Nat
  OBVIOUS
<1>2. IsFiniteSet(1..Len(q))
  BY <1>1, FS_Interval
<1>3. JobsOf(q, i) \in SUBSET (1..Len(q))
  BY DEF JobsOf
<1>4. IsFiniteSet(JobsOf(q, i))
  BY <1>2, <1>3, FS_Subset
<1> QED
  BY <1>4, FS_CardinalityType

\* The same after a step.
LEMMA ChancesStayFinite ==
  ASSUME TypeOK', NEW i
  PROVE  /\ Cardinality(JobsOf(jobs, i))' \in Nat /\ Cardinality(Trying(i))' \in Nat
         /\ Waits(i)' \in 0..1 /\ Offered(i)' \in 0..1
<1>1. Cardinality(JobsOf(jobs', i)) \in Nat
  BY JobsFinite DEF TypeOK, ChannelType
<1>2. Trying(i)' \in SUBSET Workers
  BY DEF Trying, Working
<1>3. Cardinality(Trying(i)') \in Nat
  BY <1>2, FS_Subset, FS_CardinalityType, QueueAssumption
<1>4. JobsOf(jobs, i)' = JobsOf(jobs', i)
  BY DEF JobsOf
<1> QED
  BY <1>1, <1>3, <1>4 DEF Waits, Offered

\* The channel gains one copy at its end (m.jobs <- &item).
LEMMA JobsAppended ==
  ASSUME NEW q \in Seq(Copy), NEW c \in Copy, NEW i
  PROVE  Cardinality(JobsOf(Append(q, c), i)) =
           Cardinality(JobsOf(q, i)) + (IF c.id = i THEN 1 ELSE 0)
<1> DEFINE n == Len(q)
<1>1. /\ n \in Nat /\ Len(Append(q, c)) = n + 1
      /\ \A k \in 1..n : Append(q, c)[k] = q[k]
      /\ Append(q, c)[n + 1] = c
  OBVIOUS
<1>2. JobsOf(Append(q, c), i) = JobsOf(q, i) \union (IF c.id = i THEN {n + 1} ELSE {})
  <2>1. ASSUME NEW k
        PROVE  k \in JobsOf(Append(q, c), i) <=>
                 k \in JobsOf(q, i) \/ (c.id = i /\ k = n + 1)
    BY <1>1 DEF JobsOf
  <2> QED
    BY <2>1
<1>3. n + 1 \notin JobsOf(q, i)
  BY <1>1 DEF JobsOf
<1>4. IsFiniteSet(JobsOf(q, i)) /\ Cardinality(JobsOf(q, i)) \in Nat
  BY JobsFinite
<1>5. Cardinality(JobsOf(q, i) \union {n + 1}) = Cardinality(JobsOf(q, i)) + 1
  <2> HIDE DEF n
  <2> QED
    BY <1>3, <1>4, FS_AddElement
<1> HIDE DEF n
<1>6. CASE c.id = i
  BY <1>2, <1>5, <1>6
<1>7. CASE c.id # i
  BY <1>2, <1>4, <1>7
<1> QED
  BY <1>6, <1>7

\* ... and loses the one at its head (range m.jobs).
LEMMA JobsTaken ==
  ASSUME NEW q \in Seq(Copy), q # <<>>, NEW i
  PROVE  Cardinality(JobsOf(q, i)) =
           Cardinality(JobsOf(Tail(q), i)) + (IF Head(q).id = i THEN 1 ELSE 0)
<1> DEFINE S == JobsOf(Tail(q), i)
           T == JobsOf(q, i) \ {1}
           f == [k \in S |-> k + 1]
<1>1. /\ Len(q) \in Nat \ {0} /\ Len(Tail(q)) = Len(q) - 1 /\ Head(q) = q[1]
      /\ \A k \in 1..Len(Tail(q)) : Tail(q)[k] = q[k + 1]
  OBVIOUS
<1>2. IsFiniteSet(JobsOf(q, i)) /\ Cardinality(JobsOf(q, i)) \in Nat
  BY JobsFinite
<1>3. IsFiniteSet(T) /\ Cardinality(T) = Cardinality(JobsOf(q, i)) - (IF Head(q).id = i THEN 1 ELSE 0)
  <2>1. 1 \in JobsOf(q, i) <=> Head(q).id = i
    BY <1>1 DEF JobsOf
  <2>2. Cardinality(JobsOf(q, i) \ {1}) =
          IF 1 \in JobsOf(q, i) THEN Cardinality(JobsOf(q, i)) - 1 ELSE Cardinality(JobsOf(q, i))
    BY <1>2, FS_RemoveElement
  <2>3. IsFiniteSet(JobsOf(q, i) \ {1})
    BY <1>2, FS_RemoveElement
  <2> QED
    BY <1>2, <2>1, <2>2, <2>3
<1>4. IsFiniteSet(S)
  <2>1. Tail(q) \in Seq(Copy)
    OBVIOUS
  <2> QED
    BY <2>1, JobsFinite
<1>5. f \in Bijection(S, T)
  <2>1. ASSUME NEW k \in S PROVE k \in Nat /\ k + 1 \in T
    BY <1>1 DEF JobsOf
  <2>2. ASSUME NEW l \in T PROVE \E k \in S : l = k + 1
    <3>1. l \in 1..Len(q) /\ l # 1 /\ q[l].id = i
      BY DEF JobsOf
    <3>2. l - 1 \in 1..Len(Tail(q)) /\ (l - 1) + 1 = l
      BY <1>1, <3>1
    <3>3. l - 1 \in S
      BY <1>1, <3>1, <3>2 DEF JobsOf
    <3> QED
      BY <3>2, <3>3
  <2> HIDE DEF S, T
  <2>3. f \in [S -> T] /\ DOMAIN f = S /\ \A k \in S : f[k] = k + 1
    BY <2>1
  <2>4. \A k, l \in S : f[k] = f[l] => k = l
    BY <2>1, <2>3
  <2>5. \A l \in T : \E k \in S : f[k] = l
    BY <2>2, <2>3
  <2> HIDE DEF f
  <2> QED
    BY <2>3, <2>4, <2>5, Fun_IsBij
<1>6. Cardinality(T) = Cardinality(S)
  BY <1>4, <1>5, FS_Bijection DEF ExistsBijection
<1>7. Cardinality(S) \in Nat /\ Cardinality(JobsOf(q, i)) \in Nat
  BY <1>2, <1>4, FS_CardinalityType
<1> HIDE DEF S, T
<1> QED
  BY <1>3, <1>6, <1>7 DEF S

-----------------------------------------------------------------------------
\* What the dispatcher does to the chances: Claim and Handoff move one on.
LEMMA DispatcherChances ==
  ASSUME TypeOK, TypeOK', ClaimInv, Dispatcher, NEW i \in Items
  PROVE  Chances(i)' <= Chances(i) /\ Queued(i)' = Queued(i)
<1>1. UNCHANGED <<wpc, item, reply>>
  BY DEF Dispatcher, Tick, TakeKick, TakeStop, ListDue, ListDueFails, Claim, SkipUnclaimed,
     Handoff, ScanDone, workVars
<1>2. Trying(i)' = Trying(i)
  BY <1>1 DEF Trying, Working
<1>3. CASE UNCHANGED <<rows, hand, jobs>>
  <2>1. Chances(i)' = Chances(i) /\ Queued(i)' = Queued(i)
    BY <1>2, <1>3 DEF Chances, Waits, Offered, InHand, Queued
  <2> QED
    BY <2>1, ChancesAreFinite DEF Chances
<1>4. ASSUME NEW c \in batch, Claim(c) PROVE Chances(i)' <= Chances(i) /\ Queued(i)' = Queued(i)
  <2>1. /\ c.id \in Items /\ hand = {} /\ hand' = {c}
        /\ rows' = [rows EXCEPT ![c.id].status = "sending"]
        /\ rows[c.id].status \in Claimable
        /\ UNCHANGED jobs
    BY <1>4 DEF Claim, chanVars, TypeOK, DispatcherType, Copy, ClaimInv, HandInv
  <2>2. InHand = {} /\ InHand' = {c.id}
    BY <2>1 DEF InHand
  <2>3. \A j \in Items : rows'[j].status = IF j = c.id THEN "sending" ELSE rows[j].status
    BY <2>1 DEF TypeOK, TableType, Row
  <2>4. Waits(i)' + Offered(i)' = Waits(i) + Offered(i)
    BY <2>1, <2>2, <2>3 DEF Waits, Offered, Claimable
  <2>5. Queued(i)' = Queued(i)
    BY <2>1, <2>3 DEF Queued, Claimable
  <2>6. JobsOf(jobs, i)' = JobsOf(jobs, i)
    BY <2>1
  <2> QED
    BY <1>2, <2>4, <2>5, <2>6, ChancesAreFinite DEF Chances
<1>5. CASE Handoff
  <2>1. PICK c \in hand : hand = {c} /\ jobs' = Append(jobs, c)
    <3>1. PICK c \in hand : hand = {c}
      BY <1>5 DEF Handoff, ClaimInv, HandInv
    <3> QED
      BY <1>5, <3>1 DEF Handoff
  <2>2. c \in Copy /\ jobs \in Seq(Copy)
    BY <2>1 DEF TypeOK, DispatcherType, ChannelType
  <2>3. UNCHANGED rows /\ InHand = {c.id} /\ InHand' = {}
    BY <1>5, <2>1 DEF Handoff, InHand
  <2>4. Waits(i)' = Waits(i) /\ Queued(i)' = Queued(i)
    BY <2>3 DEF Waits, Queued
  <2>5. Offered(i)' = 0 /\ Offered(i) = IF c.id = i THEN 1 ELSE 0
    BY <2>3 DEF Offered
  <2>6. Cardinality(JobsOf(jobs', i)) = Cardinality(JobsOf(jobs, i)) + Offered(i)
    BY <2>1, <2>2, <2>5, JobsAppended
  <2>7. Chances(i)' = Waits(i)' + Offered(i)' + Cardinality(JobsOf(jobs', i)) + Cardinality(Trying(i)')
    BY DEF Chances, JobsOf
  <2>8. Chances(i)' = Chances(i)
    BY <1>2, <2>4, <2>5, <2>6, <2>7, ChancesAreFinite DEF Chances
  <2> QED
    BY <2>4, <2>8, ChancesAreFinite DEF Chances
<1> QED
  BY <1>3, <1>4, <1>5 DEF Dispatcher, Tick, TakeKick, TakeStop, ListDue, ListDueFails, SkipUnclaimed,
     ScanDone, chanVars

\* The workers that still try a message, as one worker takes a step.
LEMMA WorkerTrying ==
  ASSUME TypeOK, NEW w \in Workers, Worker(w), NEW i \in Items
  PROVE  /\ TakeJob(w) => w \notin Trying(i)
                          /\ Trying(i)' = IF jobs[1].id = i THEN Trying(i) \union {w} ELSE Trying(i)
         /\ Attempt(w) => (w \in Trying(i) <=> item[w].id = i)
         /\ SaveDeferred(w) => (w \in Trying(i) <=> item[w].id = i)
         /\ HostAccepts(w) \/ Save(w) => Trying(i)' = Trying(i) \ {w}
         /\ ~TakeJob(w) /\ ~HostAccepts(w) /\ ~Save(w) => Trying(i)' = Trying(i)
<1> USE DEF Trying, Working
<1>0. /\ wpc \in [Workers -> WorkerPC] /\ item \in [Workers -> Copy \union {NoCopy}]
      /\ reply \in [Workers -> Replies] /\ (Busy(w) => item[w] \in Copy)
  BY DEF TypeOK, WorkerType
<1>1. ASSUME TakeJob(w)
      PROVE  w \notin Trying(i)
             /\ Trying(i)' = IF jobs[1].id = i THEN Trying(i) \union {w} ELSE Trying(i)
  <2>1. /\ wpc[w] = "idle" /\ wpc' = [wpc EXCEPT ![w] = "acquire"]
        /\ item' = [item EXCEPT ![w] = jobs[1]] /\ UNCHANGED reply
    BY <1>1 DEF TakeJob, TypeOK, ChannelType
  <2> QED
    BY <1>0, <2>1
<1>2. Attempt(w) => (w \in Trying(i) <=> item[w].id = i)
  BY DEF Attempt, HostAccepts, HostRejects, HostDefers, ReplyLost
<1>3. SaveDeferred(w) => (w \in Trying(i) <=> item[w].id = i)
  BY DEF SaveDeferred
<1>4. ASSUME HostAccepts(w) PROVE Trying(i)' = Trying(i) \ {w}
  BY <1>0, <1>4 DEF HostAccepts, Return
<1>5. ASSUME Save(w) PROVE Trying(i)' = Trying(i) \ {w}
  BY <1>0, <1>5 DEF Save, SaveSent, SaveDeferred, SaveFailed, SaveError, Finish
<1>6. ASSUME Busy(w), wpc[w] \in {"lookup", "connect"}, NEW r \in {"temp", "perm"}, Return(w, r)
      PROVE  Trying(i)' = Trying(i)
  <2>1. item'[w].id = item[w].id
    BY <1>0, <1>6 DEF Return, Copy
  <2>2. \A v \in Workers \ {w} : wpc'[v] = wpc[v] /\ item'[v] = item[v] /\ reply'[v] = reply[v]
    BY <1>0, <1>6 DEF Return
  <2>3. wpc'[w] = "save" /\ reply'[w] = r
    BY <1>0, <1>6 DEF Return
  <2> QED
    BY <1>6, <2>1, <2>2, <2>3
<1>7. CASE LookupMX(w)
  <2>1. Busy(w) /\ wpc[w] = "lookup"
    BY <1>7 DEF LookupMX, Busy
  <2>2. ASSUME wpc' = [wpc EXCEPT ![w] = "connect"], UNCHANGED <<item, reply>>
        PROVE  Trying(i)' = Trying(i)
    BY <1>0, <2>1, <2>2
  <2>3. Trying(i)' = Trying(i)
    BY <1>6, <1>7, <2>1, <2>2 DEF LookupMX
  <2> QED
    BY <1>1, <1>2, <1>3, <1>4, <1>5, <2>3
<1>8. CASE HostRejects(w) \/ HostDefers(w) \/ ReplyLost(w)
  <2>1. Busy(w) /\ wpc[w] = "connect"
    BY <1>8 DEF HostRejects, HostDefers, ReplyLost, Busy
  <2>2. Trying(i)' = Trying(i)
    BY <1>0, <1>6, <1>8, <2>1 DEF HostRejects, HostDefers, ReplyLost, NextHost
  <2> QED
    BY <1>1, <1>2, <1>3, <1>4, <1>5, <2>2
<1>9. CASE ExitWorker(w) \/ AcquireSlot(w) \/ Bounce(w)
  <2>1. Trying(i)' = Trying(i)
    BY <1>0, <1>9 DEF ExitWorker, AcquireSlot, Bounce, Finish
  <2> QED
    BY <1>1, <1>2, <1>3, <1>4, <1>5, <2>1
<1> QED
  BY <1>1, <1>2, <1>3, <1>4, <1>5, <1>7, <1>8, <1>9 DEF Worker, Attempt

\* What a worker does to the chances: only an acceptance uses one up for a message.
LEMMA WorkerChances ==
  ASSUME TypeOK, TypeOK', ClaimInv, NEW w \in Workers, Worker(w), NEW i \in Items
  PROVE  /\ Chances(i)' <= Chances(i)
         /\ HostAccepts(w) /\ item[w].id = i => Chances(i)' <= Chances(i) - 1
         /\ Attempt(w) /\ item[w].id = i => Chances(i) >= 1
         /\ Queued(i)' = Queued(i)
<1>1. UNCHANGED hand /\ Offered(i)' = Offered(i)
  BY DEF Worker, TakeJob, ExitWorker, AcquireSlot, LookupMX, Attempt, HostAccepts, HostRejects,
     HostDefers, ReplyLost, Save, SaveSent, SaveDeferred, SaveFailed, SaveError, Bounce,
     dispVars, Offered, InHand
<1>2. ~TakeJob(w) => UNCHANGED jobs
  BY DEF Worker, TakeJob, ExitWorker, AcquireSlot, LookupMX, Attempt, HostAccepts, HostRejects,
     HostDefers, ReplyLost, Save, SaveSent, SaveDeferred, SaveFailed, SaveError, Bounce, chanVars
<1>3. ~Save(w) => UNCHANGED rows
  BY DEF Worker, TakeJob, ExitWorker, AcquireSlot, LookupMX, Attempt, HostAccepts, HostRejects,
     HostDefers, ReplyLost, Save, Bounce
<1> DEFINE J == Cardinality(JobsOf(jobs, i))
           T == Cardinality(Trying(i))
<1>4. /\ J \in Nat /\ T \in Nat /\ Waits(i) \in 0..1 /\ Offered(i) \in 0..1
      /\ J' \in Nat /\ T' \in Nat /\ Waits(i)' \in 0..1
      /\ Chances(i) = Waits(i) + Offered(i) + J + T
      /\ Chances(i)' = Waits(i)' + Offered(i)' + J' + T'
  <2>1. J' \in Nat /\ T' \in Nat /\ Waits(i)' \in 0..1
    BY ChancesStayFinite
  <2> QED
    BY <2>1, ChancesAreFinite DEF Chances
<1>5. IsFiniteSet(Trying(i))
  BY ChancesAreFinite
<1>6. w \in Trying(i) => T >= 1 /\ Cardinality(Trying(i) \ {w}) = T - 1
  BY <1>5, OneLess
<1>7. Cardinality(Trying(i) \ {w}) <= T
  <2>1. ASSUME w \notin Trying(i) PROVE Trying(i) \ {w} = Trying(i)
    BY <2>1
  <2>2. T \in Nat /\ T <= T /\ T - 1 <= T
    BY <1>4
  <2> QED
    BY <1>6, <2>1, <2>2
<1>8. CASE TakeJob(w)
  <2>1. jobs \in Seq(Copy) /\ jobs # <<>> /\ jobs' = Tail(jobs) /\ Head(jobs) = jobs[1]
    BY <1>8 DEF TakeJob, TypeOK, ChannelType
  <2>2. J = J' + (IF jobs[1].id = i THEN 1 ELSE 0)
    BY <2>1, JobsTaken
  <2>3. T' = T + (IF jobs[1].id = i THEN 1 ELSE 0)
    <3>1. CASE jobs[1].id = i
      BY <1>5, <1>8, <3>1, WorkerTrying, FS_AddElement
    <3>2. CASE jobs[1].id # i
      BY <1>4, <1>8, <3>2, WorkerTrying
    <3> QED
      BY <3>1, <3>2
  <2>4. Waits(i)' = Waits(i) /\ Queued(i)' = Queued(i)
    BY <1>8 DEF TakeJob, Waits, Queued
  <2>5. ~Attempt(w)
    BY <1>8 DEF TakeJob, Attempt, HostAccepts, HostRejects, HostDefers, ReplyLost
  <2> HIDE DEF J, T
  <2>6. Chances(i)' = Chances(i)
    BY <1>1, <1>4, <2>2, <2>3, <2>4
  <2> QED
    BY <1>4, <2>4, <2>5, <2>6 DEF Attempt
<1>9. CASE Save(w)
  <2>1. ~Attempt(w)
    BY <1>9 DEF Save, SaveSent, SaveDeferred, SaveFailed, SaveError, Attempt, HostAccepts, HostRejects,
                HostDefers, ReplyLost
  <2>2. w \in Working /\ item[w].id \in Held /\ rows[item[w].id].status # "absent" /\ item[w].id \in Items
    BY <1>9, CopySaved DEF Save, SaveSent, SaveDeferred, SaveFailed, SaveError, Working, AtWork, Held,
       ClaimInv, HeldExists
  <2>3. T' = Cardinality(Trying(i) \ {w}) /\ J' = J
    BY <1>2, <1>9, WorkerTrying DEF Save, SaveSent, SaveDeferred, SaveFailed, SaveError, TakeJob, chanVars
  <2>4. Busy(w)
    BY <2>2 DEF Working, Busy
  <2>5. CASE UNCHANGED rows
    <3>1. Waits(i)' = Waits(i) /\ Queued(i)' = Queued(i)
      BY <2>5 DEF Waits, Queued
    <3> HIDE DEF J, T
    <3> QED
      BY <1>1, <1>4, <1>7, <2>1, <2>3, <3>1 DEF Attempt
  <2>6. CASE Saved(w, "sent") \/ Saved(w, "failed")
    <3>1. Waits(i)' <= Waits(i) /\ Queued(i)' = Queued(i)
      BY <1>4, <2>2, <2>4, <2>6, SavedRow DEF Waits, Queued, Claimable
    <3> HIDE DEF J, T
    <3> QED
      BY <1>1, <1>4, <1>7, <2>1, <2>3, <3>1 DEF Attempt
  <2>7. CASE SaveDeferred(w)
    <3>1. Saved(w, "deferred")
      BY <2>7 DEF SaveDeferred
    <3>2. CASE item[w].id = i
      <4>1. T' = T - 1
        BY <1>6, <2>3, <2>7, <3>2, WorkerTrying
      <4>2. Queued(i)' = Queued(i)
        BY <2>2, <2>4, <3>1, <3>2, SavedRow DEF Queued
      <4> HIDE DEF J, T
      <4> QED
        BY <1>1, <1>4, <2>1, <2>3, <4>1, <4>2 DEF Attempt
    <3>3. CASE item[w].id # i
      <4>1. Waits(i)' = Waits(i) /\ Queued(i)' = Queued(i)
        BY <2>4, <3>1, <3>3, SavedRow DEF Waits, Queued
      <4> HIDE DEF J, T
      <4> QED
        BY <1>1, <1>4, <1>7, <2>1, <2>3, <4>1 DEF Attempt
    <3> QED
      BY <3>2, <3>3
  <2> QED
    BY <1>9, <2>5, <2>6, <2>7 DEF Save, SaveSent, SaveFailed, SaveError
<1>10. CASE ~TakeJob(w) /\ ~Save(w)
  <2>1. Waits(i)' = Waits(i) /\ Queued(i)' = Queued(i) /\ J' = J
    BY <1>2, <1>3, <1>10 DEF Waits, Queued
  <2>2. T' = IF HostAccepts(w) THEN Cardinality(Trying(i) \ {w}) ELSE T
    BY <1>10, WorkerTrying
  <2>3. Attempt(w) /\ item[w].id = i => w \in Trying(i)
    BY WorkerTrying
  <2>4. HostAccepts(w) => Attempt(w)
    BY DEF Attempt
  <2> HIDE DEF J, T
  <2>5. CASE HostAccepts(w)
    BY <1>1, <1>4, <1>6, <1>7, <2>1, <2>2, <2>3, <2>4, <2>5
  <2>6. CASE ~HostAccepts(w)
    BY <1>1, <1>4, <1>6, <2>1, <2>2, <2>3, <2>6
  <2> QED
    BY <2>5, <2>6
<1> QED
  BY <1>8, <1>9, <1>10

-----------------------------------------------------------------------------
\* What the administrators, time and a crash do to the chances and the licences.
LEMMA RequestChances ==
  ASSUME TypeOK, TypeOK', ClaimInv, Environment, NEW i \in Items
  PROVE  /\ Chances(i)' - Chances(i) <= Licences(i)' - Licences(i)
         /\ Licences(i)' \in {Licences(i), Licences(i) + 1}
         /\ UNCHANGED <<accepted, lost>>
<1>1. UNCHANGED <<accepted, lost>>
  BY DEF Environment, Enqueue, BackoffElapses, Retry, CancelRead, CancelSave, Stop, Crash, histVars
<1> DEFINE J == Cardinality(JobsOf(jobs, i))
           T == Cardinality(Trying(i))
<1>2. /\ J \in Nat /\ T \in Nat /\ Waits(i) \in 0..1 /\ Offered(i) \in 0..1
      /\ J' \in Nat /\ T' \in Nat /\ Waits(i)' \in 0..1 /\ Offered(i)' \in 0..1
      /\ Chances(i) = Waits(i) + Offered(i) + J + T
      /\ Chances(i)' = Waits(i)' + Offered(i)' + J' + T'
  BY ChancesAreFinite, ChancesStayFinite DEF Chances
<1>3. /\ retries[i] \in Nat /\ lost[i] \in Nat /\ retries'[i] \in Nat
      /\ Queued(i) \in 0..1 /\ Queued(i)' \in 0..1
      /\ Licences(i) = Queued(i) + retries[i] + lost[i]
      /\ Licences(i)' = Queued(i)' + retries'[i] + lost[i]
  BY <1>1 DEF TypeOK, HistoryType, Queued, Licences
<1>4. CASE Crash
  <2>1. Len(jobs') = 0 /\ Working' = {} /\ hand' = {}
    BY <1>4 DEF Crash, Working
  <2>2. JobsOf(jobs, i)' = {} /\ Trying(i)' = {} /\ Offered(i)' = 0
    BY <2>1 DEF JobsOf, Trying, Offered, InHand
  <2>3. J' = 0 /\ T' = 0
    BY <2>2, FS_EmptySet
  <2>4. Waits(i)' = Waits(i) /\ Licences(i)' = Licences(i)
    BY <1>4 DEF Crash, Waits, Licences, Queued
  <2> HIDE DEF J, T
  <2>5. Chances(i)' <= Chances(i) /\ Chances(i) \in Nat /\ Chances(i)' \in Nat
    BY <1>2, <2>2, <2>3, <2>4
  <2>6. Licences(i) \in Nat
    BY <1>3
  <2> QED
    BY <1>1, <2>4, <2>5, <2>6
<1>5. CASE ~Crash
  <2>1. UNCHANGED <<hand, jobs, wpc, item, reply>>
    BY <1>5 DEF Environment, Enqueue, BackoffElapses, Retry, CancelRead, CancelSave, Stop, dispVars,
                chanVars, workVars
  <2>2. J' = J /\ T' = T /\ Offered(i)' = Offered(i)
    BY <2>1 DEF JobsOf, Trying, Working, Offered, InHand
  <2>3. /\ Waits(i)' - Waits(i) <= Queued(i)' - Queued(i) + retries'[i] - retries[i]
        /\ \/ Queued(i)' = Queued(i) /\ retries'[i] \in {retries[i], retries[i] + 1}
           \/ Queued(i)' = Queued(i) + 1 /\ retries'[i] = retries[i]
    <3>1. ASSUME UNCHANGED rows, UNCHANGED retries
          PROVE  /\ Waits(i)' - Waits(i) <= Queued(i)' - Queued(i) + retries'[i] - retries[i]
                 /\ Queued(i)' = Queued(i) /\ retries'[i] = retries[i]
      <4>1. Waits(i)' = Waits(i) /\ Queued(i)' = Queued(i) /\ retries'[i] = retries[i]
        BY <3>1 DEF Waits, Queued
      <4> QED
        BY <1>2, <1>3, <4>1
    <3>2. ASSUME NEW k \in Items, Enqueue(k)
          PROVE  Queued(i)' = Queued(i) + (IF k = i THEN 1 ELSE 0)
                 /\ Waits(i)' <= Waits(i) + (IF k = i THEN 1 ELSE 0) /\ retries'[i] = retries[i]
      BY <3>2 DEF Enqueue, histVars, Queued, Waits, Claimable, TypeOK, TableType
    <3>3. ASSUME NEW k \in Items, BackoffElapses(k)
          PROVE  Queued(i)' = Queued(i) /\ Waits(i)' = Waits(i) /\ retries'[i] = retries[i]
      BY <3>3 DEF BackoffElapses, histVars, Queued, Waits, Claimable, TypeOK, TableType, Row
    <3>4. ASSUME NEW k \in Items, Retry(k)
          PROVE  Queued(i)' = Queued(i) /\ Waits(i)' <= Waits(i) + (IF k = i THEN 1 ELSE 0)
                 /\ retries'[i] = retries[i] + (IF k = i THEN 1 ELSE 0)
      BY <3>4 DEF Retry, Queued, Waits, Claimable, TypeOK, TableType, HistoryType
    <3>5. ASSUME NEW a \in Admins, CancelSave(a)
          PROVE  Waits(i)' <= Waits(i) /\ retries'[i] = retries[i]
                 /\ (Queued(i)' = Queued(i) \/ Queued(i)' = Queued(i) + 1)
      <4>1. retries' = retries
        BY <3>5 DEF CancelSave, histVars
      <4>2. CASE UNCHANGED rows
        BY <4>1, <4>2 DEF Waits, Queued
      <4>3. ASSUME NEW c \in cancels[a],
                   rows' = [rows EXCEPT ![c.id] =
                              [status |-> "canceled", attempts |-> c.attempts, due |-> TRUE]]
            PROVE  rows'[i] = rows[i] \/ rows'[i].status = "canceled"
        BY <4>3 DEF TypeOK, TableType
      <4> QED
        BY <3>5, <4>1, <4>2, <4>3 DEF CancelSave, Waits, Queued, Claimable
    <3>6. ASSUME NEW a \in Admins, NEW k \in Items, CancelRead(a, k) PROVE UNCHANGED <<rows, retries>>
      BY <3>6 DEF CancelRead, histVars
    <3>7. Stop => UNCHANGED <<rows, retries>>
      BY DEF Stop, histVars
    <3> QED
      BY <1>2, <1>3, <1>5, <3>1, <3>2, <3>3, <3>4, <3>5, <3>6, <3>7 DEF Environment
  <2> HIDE DEF J, T
  <2>4. Chances(i)' - Chances(i) = Waits(i)' - Waits(i)
    BY <1>2, <2>2
  <2>5. Licences(i)' - Licences(i) = (Queued(i)' - Queued(i)) + (retries'[i] - retries[i])
    BY <1>3
  <2>6. Licences(i)' \in {Licences(i), Licences(i) + 1}
    BY <1>3, <2>3
  <2>7. Waits(i)' - Waits(i) <= (Queued(i)' - Queued(i)) + (retries'[i] - retries[i])
    BY <1>2, <1>3, <2>3
  <2> QED
    BY <1>1, <2>4, <2>5, <2>6, <2>7
<1> QED
  BY <1>4, <1>5

\* A request is about one message (Enqueue, Retry, Cancel).
LEMMA RequestIsOne ==
  ASSUME TypeOK, Environment
  PROVE  \/ \A i \in Items : Licences(i)' = Licences(i)
         \/ \E k \in Items : \A i \in Items \ {k} : Licences(i)' = Licences(i)
<1>1. ASSUME UNCHANGED <<rows, retries, lost>>, NEW i \in Items PROVE Licences(i)' = Licences(i)
  BY <1>1 DEF Licences, Queued
<1>2. ASSUME NEW k \in Items, UNCHANGED lost, NEW r, rows' = [rows EXCEPT ![k] = r],
             \A i \in Items \ {k} : retries'[i] = retries[i]
      PROVE  \A i \in Items \ {k} : Licences(i)' = Licences(i)
  BY <1>2 DEF Licences, Queued, TypeOK, TableType
<1>3. ASSUME NEW k \in Items, Enqueue(k) \/ BackoffElapses(k) \/ Retry(k)
      PROVE  \A i \in Items \ {k} : Licences(i)' = Licences(i)
  <2>1. UNCHANGED lost /\ \A i \in Items \ {k} : retries'[i] = retries[i]
    BY <1>3 DEF Enqueue, BackoffElapses, Retry, histVars, TypeOK, HistoryType
  <2>2. \A i \in Items \ {k} : rows'[i] = rows[i]
    BY <1>3 DEF Enqueue, BackoffElapses, Retry, TypeOK, TableType
  <2> QED
    BY <2>1, <2>2 DEF Licences, Queued
<1>4. ASSUME NEW a \in Admins, CancelSave(a)
      PROVE  \/ \A i \in Items : Licences(i)' = Licences(i)
             \/ \E k \in Items : \A i \in Items \ {k} : Licences(i)' = Licences(i)
  <2>1. UNCHANGED <<retries, lost>>
    BY <1>4 DEF CancelSave, histVars
  <2>2. CASE UNCHANGED rows
    BY <1>1, <2>1, <2>2
  <2>3. ASSUME NEW c \in cancels[a],
               rows' = [rows EXCEPT ![c.id] =
                          [status |-> "canceled", attempts |-> c.attempts, due |-> TRUE]]
        PROVE  \E k \in Items : \A i \in Items \ {k} : Licences(i)' = Licences(i)
    <3>1. c.id \in Items
      BY DEF TypeOK, TableType, Copy
    <3>2. \A i \in Items \ {c.id} : rows'[i] = rows[i]
      BY <2>3 DEF TypeOK, TableType
    <3>3. \A i \in Items \ {c.id} : Licences(i)' = Licences(i)
      BY <2>1, <3>2 DEF Licences, Queued
    <3> QED
      BY <3>1, <3>3
  <2> QED
    BY <1>4, <2>2, <2>3 DEF CancelSave
<1>5. ASSUME Stop \/ Crash \/ \E a \in Admins, i \in Items : CancelRead(a, i)
      PROVE  UNCHANGED <<rows, retries, lost>>
  BY <1>5 DEF Stop, Crash, CancelRead, histVars
<1> QED
  BY <1>1, <1>3, <1>4, <1>5 DEF Environment

-----------------------------------------------------------------------------
\* A step under which acceptances and chances stay within the licences is a step
\* of Ledger: it grants a licence, uses one up, or leaves both alone.
LicencesOf == [i \in Items |-> Queued(i) + retries[i] + lost[i]]
LedgerStep == [LedgerOf!Next]_(LedgerOf!vars)

LEMMA LedgerStutters ==
  ASSUME UNCHANGED accepted, \A i \in Items : Licences(i)' = Licences(i)
  PROVE  LedgerStep
<1>1. LicencesOf' = LicencesOf
  BY DEF LicencesOf, Licences
<1> QED
  BY <1>1 DEF LedgerStep, LedgerOf!vars, LicencesOf

LEMMA LedgerGrants ==
  ASSUME NEW k \in Items, UNCHANGED accepted, Licences(k)' = Licences(k) + 1,
         \A i \in Items \ {k} : Licences(i)' = Licences(i)
  PROVE  LedgerStep
<1>1. LicencesOf' = [LicencesOf EXCEPT ![k] = @ + 1]
  BY DEF LicencesOf, Licences
<1>2. LedgerOf!Grant(k)
  BY <1>1 DEF LedgerOf!Grant, LicencesOf
<1> QED
  BY <1>2 DEF LedgerStep, LedgerOf!Next

LEMMA LedgerAccepts ==
  ASSUME NEW k \in Items, accepted[k] < Licences(k), accepted' = [accepted EXCEPT ![k] = @ + 1],
         \/ \A i \in Items : Licences(i)' = Licences(i)
         \/ Licences(k)' = Licences(k) + 1 /\ \A i \in Items \ {k} : Licences(i)' = Licences(i)
  PROVE  LedgerStep
<1>1. accepted[k] < LicencesOf[k]
  BY DEF LicencesOf, Licences
<1>2. CASE \A i \in Items : Licences(i)' = Licences(i)
  <2>1. LicencesOf' = LicencesOf
    BY <1>2 DEF LicencesOf, Licences
  <2>2. LedgerOf!Accept(k)
    BY <1>1, <2>1 DEF LedgerOf!Accept, LicencesOf
  <2> QED
    BY <2>2 DEF LedgerStep, LedgerOf!Next
<1>3. CASE Licences(k)' = Licences(k) + 1 /\ \A i \in Items \ {k} : Licences(i)' = Licences(i)
  <2>1. LicencesOf' = [LicencesOf EXCEPT ![k] = @ + 1]
    BY <1>3 DEF LicencesOf, Licences
  <2>2. LedgerOf!AcceptUnknown(k)
    BY <1>1, <2>1 DEF LedgerOf!AcceptUnknown, LicencesOf
  <2> QED
    BY <2>2 DEF LedgerStep, LedgerOf!Next
<1> QED
  BY <1>2, <1>3

LEMMA InitLedger == Init => LedgerInv /\ LedgerOf!Init
<1> SUFFICES ASSUME Init PROVE LedgerInv /\ LedgerOf!Init
  OBVIOUS
<1>1. LedgerOf!Init
  BY DEF Init, LedgerOf!Init, Queued
<1>2. ASSUME NEW i \in Items PROVE accepted[i] + Chances(i) <= Licences(i)
  <2>1. Len(jobs) = 0 /\ Working = {} /\ hand = {}
    BY DEF Init, Working
  <2>2. JobsOf(jobs, i) = {} /\ Trying(i) = {} /\ Offered(i) = 0
    BY <2>1 DEF JobsOf, Trying, Offered, InHand
  <2>3. Waits(i) = 0
    BY DEF Init, Waits, Claimable
  <2>4. Chances(i) = 0
    BY <2>2, <2>3, FS_EmptySet DEF Chances
  <2> QED
    BY <2>4 DEF Init, Licences, Queued
<1> QED
  BY <1>1, <1>2 DEF LedgerInv

LEMMA StepLedger ==
  ASSUME TypeOK, TypeOK', ClaimInv, LedgerInv, [Next]_vars
  PROVE  LedgerInv' /\ LedgerStep
<1>1. \A i \in Items : /\ accepted[i] \in Nat /\ accepted'[i] \in Nat
                       /\ Licences(i) \in Nat /\ Licences(i)' \in Nat
                       /\ Chances(i) \in Nat /\ Chances(i)' \in Nat
  BY ChancesAreFinite, ChancesStayFinite DEF TypeOK, HistoryType, Licences, Queued, Chances
<1>2. \A i \in Items : accepted[i] + Chances(i) <= Licences(i)
  BY DEF LedgerInv
<1>3. CASE Dispatcher
  <2>1. UNCHANGED <<accepted, retries, lost>>
    BY <1>3, DispatcherFrame DEF histVars
  <2>2. \A i \in Items : Licences(i)' = Licences(i) /\ Chances(i)' <= Chances(i)
    BY <1>3, <2>1, DispatcherChances DEF Licences
  <2> QED
    BY <1>1, <1>2, <2>1, <2>2, LedgerStutters DEF LedgerInv
<1>4. ASSUME NEW w \in Workers, Worker(w) PROVE LedgerInv' /\ LedgerStep
  <2>1. retries' = retries
    BY <1>4 DEF Worker, TakeJob, ExitWorker, AcquireSlot, LookupMX, Attempt, HostAccepts, HostRejects,
       HostDefers, ReplyLost, Save, SaveSent, SaveDeferred, SaveFailed, SaveError, Bounce, histVars
  <2>2. \A i \in Items : Queued(i)' = Queued(i) /\ Chances(i)' <= Chances(i)
    BY <1>4, WorkerChances
  <2>3. CASE HostAccepts(w)
    <3>0. PICK k \in Items : k = item[w].id
      BY <2>3 DEF HostAccepts, TypeOK, WorkerType, Busy, Copy
    <3>1. k \in Items /\ accepted' = [accepted EXCEPT ![k] = @ + 1] /\ lost' = lost
      BY <2>3, <3>0 DEF HostAccepts
    <3>2. Chances(k) >= 1
      BY <1>4, <2>3, <3>0, WorkerChances DEF Attempt
    <3>2a. Chances(k)' <= Chances(k) - 1
      BY <1>4, <2>3, <3>0, WorkerChances
    <3>3. \A i \in Items : Licences(i)' = Licences(i)
      BY <2>1, <2>2, <3>1 DEF Licences
    <3>4. \A i \in Items : accepted'[i] = IF i = k THEN accepted[i] + 1 ELSE accepted[i]
      BY <3>1 DEF TypeOK, HistoryType
    <3>5. accepted[k] < Licences(k)
      BY <1>1, <1>2, <3>1, <3>2
    <3>6. ASSUME NEW i \in Items PROVE accepted'[i] + Chances(i)' <= Licences(i)'
      <4>1. CASE i = k
        BY <1>1, <1>2, <3>1, <3>2a, <3>3, <3>4, <4>1
      <4>2. CASE i # k
        BY <1>1, <1>2, <2>2, <3>3, <3>4, <4>2
      <4> QED
        BY <4>1, <4>2
    <3> QED
      BY <3>1, <3>3, <3>5, <3>6, LedgerAccepts DEF LedgerInv
  <2>4. CASE ReplyLost(w)
    <3>0. PICK k \in Items : k = item[w].id
      BY <2>4 DEF ReplyLost, TypeOK, WorkerType, Busy, Copy
    <3>1. /\ k \in Items /\ accepted' = [accepted EXCEPT ![k] = @ + 1]
          /\ lost' = [lost EXCEPT ![k] = @ + 1]
      BY <2>4, <3>0 DEF ReplyLost
    <3>2. Chances(k) >= 1
      BY <1>4, <2>4, <3>0, WorkerChances DEF Attempt
    <3>3. \A i \in Items : lost'[i] = IF i = k THEN lost[i] + 1 ELSE lost[i]
      BY <3>1 DEF TypeOK, HistoryType
    <3>4. \A i \in Items : Licences(i)' = IF i = k THEN Licences(i) + 1 ELSE Licences(i)
      <4>1. \A i \in Items : lost[i] \in Nat /\ retries[i] \in Nat /\ Queued(i) \in Nat
        BY DEF TypeOK, HistoryType, Queued
      <4> QED
        BY <2>1, <2>2, <3>3, <4>1 DEF Licences
    <3>5. \A i \in Items : accepted'[i] = IF i = k THEN accepted[i] + 1 ELSE accepted[i]
      BY <3>1 DEF TypeOK, HistoryType
    <3>6. accepted[k] < Licences(k)
      BY <1>1, <1>2, <3>1, <3>2
    <3>7. ASSUME NEW i \in Items PROVE accepted'[i] + Chances(i)' <= Licences(i)'
      BY <1>1, <1>2, <2>2, <3>4, <3>5
    <3> QED
      BY <3>1, <3>4, <3>6, <3>7, LedgerAccepts DEF LedgerInv
  <2>5. CASE ~HostAccepts(w) /\ ~ReplyLost(w)
    <3>1. UNCHANGED <<accepted, lost>>
      BY <1>4, <2>5 DEF Worker, TakeJob, ExitWorker, AcquireSlot, LookupMX, Attempt, HostRejects,
         HostDefers, Save, SaveSent, SaveDeferred, SaveFailed, SaveError, Bounce, histVars
    <3>2. \A i \in Items : Licences(i)' = Licences(i)
      BY <2>1, <2>2, <3>1 DEF Licences
    <3> QED
      BY <1>1, <1>2, <2>2, <3>1, <3>2, LedgerStutters DEF LedgerInv
  <2> QED
    BY <2>3, <2>4, <2>5
<1>5. CASE Environment
  <2>1. UNCHANGED <<accepted, lost>>
    <3>1. CASE Items = {}
      BY <1>5 DEF Environment, Enqueue, BackoffElapses, Retry, CancelRead, CancelSave, Stop, Crash, histVars
    <3>2. CASE Items # {}
      BY <1>5, <3>2, RequestChances
    <3> QED
      BY <3>1, <3>2
  <2>2. \A i \in Items : /\ Chances(i)' - Chances(i) <= Licences(i)' - Licences(i)
                         /\ Licences(i)' \in {Licences(i), Licences(i) + 1}
    BY <1>5, RequestChances
  <2>3. LedgerInv'
    <3> SUFFICES ASSUME NEW i \in Items PROVE accepted'[i] + Chances(i)' <= Licences(i)'
      BY DEF LedgerInv
    <3> QED
      BY <1>1, <1>2, <2>1, <2>2
  <2>4. LedgerStep
    <3>1. CASE \A i \in Items : Licences(i)' = Licences(i)
      BY <2>1, <3>1, LedgerStutters
    <3>2. ASSUME NEW k \in Items, \A i \in Items \ {k} : Licences(i)' = Licences(i) PROVE LedgerStep
      BY <2>1, <2>2, <3>2, LedgerStutters, LedgerGrants
    <3> QED
      BY <1>5, <3>1, <3>2, RequestIsOne
  <2> QED
    BY <2>3, <2>4
<1>6. CASE UNCHANGED vars
  <2>1. UNCHANGED <<rows, hand, jobs, wpc, item, reply, accepted, retries, lost>>
    BY <1>6 DEF vars, dispVars, chanVars, workVars, histVars
  <2>2. \A i \in Items : Licences(i)' = Licences(i) /\ Chances(i)' = Chances(i)
    BY <2>1 DEF Licences, Queued, Chances, Waits, Offered, InHand, JobsOf, Trying, Working
  <2> QED
    BY <1>2, <2>1, <2>2, LedgerStutters DEF LedgerInv
<1> QED
  BY <1>3, <1>4, <1>5, <1>6 DEF Next

(* LedgerInv: a message is accepted, and may still be accepted, at most as *)
(* often as it has licences, whatever is in flight (processDue,            *)
(* deliverOne, Deliver, Retry).                                            *)
THEOREM LedgerInvCorrect == Spec => []LedgerInv
<1>1. TypeOK /\ TypeOK' /\ ClaimInv /\ LedgerInv /\ [Next]_vars => LedgerInv'
  BY StepLedger
<1>2. Init => LedgerInv
  BY InitLedger
<1> QED
  BY <1>1, <1>2, TypeCorrect, ClaimCorrect, PTL DEF Spec

(* LedgerSpec: the queue implements Ledger. The remote side accepts a      *)
(* message at most once, plus once for every retry and once for every      *)
(* reply that got lost, for any workers, crashes and failing writes        *)
(* (Manager, Mailer.Deliver).                                              *)
THEOREM LedgerCorrect == Spec => LedgerSpec
<1>1. Init => LedgerOf!Init
  BY InitLedger
<1>2. TypeOK /\ TypeOK' /\ ClaimInv /\ LedgerInv /\ [Next]_vars => [LedgerOf!Next]_(LedgerOf!vars)
  BY StepLedger DEF LedgerStep
<1> QED
  BY <1>1, <1>2, TypeCorrect, ClaimCorrect, LedgerInvCorrect, PTL DEF Spec, LedgerSpec, LedgerOf!Spec
=============================================================================
