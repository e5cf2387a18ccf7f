------------------------------ MODULE ImapPush ------------------------------
(***************************************************************************)
(* IMAP sessions of one user on one folder, and the pushing of changes     *)
(* between them: imap_server/session.go and server.go, with the requests   *)
(* of the web interface, the SMTP server and the POP3 server that change   *)
(* the folder and call the Pusher.                                         *)
(*                                                                         *)
(* A message is its primary key, which is also its UID; the folder lists   *)
(* its messages in the order of their keys, and the n-th of them has the   *)
(* sequence number n.  A client knows the folder only from what it has     *)
(* been told: view is what the n-th message is to the client.  It learns   *)
(* the keys behind an EXISTS as the folder was when they were counted.     *)
(***************************************************************************)
EXTENDS Naturals, FiniteSets, Sequences

CONSTANTS
  Sessions,      \* IMAP connections of the user
  Requests,      \* web requests, SMTP deliveries and POP3 sessions
  MaxMsg,        \* bound: messages 1..MaxMsg ever exist
  Present,       \* messages 1..Present are in the folder at first
  MaxQueue,      \* bound: no command starts while a queue is this long,
  Tolerated,     \* nor while a client is in doubt for another cause
  MayFail        \* may a statement on the messages table or a write to a client fail?

\* Why a client may be told wrong numbers: two changes of the folder overlap, one
\* overlaps its SELECT or UNSELECT, removes several messages, brings one back
\* below others, fails halfway, is made by a POP3 session with the numbers of an
\* old snapshot, or by one that logged in without the domain, or by one whose own
\* client cannot be written to, or its own removal is written ahead of the changes
\* queued for it.
Causes == {"overlap", "select", "several", "middle", "failure", "snapshot", "bare",
           "broken", "order"}

ASSUME PushAssumption ==
  /\ Sessions \intersect Requests = {}
  /\ MaxMsg \in Nat /\ Present \in 0..MaxMsg
  /\ MaxQueue \in Nat \ {0}
  /\ Tolerated \subseteq Causes
  /\ MayFail \in BOOLEAN

VARIABLES
  folder,    \* messages in the folder
  trash,     \* messages moved to another folder
  last,      \* the last primary key given out
  hub,       \* mailboxHub.sessions of the folder
  queue,     \* imapSession.queue
  token,     \* imapSession.notify holds a token
  pc,        \* where each session or request is
  plan,      \* messages a handler is about to remove, as it listed them
  gone,      \* the numbers of those it has removed
  todo,      \* updates a handler has yet to push
  targets,   \* sessions that hub.enqueue has yet to push the head of todo to
  view       \* what the client takes the messages of the folder to be

\* History.
VARIABLE
  doubt      \* pairs of a session and a cause that may have misled its client

Procs == Sessions \union Requests

dbVars == <<folder, trash, last>>
sessVars == <<hub, queue, token, view>>
jobVars == <<plan, gone, todo, targets>>
vars == <<dbVars, sessVars, pc, jobVars, doubt>>

-----------------------------------------------------------------------------
\* ORDER BY id: the n-th row of a set is the one at place n.
Place(m, S) == Cardinality({k \in S : k <= m})
Ordered(S) == [n \in 1..Cardinality(S) |-> CHOOSE m \in S : Place(m, S) = n]

\* ListAllByUserAndFolder.
Listing == Ordered(folder)

\* The number of message m, as any handler computes it from the listing.
Number(m) == Place(m, folder)

\* A sequence without its n-th element.
Without(v, n) == [k \in 1..Len(v) - 1 |-> IF k < n THEN v[k] ELSE v[k + 1]]

\* sessionUpdate; ids is what the client will find behind an EXISTS.
Expunge(n) == [kind |-> "expunge", num |-> n, ids |-> <<>>]
Exists == [kind |-> "exists", num |-> Cardinality(folder), ids |-> Listing]
Flags == [kind |-> "fetch", num |-> 0, ids |-> <<>>]

\* What a client makes of an update: a smaller EXISTS cuts its view off.
Told(v, u) ==
  CASE u.kind = "expunge" -> IF u.num \in 1..Len(v) THEN Without(v, u.num) ELSE v
    [] u.kind = "exists" -> [k \in 1..u.num |-> IF k <= Len(v) THEN v[k] ELSE u.ids[k]]
    [] OTHER -> v
Hears(v, us) ==
  LET heard[n \in 0..Len(us)] == IF n = 0 THEN v ELSE Told(heard[n - 1], us[n])
  IN heard[Len(us)]

Selected == {"ready", "answer", "poll", "idle", "wrote", "wait"}

\* Handlers between reading or changing the folder and their last push.
Membership(us) == \E k \in DOMAIN us : us[k].kind # "fetch"
Changing(p) == pc[p] \in {"delete", "move", "count", "purge"} \/ Membership(todo[p])

\* Ghost: p changes the folder, which may mislead every client because of why.
Doubted(p, why) ==
  LET overlap == {c \in {"overlap"} : \E q \in Procs \ {p} : Changing(q)} IN
  doubt' = doubt \union (Sessions \X (why \union overlap))
                 \union ({s \in Sessions : pc[s] \in {"join", "leave"}} \X {"select"})

\* Ghost: removals that p writes to its own client overtake what is queued for it.
Overtakes(p, nums) ==
  {c \in {"order"} : p \in Sessions /\ nums # <<>> /\ Membership(queue[p])}

Init ==
  /\ folder = 1..Present /\ trash = {} /\ last = Present
  /\ hub = {}
  /\ queue = [s \in Sessions |-> <<>>]
  /\ token = [s \in Sessions |-> FALSE]
  /\ view = [s \in Sessions |-> <<>>]
  /\ pc = [p \in Procs |-> "out"]
  /\ plan = [p \in Procs |-> <<>>]
  /\ gone = [p \in Procs |-> <<>>]
  /\ todo = [p \in Procs |-> <<>>]
  /\ targets = [p \in Procs |-> {}]
  /\ doubt = {}

\* A client sends a command, or another request comes in.
Starts(p) ==
  /\ pc[p] = IF p \in Sessions THEN "ready" ELSE "out"
  /\ \A s \in Sessions : Len(queue[s]) < MaxQueue
  /\ doubt \subseteq Sessions \X Tolerated

Goto(p, l) == pc' = [pc EXCEPT ![p] = l]

\* After a handler: the library polls the session's updates.
Answer(p) == IF p \in Sessions THEN "poll" ELSE "out"

-----------------------------------------------------------------------------
(* SELECT: the data of the answer is read before the session joins the hub.*)
SelectRead(s) ==
  /\ pc[s] = "out"
  /\ view' = [view EXCEPT ![s] = Listing]
  /\ Goto(s, "join")
  /\ doubt' = {d \in doubt : d[1] # s} \union
       {d \in {<<s, "select">>} : Membership(queue[s]) \/ \E q \in Procs \ {s} : Changing(q)}
  /\ UNCHANGED <<dbVars, hub, queue, token, jobVars>>

SelectJoin(s) ==
  /\ pc[s] = "join"
  /\ hub' = hub \union {s}
  /\ Goto(s, "poll")
  /\ UNCHANGED <<dbVars, queue, token, view, jobVars, doubt>>

\* UNSELECT, CLOSE, and a new SELECT (the library unselects first): the queue
\* is cleared before the session leaves the hub.
UnselectClear(s) ==
  /\ pc[s] = "ready"
  /\ queue' = [queue EXCEPT ![s] = <<>>]
  /\ Goto(s, "leave")
  /\ UNCHANGED <<dbVars, hub, token, view, jobVars, doubt>>

UnselectLeave(s) ==
  /\ pc[s] = "leave"
  /\ hub' = hub \ {s}
  /\ view' = [view EXCEPT ![s] = <<>>]
  /\ Goto(s, "out")
  /\ UNCHANGED <<dbVars, queue, token, jobVars, doubt>>

\* The connection ends, as it must once a write to it has failed; the next one has
\* a new imapSession.
Close(s) ==
  /\ pc[s] \in {"ready", "idle", "wait", "broken"}
  /\ hub' = hub \ {s}
  /\ queue' = [queue EXCEPT ![s] = <<>>]
  /\ token' = [token EXCEPT ![s] = FALSE]
  /\ view' = [view EXCEPT ![s] = <<>>]
  /\ targets' = [p \in Procs |-> targets[p] \ {s}]
  /\ Goto(s, "out")
  /\ UNCHANGED <<dbVars, plan, gone, todo, doubt>>

-----------------------------------------------------------------------------
(* Commands that change no membership.                                     *)

\* NOOP, and EXPUNGE with nothing to expunge.
Noop(s) ==
  /\ Starts(s)
  /\ Goto(s, "poll")
  /\ UNCHANGED <<dbVars, sessVars, jobVars, doubt>>

Fetch(s) ==
  /\ Starts(s)
  /\ Goto(s, "answer")
  /\ UNCHANGED <<dbVars, sessVars, jobVars, doubt>>

\* STORE: if it names a message the other sessions hear of it, even if an update
\* of the flags failed. Which messages have \Deleted is abstracted from.
Store(s) ==
  /\ Starts(s)
  /\ \/ folder # {} /\ todo' = [todo EXCEPT ![s] = <<Flags>>] /\ Goto(s, "push")
     \/ Goto(s, "answer") /\ UNCHANGED todo
  /\ UNCHANGED <<dbVars, sessVars, plan, gone, targets, doubt>>

\* The web interface marks a message as read or flagged.
MarkRead(p) ==
  /\ Starts(p) /\ folder # {}
  /\ todo' = [todo EXCEPT ![p] = <<Flags>>]
  /\ Goto(p, "push")
  /\ UNCHANGED <<dbVars, sessVars, plan, gone, targets, doubt>>

-----------------------------------------------------------------------------
(* Messages are added: APPEND and local delivery add one, COPY any number, *)
(* one after the other. Then they are counted, once.                       *)
Add(p) ==
  /\ Starts(p) \/ pc[p] = "count"
  /\ last < MaxMsg
  /\ last' = last + 1
  /\ folder' = folder \union {last'}
  /\ Goto(p, "count")
  /\ Doubted(p, {})
  /\ UNCHANGED <<trash, sessVars, jobVars>>

\* Messages come back from another folder, with their old keys: they need not be
\* the last ones, which is what the clients are told. Which handler adds and which
\* restores several messages is abstracted from.
Restore(p) ==
  /\ Starts(p) \/ pc[p] = "count"
  /\ \E m \in trash :
       /\ trash' = trash \ {m}
       /\ folder' = folder \union {m}
       /\ Doubted(p, {c \in {"middle"} : \E k \in folder : k > m})
  /\ Goto(p, "count")
  /\ UNCHANGED <<last, sessVars, jobVars>>

\* COPY and MOVE count the messages and push the EXISTS even if they added none.
CopyNone(p) ==
  /\ Starts(p)
  /\ Goto(p, "count")
  /\ Doubted(p, {})
  /\ UNCHANGED <<dbVars, sessVars, jobVars>>

\* CountByUserAndFolder; a failing query pushes nothing, nor does a MOVE into this
\* folder that cannot write to its own client.
Count(p) ==
  /\ pc[p] = "count"
  /\ \/ /\ todo' = [todo EXCEPT ![p] = <<Exists>>]
        /\ Goto(p, "push")
        /\ UNCHANGED doubt
     \/ /\ MayFail
        /\ Goto(p, Answer(p))
        /\ Doubted(p, {"failure"})
        /\ UNCHANGED todo
  /\ UNCHANGED <<dbVars, sessVars, plan, gone, targets>>

-----------------------------------------------------------------------------
(* Messages are removed: the handler lists the folder, removes, and        *)
(* announces the numbers of the listing in ascending order.                *)
Plan(S) == LET ms == Ordered(S) IN
  [k \in DOMAIN ms |-> [id |-> ms[k], num |-> Number(ms[k])]]

Lists(p, planned, next, why) ==
  /\ planned # <<>>
  /\ plan' = [plan EXCEPT ![p] = planned]
  /\ Goto(p, next)
  /\ Doubted(p, why \union {c \in {"several"} : Len(planned) > 1})
  /\ UNCHANGED <<dbVars, sessVars, gone, todo, targets>>

\* EXPUNGE, UID EXPUNGE, CLOSE: S are the messages with \Deleted.
ExpungeRead(s) == Starts(s) /\ \E S \in SUBSET folder : Lists(s, Plan(S), "delete", {})

\* MOVE to another folder.
MoveRead(s) == Starts(s) /\ \E S \in SUBSET folder : Lists(s, Plan(S), "move", {})

\* The web interface deletes a message into the trash, or for good; if it cannot
\* find the number, it goes on with 0.
WebDelete(p) ==
  /\ Starts(p)
  /\ \E m \in folder, next \in {"move", "delete"} :
       \/ Lists(p, Plan({m}), next, {})
       \/ MayFail /\ Lists(p, <<[id |-> m, num |-> 0]>>, next, {"failure"})

\* The web interface empties the folder.
EmptyFolder(p) == Starts(p) /\ Lists(p, Plan(folder), "delete", {})

\* The handler's own client hears of the removals at once, the others through
\* the hub.
Announce(p, nums) ==
  LET us == [k \in DOMAIN nums |-> Expunge(nums[k])] IN
  /\ todo' = [todo EXCEPT ![p] = us]
  /\ view' = IF p \in Sessions THEN [view EXCEPT ![p] = Hears(@, us)] ELSE view
  /\ Goto(p, IF us = <<>> THEN Answer(p) ELSE "push")

\* A session that cannot write the removals to its own client returns before the hub
\* hears of them; what that client has read of them no longer matters.
Breaks(p, nums) ==
  /\ MayFail /\ p \in Sessions
  /\ Goto(p, "broken")
  /\ Doubted(p, {c \in {"broken"} : nums # <<>>})
  /\ UNCHANGED <<todo, view>>

\* DeleteMany, all or nothing. If it fails, IMAP announces nothing, while the
\* web interface announces what it did not remove.
DeleteMany(p) ==
  /\ pc[p] = "delete"
  /\ plan' = [plan EXCEPT ![p] = <<>>]
  /\ \/ /\ folder' = folder \ {plan[p][k].id : k \in DOMAIN plan[p]}
        /\ \/ /\ Announce(p, [k \in DOMAIN plan[p] |-> plan[p][k].num])
              /\ doubt' = doubt \union ({p} \X Overtakes(p, plan[p]))
           \/ Breaks(p, plan[p])
     \/ /\ MayFail /\ p \in Sessions
        /\ Announce(p, <<>>)
        /\ UNCHANGED <<folder, doubt>>
     \/ /\ MayFail /\ p \in Requests
        /\ Announce(p, [k \in DOMAIN plan[p] |-> plan[p][k].num])
        /\ Doubted(p, {"failure"})
        /\ UNCHANGED folder
  /\ UNCHANGED <<trash, last, hub, queue, token, gone, targets>>

\* MoveToFolder of the next message: an UPDATE by key, which succeeds whether
\* or not the row is still there. A failing one is skipped.
MoveOne(p) ==
  /\ pc[p] = "move" /\ plan[p] # <<>>
  /\ LET m == Head(plan[p]) IN
     \/ /\ folder' = folder \ {m.id}
        /\ trash' = trash \union ({m.id} \intersect folder)
        /\ gone' = [gone EXCEPT ![p] = Append(@, m.num)]
     \/ MayFail /\ UNCHANGED <<folder, trash, gone>>
  /\ plan' = [plan EXCEPT ![p] = Tail(@)]
  /\ UNCHANGED <<last, sessVars, pc, todo, targets, doubt>>

MoveEnd(p) ==
  /\ pc[p] = "move" /\ plan[p] = <<>>
  /\ gone' = [gone EXCEPT ![p] = <<>>]
  /\ \/ /\ Announce(p, gone[p])
        /\ doubt' = doubt \union ({p} \X Overtakes(p, gone[p]))
     \/ Breaks(p, gone[p])
  /\ UNCHANGED <<dbVars, hub, queue, token, plan, targets>>

\* A POP3 session lists the folder at PASS and marks messages; the numbers it will
\* announce are those of this listing.
Pop3Mark(p) ==
  /\ Starts(p)
  /\ \E S \in SUBSET folder \ {{}} : plan' = [plan EXCEPT ![p] = Plan(S)]
  /\ Goto(p, "mark")
  /\ UNCHANGED <<dbVars, sessVars, gone, todo, targets, doubt>>

\* The connection ends without QUIT: nothing is removed.
Pop3Drop(p) ==
  /\ pc[p] = "mark"
  /\ plan' = [plan EXCEPT ![p] = <<>>]
  /\ Goto(p, "out")
  /\ UNCHANGED <<dbVars, sessVars, gone, todo, targets, doubt>>

Stale(planned) == \E k \in DOMAIN planned :
  planned[k].id \notin folder \/ planned[k].num # Number(planned[k].id)

\* QUIT: expungeDeleted begins.
Pop3Quit(p) ==
  /\ pc[p] = "mark"
  /\ Goto(p, "purge")
  /\ Doubted(p, {c \in {"several"} : Len(plan[p]) > 1}
               \union {c \in {"snapshot"} : Stale(plan[p])})
  /\ UNCHANGED <<dbVars, sessVars, jobVars>>

\* Mutant: a message that could not be deleted is announced.
Pop3Delete_Announces(p) ==
  /\ pc[p] = "purge"
  /\ \E k \in DOMAIN plan[p] :
       /\ plan' = [plan EXCEPT ![p] = Without(@, k)]
       /\ folder' \in {folder \ {plan[p][k].id}} \union {f \in {folder} : MayFail}
       /\ gone' = [gone EXCEPT ![p] = Append(@, plan[p][k].num)]
  /\ UNCHANGED <<trash, last, sessVars, pc, todo, targets, doubt>>

\* The marked messages are deleted one by one in the order of a Go map, that is in
\* any order. Deleting a row that is gone succeeds; one that fails is skipped.
Pop3Delete(p) ==
  /\ pc[p] = "purge"
  /\ \E k \in DOMAIN plan[p] :
       /\ plan' = [plan EXCEPT ![p] = Without(@, k)]
       /\ \/ /\ folder' = folder \ {plan[p][k].id}
             /\ gone' = [gone EXCEPT ![p] = Append(@, plan[p][k].num)]
          \/ MayFail /\ UNCHANGED <<folder, gone>>
  /\ UNCHANGED <<trash, last, sessVars, pc, todo, targets, doubt>>

\* One push to the hub of the login as the client typed it: under a name without
\* its domain there is no hub, and no session hears of the removals.
Pop3End(p) ==
  /\ pc[p] = "purge" /\ plan[p] = <<>>
  /\ gone' = [gone EXCEPT ![p] = <<>>]
  /\ \/ Announce(p, gone[p]) /\ UNCHANGED doubt
     \/ Announce(p, <<>>) /\ Doubted(p, {c \in {"bare"} : gone[p] # <<>>})
  /\ UNCHANGED <<dbVars, hub, queue, token, plan, targets>>

-----------------------------------------------------------------------------
(* mailboxHub.enqueue: a snapshot of the sessions, then one push to each.  *)

\* Mutant: a session hears of its own removals twice.
Audience_Echo(p, u) == hub

\* The source of flags and removals is left out; everybody hears of EXISTS.
Audience(p, u) == IF u.kind = "exists" THEN hub ELSE hub \ {p}

Snapshot(p) ==
  /\ pc[p] = "push"
  /\ targets' = [targets EXCEPT ![p] = Audience(p, Head(todo[p]))]
  /\ Goto(p, "send")
  /\ UNCHANGED <<dbVars, sessVars, plan, gone, todo, doubt>>

\* Mutant: without a buffer, a token sent while Idle is writing is lost.
Notify_Unbuffered(s) == token' = [token EXCEPT ![s] = pc[s] = "wait"]

\* pushUpdate: append, then a token that is dropped if there is one already.
Notify(s) == token' = [token EXCEPT ![s] = TRUE]

Send(p, s) ==
  /\ pc[p] = "send" /\ s \in targets[p]
  /\ queue' = [queue EXCEPT ![s] = Append(@, Head(todo[p]))]
  /\ Notify(s)
  /\ targets' = [targets EXCEPT ![p] = @ \ {s}]
  /\ UNCHANGED <<dbVars, hub, view, pc, plan, gone, todo, doubt>>

Sent(p) ==
  /\ pc[p] = "send" /\ targets[p] = {}
  /\ todo' = [todo EXCEPT ![p] = Tail(@)]
  /\ Goto(p, IF Tail(todo[p]) # <<>> THEN "push"
             ELSE IF p \in Sessions /\ Head(todo[p]).kind = "fetch" THEN "answer"
             ELSE Answer(p))
  /\ UNCHANGED <<dbVars, sessVars, plan, gone, targets, doubt>>

-----------------------------------------------------------------------------
(* takeUpdates and writeUpdates.                                           *)
Writes(s, n) ==
  /\ view' = [view EXCEPT ![s] = Hears(@, SubSeq(queue[s], 1, n))]
  /\ queue' = [queue EXCEPT ![s] = SubSeq(@, n + 1, Len(@))]
  /\ UNCHANGED <<dbVars, hub, jobVars, doubt>>

\* Mutant: everything is written.
Unnumbered_All(q) == Len(q)

\* The updates before the first EXPUNGE.
Unnumbered(q) == Cardinality({k \in DOMAIN q : \A j \in 1..k : q[j].kind # "expunge"})

\* After FETCH, STORE and SEARCH no EXPUNGE may be written, nor what follows it.
PollNoExpunge(s) ==
  /\ pc[s] = "answer"
  /\ Writes(s, Unnumbered(queue[s]))
  /\ Goto(s, "ready")
  /\ UNCHANGED token

Poll(s) ==
  /\ pc[s] = "poll"
  /\ Writes(s, Len(queue[s]))
  /\ Goto(s, "ready")
  /\ UNCHANGED token

Idle(s) ==
  /\ Starts(s)
  /\ Goto(s, "idle")
  /\ UNCHANGED <<dbVars, sessVars, jobVars, doubt>>

IdleWrite(s) ==
  /\ pc[s] = "idle"
  /\ Writes(s, Len(queue[s]))
  /\ Goto(s, "wrote")
  /\ UNCHANGED token

IdleWait(s) ==
  /\ pc[s] = "wrote"
  /\ Goto(s, "wait")
  /\ UNCHANGED <<dbVars, sessVars, jobVars, doubt>>

IdleWake(s) ==
  /\ pc[s] = "wait" /\ token[s]
  /\ token' = [token EXCEPT ![s] = FALSE]
  /\ Goto(s, "idle")
  /\ UNCHANGED <<dbVars, hub, queue, view, jobVars, doubt>>

\* The client sends DONE.
IdleDone(s) ==
  /\ pc[s] = "wait"
  /\ Goto(s, "poll")
  /\ UNCHANGED <<dbVars, sessVars, jobVars, doubt>>

-----------------------------------------------------------------------------
Command(s) ==
  \/ SelectRead(s) \/ UnselectClear(s) \/ Close(s)
  \/ Noop(s) \/ Fetch(s) \/ Store(s) \/ ExpungeRead(s) \/ MoveRead(s)
  \/ Idle(s) \/ IdleDone(s)
Request(p) ==
  \/ MarkRead(p) \/ Restore(p) \/ WebDelete(p) \/ EmptyFolder(p)
  \/ Pop3Mark(p) \/ Pop3Drop(p) \/ Pop3Quit(p)

\* What goes on without the client.
Handler(p) ==
  \/ Count(p) \/ DeleteMany(p) \/ MoveOne(p) \/ MoveEnd(p) \/ Pop3Delete(p) \/ Pop3End(p)
  \/ Snapshot(p) \/ Sent(p) \/ \E s \in Sessions : Send(p, s)
Session(s) ==
  \/ SelectJoin(s) \/ UnselectLeave(s)
  \/ PollNoExpunge(s) \/ Poll(s) \/ IdleWrite(s) \/ IdleWait(s) \/ IdleWake(s)

Next ==
  \/ \E s \in Sessions : Command(s) \/ Session(s)
  \/ \E p \in Requests : Request(p)
  \/ \E p \in Procs : Add(p) \/ CopyNone(p) \/ Handler(p)

Spec == Init /\ [][Next]_vars

(***************************************************************************)
(* Fairness: a handler that can go on does, and so does a session.  Select *)
(* picks among a token and DONE at random, but a client need not say DONE. *)
(***************************************************************************)
Fairness ==
  /\ \A p \in Procs : WF_vars(Handler(p))
  /\ \A s \in Sessions : WF_vars(Session(s))
FairSpec == Spec /\ Fairness
=============================================================================
