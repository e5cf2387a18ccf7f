------------------------------ MODULE Pop3Proofs ------------------------------
(***************************************************************************)
(* Proofs about the POP3 sessions and the connection hub: who is banned is *)
(* disconnected, DELE never finds its map missing, and QUIT removes what   *)
(* was marked; what a session shows is the inbox of its last login, in the *)
(* order of the identifiers.                                               *)
(***************************************************************************)
EXTENDS Pop3Properties, Integers, FiniteSetTheorems, NaturalsInduction, WellFoundedInduction,
        TLAPS

Shapes ==
  /\ DOMAIN stage = Conns /\ DOMAIN folder = Ids
  /\ DOMAIN authUser = Pop3Conns /\ DOMAIN messages = Pop3Conns
  /\ DOMAIN marked = Pop3Conns /\ DOMAIN removed = Pop3Conns /\ DOMAIN kept = Pop3Conns
  /\ deleted \in [Pop3Conns -> [map : BOOLEAN, set : SUBSET Int]]

LEMMA ShapesInit == Init => Shapes
BY DEF Init, ConnInit, Shapes, nil

\* The steps that are taken outside the POP3 sessions.
Elsewhere == ConnNext /\ UNCHANGED pop3Vars

LEMMA ShapesStep == Shapes /\ [Next]_vars => Shapes'
<1> SUFFICES ASSUME Shapes, [Next]_vars PROVE Shapes'
  OBVIOUS
<1> USE DEF pop3Vars, connVars
<1>1. DOMAIN stage' = Conns /\ DOMAIN folder' = Ids
  BY DEF Shapes, Next, ConnNext, Admit, Admin, Connect, Refuse, LooksUp, Login, Register,
     SetDisconnect, Hangup, End, Leave, Find, BanIP, Collect, Call, Unban, To, Session, USER, PASS, DELE, RSET,
     STLS, QUIT, Expunge, Bye, Lost, Deadline, Others, vars
<1>2. /\ DOMAIN authUser' = Pop3Conns /\ DOMAIN messages' = Pop3Conns
      /\ DOMAIN marked' = Pop3Conns /\ DOMAIN removed' = Pop3Conns /\ DOMAIN kept' = Pop3Conns
  BY DEF Shapes, Next, Session, USER, PASS, DELE, RSET, STLS, QUIT, Expunge, Bye, Lost, Deadline,
     Others, vars, Snapshot
<1>3. deleted' \in [Pop3Conns -> [map : BOOLEAN, set : SUBSET Int]]
  <2>1. ASSUME NEW c \in Pop3Conns, NEW msgs, NEW S, S \in [map : BOOLEAN, set : SUBSET Int],
               Snapshot(c, msgs, S)
        PROVE  deleted' \in [Pop3Conns -> [map : BOOLEAN, set : SUBSET Int]]
    BY <2>1 DEF Snapshot, Shapes
  <2>2. nil \in [map : BOOLEAN, set : SUBSET Int] /\ Marks({}) \in [map : BOOLEAN, set : SUBSET Int]
    BY DEF nil, Marks
  <2>3. ASSUME NEW c \in Pop3Conns, Session(c)
        PROVE  deleted' \in [Pop3Conns -> [map : BOOLEAN, set : SUBSET Int]]
    <3>1. CASE USER(c)
      BY <2>1, <2>2, <3>1 DEF USER
    <3>2. CASE PASS(c)
      BY <2>1, <2>2, <3>2 DEF PASS
    <3>3. CASE RSET(c)
      BY <2>1, <2>2, <3>3 DEF RSET
    <3>4. CASE DELE(c)
      <4>1. PICK i \in (1..Len(messages[c])) \ deleted[c].set :
              deleted' = [deleted EXCEPT ![c].set = @ \union {i}]
        BY <3>4 DEF DELE
      <4>2. i \in Int
        BY <4>1
      <4> QED
        BY <4>1, <4>2 DEF Shapes
    <3>5. CASE ~ (USER(c) \/ PASS(c) \/ RSET(c) \/ DELE(c))
      BY <2>3, <3>5 DEF Session, STLS, QUIT, Expunge, Bye, Lost, Deadline, Shapes
    <3> QED
      BY <3>1, <3>2, <3>3, <3>4, <3>5
  <2> QED
    BY <2>3 DEF Next, Others, vars, Shapes
<1> QED
  BY <1>1, <1>2, <1>3 DEF Shapes

-----------------------------------------------------------------------------
(* The connections that a ban has not reached are those that were being    *)
(* set up, and those whose callback is still to be called.                 *)
Past == {"checked", "admitted", "registered", "open", "quitting"}

KickInv ==
  /\ callback = {c \in Conns : stage[c] \in {"open", "quitting"}}
  /\ cut => banned
  /\ cut => \A c \in Conns : c \in sock /\ stage[c] \in Past => c \in missed \union targets

LEMMA KickInit == Init => KickInv
BY DEF Init, ConnInit, KickInv

\* A connection whose callback is not set, before and after the step.
LEMMA KickMove ==
  ASSUME Shapes, KickInv, NEW c \in Conns, NEW s, To(c, s),
         stage[c] \notin {"open", "quitting"}, s \notin {"open", "quitting"},
         UNCHANGED <<sock, callback, targets>>, cut' => cut /\ banned',
         \A d \in missed : d # c => d \in missed',
         cut' /\ c \in sock /\ s \in Past => c \in missed' \union targets
  PROVE  KickInv'
<1>1. stage'[c] = s /\ \A d \in Conns : d # c => stage'[d] = stage[d]
  BY DEF To, Shapes
<1>2. callback' = {d \in Conns : stage'[d] \in {"open", "quitting"}}
  BY <1>1 DEF KickInv
<1>3. ASSUME cut', NEW d \in Conns, d \in sock', stage'[d] \in Past
      PROVE  d \in missed' \union targets'
  <2>1. CASE d = c
    BY <1>1, <1>3, <2>1
  <2>2. CASE d # c
    BY <1>1, <1>3, <2>2 DEF KickInv
  <2> QED
    BY <2>1, <2>2
<1> QED
  BY <1>2, <1>3 DEF KickInv

LEMMA KickConn ==
  ASSUME Shapes, KickInv, ConnNext
  PROVE  KickInv'
<1> USE DEF hubVars, adminVars, history, Past
<1>1. ASSUME NEW c \in Conns, Admit(c) PROVE KickInv'
  <2>1. CASE Connect(c)
    BY <2>1, HubAssumption DEF Connect, LetIn, To, KickInv, Shapes
  <2>2. CASE Refuse(c)
    BY <2>2 DEF Refuse, To, KickInv, Shapes
  <2>6. CASE LooksUp(c)
    <3>1. cut => c \in missed' \union targets
      BY <2>6 DEF LooksUp, LetIn, KickInv
    <3>2. /\ missed \subseteq missed' /\ stage[c] = "greeted" /\ To(c, "checked")
          /\ UNCHANGED <<banned, sock, callback, targets, cut>>
      BY <2>6 DEF LooksUp, LetIn
    <3>3. cut => banned'
      BY <3>2 DEF KickInv
    <3> QED
      BY <3>1, <3>2, <3>3, KickMove
  <2>3. CASE Login(c)
    <3>1. /\ stage[c] = "checked" /\ UNCHANGED <<sock, callback, targets>>
          /\ \A d \in missed : d # c => d \in missed'
      BY <2>3 DEF Login
    <3>2. cut' => cut /\ banned'
      BY <2>3 DEF Login, AuthFails, ResetFail, KickInv
    <3>3. CASE To(c, "admitted") /\ UNCHANGED missed
      <4>1. cut /\ c \in sock => c \in missed \union targets
        BY <3>1 DEF KickInv
      <4> QED
        BY <3>1, <3>2, <3>3, <4>1, KickMove
    <3>4. CASE To(c, "greeted")
      BY <3>1, <3>2, <3>4, KickMove
    <3> QED
      BY <2>3, <3>3, <3>4 DEF Login
  <2>4. CASE Register(c)
    BY <2>4 DEF Register, To, KickInv, Shapes
  <2>5. CASE SetDisconnect(c)
    BY <2>5 DEF SetDisconnect, To, KickInv, Shapes
  <2> QED
    BY <1>1, <2>1, <2>2, <2>3, <2>4, <2>5, <2>6 DEF Admit
<1>2. ASSUME NEW c \in Conns, Hangup(c) PROVE KickInv'
  BY <1>2 DEF Hangup, KickInv
<1>3. ASSUME NEW c \in Conns, End(c) PROVE KickInv'
  BY <1>3 DEF End, Leave, To, KickInv, Shapes
<1>4. CASE Admin
  <2>1. CASE Find \/ BanIP
    BY <2>1 DEF Find, BanIP, KickInv
  <2>2. CASE Collect
    BY <2>2 DEF Collect, KickInv
  <2>3. ASSUME NEW c \in targets, Call(c) PROVE KickInv'
    BY <2>3 DEF Call, KickInv
  <2> QED
    BY <1>4, <2>1, <2>2, <2>3 DEF Admin
<1>5. CASE Unban
  BY <1>5 DEF Unban, KickInv
<1> QED
  BY <1>1, <1>2, <1>3, <1>4, <1>5 DEF ConnNext

LEMMA KickSession ==
  ASSUME Shapes, KickInv, NEW c \in Pop3Conns, Session(c)
  PROVE  KickInv'
<1> USE DEF connVars, hubVars, adminVars, history, Past
<1> c \in Conns
  BY DEF Pop3Conns
<1>1. ASSUME Leave(c) PROVE KickInv'
  BY <1>1 DEF Leave, To, KickInv, Shapes
<1>2. ASSUME UNCHANGED connVars PROVE KickInv'
  BY <1>2 DEF KickInv
<1>3. CASE PASS(c)
  BY <1>3 DEF PASS, AuthFails, ResetFail, KickInv
<1>4. CASE QUIT(c)
  BY <1>4 DEF QUIT, Reads, To, KickInv, Shapes
<1>5. CASE Deadline(c)
  BY <1>5 DEF Deadline, KickInv
<1>6. CASE STLS(c) \/ Bye(c) \/ Lost(c)
  BY <1>1, <1>2, <1>6 DEF STLS, Bye, Lost
<1>7. CASE USER(c) \/ DELE(c) \/ RSET(c) \/ Expunge(c)
  BY <1>2, <1>7 DEF USER, DELE, RSET, Expunge
<1> QED
  BY <1>3, <1>4, <1>5, <1>6, <1>7 DEF Session

LEMMA KickStep == Shapes /\ KickInv /\ [Next]_vars => KickInv'
<1>1. ASSUME KickInv, Others \/ UNCHANGED vars PROVE KickInv'
  BY <1>1 DEF Others, vars, connVars, hubVars, adminVars, history, KickInv
<1> QED
  BY <1>1, KickConn, KickSession DEF Next

LEMMA LiftStep ==
  ASSUME Shapes, KickInv, [Next]_vars, cut, targets = {}, cut' # cut
  PROVE  Lifts
<1> USE DEF connVars, hubVars, adminVars, history
<1>1. \A c \in Conns : stage[c] \in Past => c \in Exempt
  BY DEF KickInv, Exempt
<1>2. CASE ConnNext
  <2>1. ASSUME NEW c \in Conns, Admit(c) PROVE Lifts
    <3>1. Login(c)
      BY <2>1 DEF Admit, Connect, Refuse, LooksUp, Register, SetDisconnect
    <3>2. c \in Exempt
      BY <1>1, <3>1 DEF Login, Past
    <3> QED
      BY <3>1, <3>2 DEF Lifts
  <2>2. ASSUME NEW c \in Conns, Hangup(c) \/ End(c) PROVE Lifts
    BY <2>2 DEF Hangup, End, Leave
  <2>3. CASE Admin
    BY <2>3 DEF Admin, Find, BanIP, Collect, Call, KickInv
  <2>4. CASE Unban
    BY <2>4 DEF Lifts
  <2> QED
    BY <1>2, <2>1, <2>2, <2>3, <2>4 DEF ConnNext
<1>3. ASSUME NEW c \in Pop3Conns, Session(c) PROVE Lifts
  <2>1. PASS(c)
    BY <1>3 DEF Session, USER, DELE, RSET, STLS, QUIT, Expunge, Bye, Lost, Deadline, Leave
  <2>2. c \in Conns
    BY DEF Pop3Conns
  <2>3. c \in Exempt
    BY <1>1, <2>1, <2>2 DEF PASS, Reads, Past
  <2> QED
    BY <2>1, <2>3 DEF Lifts
<1> QED
  BY <1>2, <1>3 DEF Next, Others, vars

(* DisconnectConnection, DisconnectByIP, Register, SetDisconnect: a ban    *)
(* reaches every connection that was set up when the callbacks were        *)
(* collected, and later ones are refused, unless IsBanned or ResetFail     *)
(* undoes it as Kicked says.                                               *)
THEOREM KickedCorrect == Spec => Kicked
<1>1. KickInv => Reached
  BY DEF KickInv, Reached, Past
<1>2. Shapes /\ KickInv /\ [Next]_vars => (cut /\ targets = {} /\ ~cut' => Lifts)
  BY LiftStep
<1> QED
  BY <1>1, <1>2, ShapesInit, ShapesStep, KickInit, KickStep, PTL DEF Spec, Kicked

-----------------------------------------------------------------------------
(* The map of marks is there whenever there are messages to mark.          *)
LEMMA PanicInit == Init => NoPanic
BY DEF Init, NoPanic

LEMMA PanicStep == Shapes /\ NoPanic /\ [Next]_vars => NoPanic'
<1> SUFFICES ASSUME Shapes, NoPanic, [Next]_vars PROVE NoPanic'
  OBVIOUS
<1>1. CASE UNCHANGED <<messages, deleted>>
  BY <1>1 DEF NoPanic
<1>2. ASSUME NEW c \in Pop3Conns, NEW msgs, NEW S, Snapshot(c, msgs, S), msgs # <<>> => S.map
      PROVE  NoPanic'
  BY <1>2 DEF Snapshot, NoPanic, Shapes
<1>3. ASSUME NEW c \in Pop3Conns, Session(c) PROVE NoPanic'
  <2>1. CASE USER(c)
    BY <1>2, <2>1 DEF USER
  <2>2. CASE PASS(c)
    <3>1. Marks({}).map
      BY DEF Marks
    <3> QED
      BY <1>2, <2>2, <3>1 DEF PASS
  <2>3. CASE RSET(c)
    <3>1. Marks({}).map
      BY DEF Marks
    <3> QED
      BY <1>2, <2>3, <3>1 DEF RSET
  <2>4. CASE DELE(c)
    <3>1. PICK i : deleted' = [deleted EXCEPT ![c].set = @ \union {i}]
      BY <2>4 DEF DELE
    <3>2. /\ deleted'[c].map = deleted[c].map
          /\ \A d \in Pop3Conns : d # c => deleted'[d] = deleted[d]
      BY <3>1 DEF Shapes
    <3> QED
      BY <2>4, <3>2 DEF DELE, NoPanic
  <2>5. CASE STLS(c) \/ QUIT(c) \/ Expunge(c) \/ Bye(c) \/ Lost(c) \/ Deadline(c)
    BY <1>1, <2>5 DEF STLS, QUIT, Expunge, Bye, Lost, Deadline, pop3Vars
  <2> QED
    BY <1>3, <2>1, <2>2, <2>3, <2>4, <2>5 DEF Session
<1> QED
  BY <1>1, <1>3 DEF Next, Others, vars, pop3Vars

(* handleUSER, handlePASS, handleDELE: a client that is shown messages has *)
(* a map to mark them in.                                                  *)
THEOREM NoPanicCorrect == Spec => []NoPanic
BY ShapesInit, ShapesStep, PanicInit, PanicStep, PTL DEF Spec

-----------------------------------------------------------------------------
(* What a connection marks is what its numbers stand for, until QUIT goes  *)
(* through it; a deleted message stays deleted.                            *)
Quitting == {"quitting", "ended"}

Good(d) ==
  /\ marked[d] = {messages[d][i] : i \in deleted[d].set}
  /\ removed[d] \union kept[d] \subseteq marked[d] /\ removed[d] \subseteq Ids
  /\ d \in quit => stage[d] \in Quitting
  /\ stage[d] = "quitting" => d \in quit
  /\ d \notin quit => removed[d] \union kept[d] = {}
  /\ marked[d] # {} => authUser[d] \in Known /\ deleted[d].map
  /\ kept[d] # {} => MayFail
  /\ \A m \in removed[d] : folder[m] = "gone"
  /\ stage[d] = "ended" /\ d \in quit => marked[d] = removed[d] \union kept[d]

MarkInv == \A d \in Pop3Conns : Good(d)

LEMMA MarkInit == Init => MarkInv
<1> SUFFICES ASSUME Init, NEW d \in Pop3Conns PROVE Good(d)
  BY DEF MarkInv
<1>1. /\ marked[d] = {} /\ removed[d] = {} /\ kept[d] = {} /\ deleted[d] = nil
      /\ quit = {} /\ stage[d] = "none"
  BY DEF Init, ConnInit, Pop3Conns
<1> QED
  BY <1>1 DEF Good, nil, Quitting

LEMMA GoodFrame ==
  ASSUME NEW d \in Pop3Conns, Good(d),
         authUser'[d] = authUser[d], messages'[d] = messages[d], deleted'[d] = deleted[d],
         marked'[d] = marked[d], removed'[d] = removed[d], kept'[d] = kept[d],
         \A m \in Ids : folder[m] = "gone" => folder'[m] = "gone",
         d \in quit' <=> d \in quit,
         \/ stage'[d] = stage[d]
         \/ d \notin quit /\ stage'[d] # "quitting"
  PROVE  Good(d)'
BY DEF Good, Quitting

LEMMA MarkStep == Shapes /\ NoPanic /\ MarkInv /\ [Next]_vars => MarkInv'
<1> SUFFICES ASSUME Shapes, NoPanic, MarkInv, [Next]_vars, NEW d \in Pop3Conns PROVE Good(d)'
  BY DEF MarkInv
<1> Good(d) /\ d \in Conns
  BY DEF MarkInv, Pop3Conns
<1>1. CASE Elsewhere
  <2>1. UNCHANGED pop3Vars /\ (stage'[d] = stage[d] \/ (stage[d] \notin Quitting /\ stage'[d] # "quitting"))
    BY <1>1 DEF Elsewhere, ConnNext, Admit, Connect, Refuse, LooksUp, Login, Register, SetDisconnect,
       Hangup, End, Leave, Admin, Find, BanIP, Collect, Call, Unban, To, Shapes, Quitting, Pop3Conns
  <2> QED
    BY <2>1, GoodFrame DEF pop3Vars, Good
<1>2. ASSUME NEW c \in Pop3Conns, Session(c), c # d PROVE Good(d)'
  <2>1. stage'[d] = stage[d]
    BY <1>2 DEF Session, USER, PASS, DELE, RSET, STLS, QUIT, Expunge, Bye, Lost, Deadline,
       Leave, To, connVars, Shapes
  <2>2. /\ authUser'[d] = authUser[d] /\ messages'[d] = messages[d] /\ deleted'[d] = deleted[d]
        /\ marked'[d] = marked[d] /\ removed'[d] = removed[d] /\ kept'[d] = kept[d]
    BY <1>2 DEF Session, USER, PASS, DELE, RSET, STLS, QUIT, Expunge, Bye, Lost, Deadline,
       Snapshot, pop3Vars, Shapes
  <2>3. \A m \in Ids : folder[m] = "gone" => folder'[m] = "gone"
    BY <1>2 DEF Session, USER, PASS, DELE, RSET, STLS, QUIT, Expunge, Bye, Lost, Deadline,
       pop3Vars, Shapes
  <2>4. d \in quit' <=> d \in quit
    BY <1>2 DEF Session, USER, PASS, DELE, RSET, STLS, QUIT, Expunge, Bye, Lost, Deadline, pop3Vars
  <2> QED
    BY <2>1, <2>2, <2>3, <2>4, GoodFrame
<1>3. CASE Session(d)
  <2> DEFINE acts == removed[d] \union kept[d]
  <2>1. CASE USER(d) \/ PASS(d) \/ RSET(d)
    <3>1. \E msgs, S : Snapshot(d, msgs, S) /\ S.set = {}
      BY <2>1 DEF USER, PASS, RSET, nil, Marks
    <3>2. deleted'[d].set = {} /\ marked'[d] = {}
      BY <3>1 DEF Snapshot, Shapes
    <3>3. stage[d] = "open" /\ UNCHANGED <<stage, quit, removed, kept, folder>>
      BY <2>1 DEF USER, PASS, RSET, Reads, connVars
    <3>4. acts = {}
      BY <3>3 DEF Good, Quitting
    <3> QED
      BY <3>2, <3>3, <3>4 DEF Good, Quitting
  <2>2. CASE DELE(d)
    <3>1. PICK i : /\ deleted' = [deleted EXCEPT ![d].set = @ \union {i}]
                   /\ marked' = [marked EXCEPT ![d] = @ \union {messages[d][i]}]
      BY <2>2 DEF DELE
    <3>2. /\ deleted'[d].set = deleted[d].set \union {i}
          /\ marked'[d] = marked[d] \union {messages[d][i]}
      BY <3>1 DEF Shapes
    <3>3. stage[d] = "open" /\ UNCHANGED <<stage, authUser, messages, quit, removed, kept, folder>>
      BY <2>2 DEF DELE, Reads, connVars
    <3>4. acts = {}
      BY <3>3 DEF Good, Quitting
    <3>5. marked'[d] = {messages'[d][j] : j \in deleted'[d].set}
      BY <3>2, <3>3 DEF Good
    <3>6. authUser[d] \in Known /\ deleted'[d].map
      <4>1. authUser[d] \in Known /\ messages[d] # <<>>
        BY <2>2 DEF DELE, Authenticated
      <4>2. deleted'[d].map = deleted[d].map
        BY <3>1 DEF Shapes
      <4> QED
        BY <4>1, <4>2 DEF NoPanic
    <3> QED
      BY <3>3, <3>4, <3>5, <3>6 DEF Good, Quitting
  <2>3. CASE STLS(d) \/ Lost(d) \/ Deadline(d)
    <3>1. /\ UNCHANGED <<folder, authUser, messages, deleted, marked, quit, removed, kept>>
          /\ stage' = stage \/ (stage[d] = "open" /\ stage'[d] = "ended")
      BY <2>3 DEF STLS, Lost, Deadline, Leave, To, Reads, pop3Vars, connVars, Shapes
    <3> QED
      BY <3>1, GoodFrame DEF Good, Quitting
  <2>6. CASE QUIT(d)
    <3>1. /\ UNCHANGED <<folder, authUser, messages, deleted, marked, removed, kept>>
          /\ stage[d] = "open" /\ stage'[d] = "quitting" /\ d \in quit'
      BY <2>6 DEF QUIT, To, Reads, Shapes
    <3> QED
      BY <3>1 DEF Good, Quitting
  <2>4. CASE Expunge(d)
    <3>1. PICK m \in Ids \intersect Doomed(d) :
            \/ /\ folder' = [folder EXCEPT ![m] = "gone"]
               /\ removed' = [removed EXCEPT ![d] = @ \union {m}] /\ UNCHANGED kept
            \/ /\ MayFail
               /\ kept' = [kept EXCEPT ![d] = @ \union {m}] /\ UNCHANGED <<folder, removed>>
      BY <2>4 DEF Expunge
    <3>2. /\ stage[d] = "quitting" /\ d \in quit
          /\ UNCHANGED <<stage, authUser, messages, deleted, marked, quit>>
      BY <2>4 DEF Expunge, connVars, Good
    <3>3. m \in marked[d] /\ authUser[d] \in Known /\ deleted[d].map
      BY <3>1 DEF Doomed, Expunges, Authenticated, Good
    <3>4. \/ /\ removed'[d] = removed[d] \union {m} /\ kept'[d] = kept[d] /\ folder'[m] = "gone"
             /\ \A k \in Ids : folder[k] = "gone" => folder'[k] = "gone"
          \/ /\ MayFail /\ removed'[d] = removed[d] /\ kept'[d] = kept[d] \union {m}
             /\ folder' = folder
      BY <3>1 DEF Shapes
    <3> QED
      BY <3>1, <3>2, <3>3, <3>4 DEF Good, Quitting
  <2>5. CASE Bye(d)
    <3>1. /\ stage[d] = "quitting" /\ Doomed(d) \subseteq acts
          /\ UNCHANGED <<folder, authUser, messages, deleted, marked, quit, removed, kept>>
      BY <2>5 DEF Bye, pop3Vars
    <3>2. stage'[d] = "ended"
      BY <2>5 DEF Bye, Leave, To, Shapes
    <3>3. marked[d] = acts /\ d \in quit
      BY <3>1 DEF Good, Doomed, Expunges, Authenticated
    <3> QED
      BY <3>1, <3>2, <3>3 DEF Good, Quitting
  <2> QED
    BY <1>3, <2>1, <2>2, <2>3, <2>4, <2>5, <2>6 DEF Session
<1>4. CASE Others \/ UNCHANGED vars
  <2>1. \A m \in Ids : folder[m] = "gone" => folder'[m] = "gone"
    BY <1>4 DEF Others, vars, pop3Vars, Shapes
  <2>2. UNCHANGED <<stage, authUser, messages, deleted, marked, quit, removed, kept>>
    BY <1>4 DEF Others, vars, pop3Vars, connVars
  <2> QED
    BY <2>1, <2>2, GoodFrame
<1> QED
  BY <1>1, <1>2, <1>3, <1>4 DEF Next, Elsewhere

(* handleQUIT, expungeDeleted: a connection removes what it has marked, if *)
(* it ends with QUIT, and then all of it unless a statement fails.         *)
THEOREM RemovesMarkedCorrect == Spec => []RemovesMarked
<1>1. MarkInv => RemovesMarked
  BY DEF MarkInv, Good, RemovesMarked
<1> QED
  BY <1>1, ShapesInit, ShapesStep, PanicInit, PanicStep, MarkInit, MarkStep, PTL DEF Spec

-----------------------------------------------------------------------------
(* The snapshot of an inbox. Finitely many numbers can be put in order:    *)
(* the least first, then the others. The library's induction takes a       *)
(* predicate as a parameter; that < is well founded serves here.           *)
LEMMA LeastNumber ==
  ASSUME NEW T \in SUBSET Nat, T # {}
  PROVE  \E x \in T : \A y \in T : x <= y
<1> DEFINE R == OpToRel(<, Nat)
<1>1. IsWellFoundedOn(R, Nat)
  BY NatLessThanWellFounded
<1>2. \A x, y \in Nat : x < y => <<x, y>> \in R
  BY DEF OpToRel
<1> HIDE DEF R
<1>3. PICK x \in T : \A y \in T : ~ (<<y, x>> \in R)
  BY <1>1, WFMin
<1>4. ASSUME NEW y \in T PROVE x <= y
  <2>1. x \in Nat /\ y \in Nat /\ ~ (y < x)
    BY <1>2, <1>3
  <2> QED
    BY <2>1
<1> QED
  BY <1>4

Sortable(S) == \E s \in [1..Cardinality(S) -> S] : Ascending(s)

\* Of one more than the sets that can be ordered.
LEMMA SortableMore ==
  ASSUME NEW S \in SUBSET Nat, IsFiniteSet(S), NEW m \in S, \A k \in S : m <= k,
         Sortable(S \ {m})
  PROVE  Sortable(S)
<1> DEFINE T == S \ {m}
           n == Cardinality(T)
<1>1. n \in Nat /\ Cardinality(S) = n + 1
  <2>1. IsFiniteSet(T) /\ Cardinality(T) = Cardinality(S) - 1
    BY FS_RemoveElement
  <2>2. Cardinality(T) \in Nat /\ Cardinality(S) \in Nat
    BY <2>1, FS_CardinalityType
  <2> QED
    BY <2>1, <2>2
<1>2. PICK s \in [1..n -> T] : Ascending(s)
  BY DEF Sortable
<1> HIDE DEF n
<1> DEFINE t == [i \in 1..(n + 1) |-> IF i = 1 THEN m ELSE s[i - 1]]
<1>3. ASSUME NEW i \in 1..(n + 1), i # 1 PROVE i - 1 \in 1..n /\ s[i - 1] \in T /\ t[i] = s[i - 1]
  <2>1. i - 1 \in 1..n
    BY <1>1, <1>3
  <2> QED
    BY <1>2, <1>3, <2>1
<1>4. t \in [1..(n + 1) -> S]
  BY <1>3
<1>5. Ascending(t)
  <2> SUFFICES ASSUME NEW i \in 1..(n + 1), NEW j \in 1..(n + 1), i < j PROVE t[i] < t[j]
    BY DEF Ascending
  <2>1. j # 1
    BY <1>1
  <2>2. j - 1 \in 1..n /\ s[j - 1] \in T /\ t[j] = s[j - 1]
    BY <1>3, <2>1
  <2>3. CASE i = 1
    <3>1. t[i] = m
      BY <2>3
    <3>2. t[j] \in S /\ t[j] # m
      BY <2>2
    <3>3. m <= t[j] /\ m \in Nat /\ t[j] \in Nat
      BY <3>2
    <3> QED
      BY <3>1, <3>2, <3>3
  <2>4. CASE i # 1
    <3>1. i - 1 \in 1..n /\ t[i] = s[i - 1]
      BY <1>3, <2>4
    <3>2. i - 1 < j - 1
      BY <1>1
    <3>3. s[i - 1] < s[j - 1]
      BY <1>2, <2>2, <3>1, <3>2 DEF Ascending
    <3> QED
      BY <2>2, <3>1, <3>3
  <2> QED
    BY <2>3, <2>4
<1> QED
  BY <1>1, <1>4, <1>5 DEF Sortable

LEMMA FiniteSortable ==
  ASSUME NEW S \in SUBSET Nat, IsFiniteSet(S)
  PROVE  Sortable(S)
<1> DEFINE Fails(T, n) == IsFiniteSet(T) /\ Cardinality(T) = n /\ ~ Sortable(T)
           Bad == {n \in Nat : \E T \in SUBSET Nat : Fails(T, n)}
<1>1. SUFFICES Bad = {}
  <2>1. Cardinality(S) \in Nat
    BY FS_CardinalityType
  <2> QED
    BY <1>1, <2>1
<1>2. SUFFICES ASSUME Bad # {} PROVE FALSE
  OBVIOUS
<1>3. PICK n \in Bad : \A k \in Bad : n <= k
  <2>1. Bad \in SUBSET Nat
    OBVIOUS
  <2> HIDE DEF Bad
  <2> QED
    BY <1>2, <2>1, LeastNumber
<1>4. PICK T \in SUBSET Nat : Fails(T, n)
  BY <1>3
<1>5. T # {}
  <2> SUFFICES ASSUME T = {} PROVE FALSE
    OBVIOUS
  <2>1. Cardinality(T) = 0
    BY FS_EmptySet
  <2>2. <<>> \in [1..0 -> T] /\ Ascending(<<>>)
    BY DEF Ascending
  <2> QED
    BY <1>4, <2>1, <2>2 DEF Sortable
<1>6. PICK m \in T : \A k \in T : m <= k
  BY <1>5, LeastNumber
<1>7. Sortable(T \ {m})
  <2>1. IsFiniteSet(T \ {m}) /\ Cardinality(T \ {m}) = n - 1
    BY <1>4, FS_RemoveElement
  <2>2. n - 1 \in Nat
    BY <2>1, FS_CardinalityType
  <2>3. n - 1 \notin Bad
    BY <1>3, <2>2
  <2> QED
    BY <2>1, <2>2, <2>3
<1> QED
  BY <1>4, <1>6, <1>7, SortableMore

LEMMA OrderedIs ==
  ASSUME NEW S \in SUBSET Ids
  PROVE  /\ Ordered(S) \in Seq(Ids) /\ Len(Ordered(S)) <= Cardinality(Ids)
         /\ \A i \in DOMAIN Ordered(S) : Ordered(S)[i] \in S
<1>1. S \in SUBSET Nat /\ IsFiniteSet(S) /\ Cardinality(S) <= Cardinality(Ids)
  BY Pop3Assumption, FS_Subset
<1>2. Cardinality(S) \in Nat
  BY <1>1, FS_CardinalityType
<1>3. \E s \in [1..Cardinality(S) -> S] : Ascending(s)
  BY <1>1, FiniteSortable DEF Sortable
<1>4. Ordered(S) \in [1..Cardinality(S) -> S]
  BY <1>3 DEF Ordered
<1>5. ASSUME NEW n \in Nat, NEW s \in [1..n -> S]
      PROVE  s \in Seq(Ids) /\ Len(s) = n /\ \A i \in DOMAIN s : s[i] \in S
  OBVIOUS
<1>6. /\ Ordered(S) \in Seq(Ids) /\ Len(Ordered(S)) = Cardinality(S)
      /\ \A i \in DOMAIN Ordered(S) : Ordered(S)[i] \in S
  BY <1>2, <1>4, <1>5
<1> QED
  BY <1>1, <1>6

-----------------------------------------------------------------------------
(* The hub holds the connections whose handler runs.                       *)
Stages == {"none", "greeted", "checked", "admitted", "registered", "open", "quitting", "ended"}
Served == {"registered", "open", "quitting"}

HubInv ==
  /\ banned \in BOOLEAN /\ cut \in BOOLEAN /\ missed \subseteq Conns
  /\ sock \subseteq Conns /\ stage \in [Conns -> Stages]
  /\ hub = {c \in Conns : stage[c] \in Served}
  /\ admin \in {"idle", "found", "banned"} /\ targets \subseteq Conns
  /\ bans \in 0..MaxBans

LEMMA HubInit == Init => HubInv
<1> SUFFICES ASSUME Init PROVE HubInv
  OBVIOUS
<1>1. stage \in [Conns -> Stages] /\ hub = {c \in Conns : stage[c] \in Served}
  <2>1. \A c \in Conns : stage[c] = "none"
    BY DEF Init, ConnInit
  <2>2. "none" \in Stages /\ "none" \notin Served
    BY DEF Stages, Served
  <2> QED
    BY <2>1, <2>2 DEF Init, ConnInit
<1>2. bans \in 0..MaxBans
  BY HubAssumption DEF Init, ConnInit
<1> QED
  BY <1>1, <1>2 DEF Init, ConnInit, HubInv

\* One connection moves on, and enters or leaves the hub.
LEMMA HubMove ==
  ASSUME HubInv, NEW c \in Conns, NEW s \in Stages, To(c, s),
         hub' = IF s \in Served THEN hub \union {c} ELSE hub \ {c}
  PROVE  stage' \in [Conns -> Stages] /\ hub' = {d \in Conns : stage'[d] \in Served}
<1>1. /\ stage' \in [Conns -> Stages] /\ stage'[c] = s
      /\ \A d \in Conns : d # c => stage'[d] = stage[d]
  BY DEF To, HubInv
<1>2. \A d \in Conns : d \in hub <=> stage[d] \in Served
  BY DEF HubInv
<1>3. hub' \subseteq Conns
  BY DEF HubInv
<1>4. \A d \in Conns : d \in hub' <=> stage'[d] \in Served
  BY <1>1, <1>2
<1> QED
  BY <1>1, <1>3, <1>4

LEMMA HubConn ==
  ASSUME HubInv, KickInv, ConnNext
  PROVE  HubInv'
<1> USE DEF hubVars, adminVars, history
<1>1. ASSUME NEW c \in Conns, Connect(c) \/ Refuse(c) \/ LooksUp(c) \/ Login(c) PROVE HubInv'
  <2>1. UNCHANGED <<hub, admin, targets, bans>>
    BY <1>1 DEF Connect, Refuse, LooksUp, Login
  <2>2. banned' \in BOOLEAN /\ cut' \in BOOLEAN /\ missed' \subseteq Conns /\ sock' \subseteq Conns
    BY <1>1 DEF Connect, Refuse, LooksUp, Login, LetIn, AuthFails, ResetFail, HubInv
  <2>3. UNCHANGED stage \/ \E s \in Stages \ Served : To(c, s) /\ stage[c] \notin Served
    BY <1>1 DEF Connect, Refuse, LooksUp, Login, Stages, Served
  <2>4. hub \ {c} = hub \/ stage[c] \in Served
    BY DEF HubInv
  <2> QED
    BY <2>1, <2>2, <2>3, <2>4, HubMove DEF HubInv
<1>2. ASSUME NEW c \in Conns, Register(c) \/ SetDisconnect(c) PROVE HubInv'
  <2>1. UNCHANGED <<banned, sock, admin, targets, bans, cut, missed>>
    BY <1>2 DEF Register, SetDisconnect
  <2>2. stage[c] \in Served => hub = hub \union {c}
    BY DEF HubInv
  <2>3. \E s \in Stages : To(c, s) /\ s \in Served /\ hub' = hub \union {c}
    BY <1>2, <2>2 DEF Register, SetDisconnect, Stages, Served
  <2> QED
    BY <2>1, <2>3, HubMove DEF HubInv
<1>3. ASSUME NEW c \in Conns, Hangup(c) PROVE HubInv'
  BY <1>3 DEF Hangup, HubInv
<1>4. ASSUME NEW c \in Conns, End(c) PROVE HubInv'
  <2>1. To(c, "ended") /\ hub' = hub \ {c} /\ sock' \subseteq sock
    BY <1>4 DEF End, Leave
  <2>2. "ended" \in Stages /\ "ended" \notin Served
    BY DEF Stages, Served
  <2> QED
    BY <1>4, <2>1, <2>2, HubMove DEF End, Leave, HubInv
<1>5. CASE Admin
  <2>1. CASE Find
    <3>1. bans' \in 0..MaxBans
      BY <2>1, HubAssumption DEF Find, HubInv
    <3> QED
      BY <2>1, <3>1 DEF Find, HubInv
  <2>2. CASE BanIP
    BY <2>2 DEF BanIP, HubInv
  <2>3. CASE Collect
    BY <2>3 DEF Collect, HubInv, KickInv
  <2>4. ASSUME NEW c \in targets, Call(c) PROVE HubInv'
    BY <2>4 DEF Call, HubInv
  <2> QED
    BY <1>5, <2>1, <2>2, <2>3, <2>4 DEF Admin
<1>6. CASE Unban
  BY <1>6 DEF Unban, HubInv
<1> QED
  BY <1>1, <1>2, <1>3, <1>4, <1>5, <1>6 DEF ConnNext, Admit

LEMMA HubSession ==
  ASSUME HubInv, NEW c \in Pop3Conns, Session(c)
  PROVE  HubInv'
<1> USE DEF connVars, hubVars, adminVars, history
<1> c \in Conns
  BY DEF Pop3Conns
<1>1. ASSUME Leave(c) PROVE HubInv'
  <2>1. "ended" \in Stages /\ "ended" \notin Served
    BY DEF Stages, Served
  <2> QED
    BY <1>1, <2>1, HubMove DEF Leave, HubInv
<1>2. ASSUME UNCHANGED connVars PROVE HubInv'
  BY <1>2 DEF HubInv
<1>3. CASE PASS(c)
  BY <1>3 DEF PASS, AuthFails, ResetFail, HubInv
<1>4. CASE QUIT(c)
  <2>1. To(c, "quitting") /\ hub' = hub /\ hub = hub \union {c}
    BY <1>4 DEF QUIT, Reads, HubInv, Served
  <2>2. "quitting" \in Stages /\ "quitting" \in Served
    BY DEF Stages, Served
  <2> QED
    BY <1>4, <2>1, <2>2, HubMove DEF QUIT, HubInv
<1>5. CASE Deadline(c)
  BY <1>5 DEF Deadline, HubInv
<1>6. CASE STLS(c) \/ Bye(c) \/ Lost(c)
  BY <1>1, <1>2, <1>6 DEF STLS, Bye, Lost
<1>7. CASE USER(c) \/ DELE(c) \/ RSET(c) \/ Expunge(c)
  BY <1>2, <1>7 DEF USER, DELE, RSET, Expunge
<1> QED
  BY <1>3, <1>4, <1>5, <1>6, <1>7 DEF Session

LEMMA HubStep == HubInv /\ KickInv /\ [Next]_vars => HubInv'
<1>1. ASSUME HubInv, Others \/ UNCHANGED vars PROVE HubInv'
  BY <1>1 DEF Others, vars, connVars, hubVars, adminVars, history, HubInv
<1> QED
  BY <1>1, HubConn, HubSession DEF Next

-----------------------------------------------------------------------------
(* Each session: whose messages it shows, and what it may mark.            *)
Owned(d) ==
  /\ messages[d] \in Seq(Ids) /\ Len(messages[d]) <= Cardinality(Ids)
  /\ \A i \in DOMAIN messages[d] : login[d] # "nobody" /\ Owner[messages[d][i]] = login[d]

Named(d) ==
  /\ authUser[d] \in Known \union {"nobody", "unknown"}
  /\ login[d] \in Known \union {"nobody"}

Noted(d) ==
  /\ deleted[d].set \subseteq 1..Cardinality(Ids)
  /\ marked[d] \subseteq Ids /\ removed[d] \subseteq Ids /\ kept[d] \subseteq Ids

SnapInv ==
  /\ folder \in [Ids -> {"new", "inbox", "other", "gone"}]
  /\ tlsActive \subseteq Pop3Conns /\ quit \subseteq Pop3Conns /\ DOMAIN login = Pop3Conns
  /\ \A d \in Pop3Conns : Owned(d) /\ Named(d) /\ Noted(d)

LEMMA IdsCount == Cardinality(Ids) \in Nat
BY Pop3Assumption, FS_CardinalityType

LEMMA NoMessages == <<>> \in Seq(Ids) /\ Len(<<>>) <= Cardinality(Ids) /\ DOMAIN <<>> = {}
BY IdsCount

LEMMA SnapInit == Init => SnapInv
<1> SUFFICES ASSUME Init PROVE SnapInv
  OBVIOUS
<1>1. ASSUME NEW d \in Pop3Conns PROVE Owned(d) /\ Named(d) /\ Noted(d)
  <2>1. /\ messages[d] = <<>> /\ authUser[d] = "nobody" /\ login[d] = "nobody"
        /\ deleted[d] = nil /\ marked[d] = {} /\ removed[d] = {} /\ kept[d] = {}
    BY DEF Init
  <2> QED
    BY <2>1, NoMessages DEF Owned, Named, Noted, nil
<1> QED
  BY <1>1 DEF Init, SnapInv

\* USER, PASS and RSET: the snapshot, and who it is of.
LEMMA SnapTaken ==
  ASSUME Shapes, SnapInv, NEW c \in Pop3Conns, NEW msgs, NEW marks, Snapshot(c, msgs, marks),
         marks.set = {},
         NEW a \in Known \union {"nobody", "unknown"}, NEW l \in Known \union {"nobody"},
         authUser'[c] = a, login'[c] = l, DOMAIN login' = Pop3Conns,
         \A d \in Pop3Conns : d # c => authUser'[d] = authUser[d] /\ login'[d] = login[d],
         msgs \in Seq(Ids), Len(msgs) <= Cardinality(Ids),
         \A i \in DOMAIN msgs : l # "nobody" /\ Owner[msgs[i]] = l,
         UNCHANGED <<folder, tlsActive, quit, removed, kept>>
  PROVE  SnapInv'
<1>1. messages'[c] = msgs /\ deleted'[c] = marks /\ marked'[c] = {}
  BY DEF Snapshot, Shapes
<1>2. \A d \in Pop3Conns : d # c =>
        messages'[d] = messages[d] /\ deleted'[d] = deleted[d] /\ marked'[d] = marked[d]
  BY DEF Snapshot, Shapes
<1>3. ASSUME NEW d \in Pop3Conns PROVE (Owned(d) /\ Named(d) /\ Noted(d))'
  <2>1. Owned(d) /\ Named(d) /\ Noted(d)
    BY DEF SnapInv
  <2>2. CASE d = c
    BY <1>1, <2>1, <2>2 DEF Owned, Named, Noted
  <2>3. CASE d # c
    BY <1>2, <2>1, <2>3 DEF Owned, Named, Noted
  <2> QED
    BY <2>2, <2>3
<1> QED
  BY <1>3 DEF SnapInv

LEMMA SnapSame ==
  ASSUME SnapInv, UNCHANGED <<authUser, messages, deleted, login, marked, removed, kept>>,
         folder' \in [Ids -> {"new", "inbox", "other", "gone"}], tlsActive' \subseteq Pop3Conns,
         quit' \subseteq Pop3Conns
  PROVE  SnapInv'
BY DEF SnapInv, Owned, Named, Noted

LEMMA InboxIs ==
  ASSUME NEW u \in Known
  PROVE  /\ Inbox(u) \in Seq(Ids) /\ Len(Inbox(u)) <= Cardinality(Ids)
         /\ \A i \in DOMAIN Inbox(u) : Owner[Inbox(u)[i]] = u
<1> DEFINE S == {i \in Ids : Owner[i] = u /\ folder[i] = "inbox"}
<1>1. Inbox(u) = Ordered(S)
  BY DEF Inbox
<1>2. S \in SUBSET Ids /\ \A i \in S : Owner[i] = u
  OBVIOUS
<1> HIDE DEF S
<1> QED
  BY <1>1, <1>2, OrderedIs

LEMMA SnapSession ==
  ASSUME Shapes, SnapInv, NEW c \in Pop3Conns, Session(c)
  PROVE  SnapInv'
<1> USE DEF pop3Vars
<1>0. Owned(c) /\ Named(c) /\ Noted(c)
  BY DEF SnapInv
<1>1. CASE USER(c)
  <2>1. /\ authUser'[c] \in Known \union {"nobody", "unknown"}
        /\ login'[c] \in Known \union {"nobody"} /\ DOMAIN login' = Pop3Conns
        /\ \A d \in Pop3Conns : d # c => authUser'[d] = authUser[d] /\ login'[d] = login[d]
    BY <1>0, <1>1 DEF USER, Named, Shapes, SnapInv
  <2>2. nil.set = {}
    BY DEF nil
  <2>3. Snapshot(c, <<>>, nil) /\ UNCHANGED <<folder, tlsActive, quit, removed, kept>>
    BY <1>1 DEF USER
  <2>4. \A i \in DOMAIN <<>> : FALSE
    BY NoMessages
  <2> QED
    BY <2>1, <2>2, <2>3, <2>4, NoMessages, SnapTaken
<1>2. CASE PASS(c)
  <2>1. UNCHANGED <<folder, tlsActive, quit, removed, kept>>
    BY <1>2 DEF PASS
  <2>2. nil.set = {} /\ Marks({}).set = {}
    BY DEF nil, Marks
  <2>3. \A i \in DOMAIN <<>> : FALSE
    BY NoMessages
  <2>4. ASSUME NEW a, NEW l, authUser' = [authUser EXCEPT ![c] = a],
               login' = [login EXCEPT ![c] = l]
        PROVE  /\ authUser'[c] = a /\ login'[c] = l /\ DOMAIN login' = Pop3Conns
               /\ \A d \in Pop3Conns : d # c => authUser'[d] = authUser[d] /\ login'[d] = login[d]
    BY <2>4 DEF Shapes, SnapInv
  <2>5. ASSUME NEW u \in Known, NEW msgs \in {Inbox(u), <<>>},
               authUser' = [authUser EXCEPT ![c] = u], login' = [login EXCEPT ![c] = u],
               Snapshot(c, msgs, Marks({}))
        PROVE  SnapInv'
    <3>1. u # "nobody"
      BY Pop3Assumption
    <3>2. /\ msgs \in Seq(Ids) /\ Len(msgs) <= Cardinality(Ids)
          /\ \A i \in DOMAIN msgs : Owner[msgs[i]] = u
      BY <2>3, <2>5, InboxIs, NoMessages
    <3>3. /\ authUser'[c] = u /\ login'[c] = u /\ DOMAIN login' = Pop3Conns
          /\ \A d \in Pop3Conns : d # c => authUser'[d] = authUser[d] /\ login'[d] = login[d]
      BY <2>4, <2>5
    <3> QED
      BY <2>1, <2>2, <2>5, <3>1, <3>2, <3>3, SnapTaken
  <2>6. ASSUME authUser' = [authUser EXCEPT ![c] = "nobody"],
               login' = [login EXCEPT ![c] = "nobody"], Snapshot(c, <<>>, nil)
        PROVE  SnapInv'
    <3>1. /\ authUser'[c] = "nobody" /\ login'[c] = "nobody" /\ DOMAIN login' = Pop3Conns
          /\ \A d \in Pop3Conns : d # c => authUser'[d] = authUser[d] /\ login'[d] = login[d]
      BY <2>4, <2>6
    <3> QED
      BY <2>1, <2>2, <2>3, <2>6, <3>1, NoMessages, SnapTaken
  <2> QED
    BY <1>2, <2>5, <2>6 DEF PASS, LoginAs
<1>3. CASE RSET(c)
  <2>1. Marks({}).set = {}
    BY DEF Marks
  <2>2. /\ Snapshot(c, messages[c], Marks({}))
        /\ UNCHANGED <<folder, tlsActive, quit, removed, kept, authUser, login>>
    BY <1>3 DEF RSET
  <2>3. authUser[c] \in Known \union {"nobody", "unknown"} /\ login[c] \in Known \union {"nobody"}
    BY <1>0 DEF Named
  <2>4. /\ messages[c] \in Seq(Ids) /\ Len(messages[c]) <= Cardinality(Ids)
        /\ \A i \in DOMAIN messages[c] : login[c] # "nobody" /\ Owner[messages[c][i]] = login[c]
    BY <1>0 DEF Owned
  <2>5. DOMAIN login = Pop3Conns
    BY DEF SnapInv
  <2>6. /\ authUser'[c] = authUser[c] /\ login'[c] = login[c] /\ DOMAIN login' = Pop3Conns
        /\ \A d \in Pop3Conns : d # c => authUser'[d] = authUser[d] /\ login'[d] = login[d]
    BY <2>2, <2>5
  <2> QED
    BY <2>1, <2>2, <2>3, <2>4, <2>6, SnapTaken
<1>4. CASE DELE(c)
  <2>1. PICK i \in 1..Len(messages[c]) :
          /\ deleted' = [deleted EXCEPT ![c].set = @ \union {i}]
          /\ marked' = [marked EXCEPT ![c] = @ \union {messages[c][i]}]
    BY <1>4 DEF DELE
  <2>2. UNCHANGED <<folder, authUser, messages, tlsActive, login, quit, removed, kept>>
    BY <1>4 DEF DELE
  <2>3. /\ deleted'[c].set = deleted[c].set \union {i}
        /\ marked'[c] = marked[c] \union {messages[c][i]}
        /\ \A d \in Pop3Conns : d # c => deleted'[d] = deleted[d] /\ marked'[d] = marked[d]
    BY <2>1 DEF Shapes
  <2>4. i \in 1..Cardinality(Ids) /\ messages[c][i] \in Ids
    BY <1>0, IdsCount DEF Owned
  <2>5. ASSUME NEW d \in Pop3Conns PROVE (Owned(d) /\ Named(d) /\ Noted(d))'
    <3>1. Owned(d) /\ Named(d) /\ Noted(d)
      BY DEF SnapInv
    <3>2. Owned(d)' /\ Named(d)'
      BY <2>2, <3>1 DEF Owned, Named
    <3>3. CASE d = c
      BY <2>2, <2>3, <2>4, <3>1, <3>2, <3>3 DEF Noted
    <3>4. CASE d # c
      BY <2>2, <2>3, <3>1, <3>2, <3>4 DEF Noted
    <3> QED
      BY <3>3, <3>4
  <2> QED
    BY <2>2, <2>5 DEF SnapInv
<1>5. CASE STLS(c) \/ QUIT(c) \/ Bye(c) \/ Lost(c) \/ Deadline(c)
  <2>1. UNCHANGED <<folder, authUser, messages, deleted, login, marked, removed, kept>>
    BY <1>5 DEF STLS, QUIT, Bye, Lost, Deadline
  <2>2. tlsActive' \subseteq tlsActive \union {c}
    BY <1>5 DEF STLS, QUIT, Bye, Lost, Deadline
  <2>3. tlsActive' \subseteq Pop3Conns
    BY <2>2 DEF SnapInv
  <2>4. folder' \in [Ids -> {"new", "inbox", "other", "gone"}]
    BY <2>1 DEF SnapInv
  <2>5. quit' \subseteq Pop3Conns
    BY <1>5 DEF STLS, QUIT, Bye, Lost, Deadline, SnapInv
  <2> QED
    BY <2>1, <2>3, <2>4, <2>5, SnapSame
<1>6. CASE Expunge(c)
  <2>1. PICK m \in Ids :
          \/ /\ folder' = [folder EXCEPT ![m] = "gone"]
             /\ removed' = [removed EXCEPT ![c] = @ \union {m}] /\ UNCHANGED kept
          \/ kept' = [kept EXCEPT ![c] = @ \union {m}] /\ UNCHANGED <<folder, removed>>
    BY <1>6 DEF Expunge
  <2>2. UNCHANGED <<authUser, messages, deleted, tlsActive, login, marked, quit>>
    BY <1>6 DEF Expunge
  <2>3. folder' \in [Ids -> {"new", "inbox", "other", "gone"}]
    BY <2>1 DEF SnapInv
  <2>4. ASSUME NEW d \in Pop3Conns PROVE (Owned(d) /\ Named(d) /\ Noted(d))'
    <3>1. Owned(d) /\ Named(d) /\ Noted(d)
      BY DEF SnapInv
    <3>2. removed'[d] \subseteq removed[d] \union {m} /\ kept'[d] \subseteq kept[d] \union {m}
      BY <2>1 DEF Shapes
    <3>3. Owned(d)' /\ Named(d)'
      BY <2>2, <3>1 DEF Owned, Named
    <3> QED
      BY <2>2, <3>1, <3>2, <3>3 DEF Noted
  <2> QED
    BY <2>2, <2>3, <2>4 DEF SnapInv
<1> QED
  BY <1>1, <1>2, <1>3, <1>4, <1>5, <1>6 DEF Session

LEMMA SnapStep == Shapes /\ SnapInv /\ [Next]_vars => SnapInv'
<1> SUFFICES ASSUME Shapes, SnapInv, [Next]_vars PROVE SnapInv'
  OBVIOUS
<1>1. CASE Others
  <2>1. folder' \in [Ids -> {"new", "inbox", "other", "gone"}]
    BY <1>1 DEF Others, SnapInv
  <2> QED
    BY <1>1, <2>1, SnapSame DEF Others, SnapInv
<1>2. CASE (ConnNext /\ UNCHANGED pop3Vars) \/ UNCHANGED vars
  BY <1>2, SnapSame DEF vars, pop3Vars, SnapInv
<1> QED
  BY <1>1, <1>2, SnapSession DEF Next

LEMMA OwnedIs == SnapInv => OwnMessages
BY DEF SnapInv, Owned, OwnMessages

LEMMA TypesAre == Shapes /\ HubInv /\ KickInv /\ SnapInv => TypeOK
<1> SUFFICES ASSUME Shapes, HubInv, KickInv, SnapInv PROVE TypeOK
  OBVIOUS
<1>1. callback \subseteq hub
  BY DEF KickInv, HubInv, Served
<1>2. ASSUME NEW c \in Pop3Conns
      PROVE  /\ authUser[c] \in Known \union {"nobody", "unknown"}
             /\ messages[c] \in Seq(Ids)
             /\ deleted[c] \in [map : BOOLEAN, set : SUBSET (1..Cardinality(Ids))]
             /\ login[c] \in Known \union {"nobody"}
             /\ {marked[c], removed[c], kept[c]} \subseteq SUBSET Ids
  <2>1. Owned(c) /\ Named(c) /\ Noted(c)
    BY DEF SnapInv
  <2>2. deleted[c] \in [map : BOOLEAN, set : SUBSET Int]
    BY DEF Shapes
  <2>3. deleted[c] \in [map : BOOLEAN, set : SUBSET (1..Cardinality(Ids))]
    BY <2>1, <2>2 DEF Noted
  <2> QED
    BY <2>1, <2>3 DEF Owned, Named, Noted
<1> QED
  BY <1>1, <1>2 DEF TypeOK, HubInv, SnapInv, Stages, Served

(* handleUSER, handlePASS, Register, Close: a connection is in the hub     *)
(* while its handler runs, whatever a client does with USER and PASS the   *)
(* messages it is shown are of the user whose password it gave last, and   *)
(* its marks stay within them.                                             *)
THEOREM Pop3InvCorrect == Spec => []Pop3Inv
<1>1. Shapes /\ HubInv /\ KickInv /\ SnapInv => Pop3Inv
  BY TypesAre, OwnedIs DEF Pop3Inv
<1> QED
  BY <1>1, ShapesInit, ShapesStep, KickInit, KickStep, HubInit, HubStep, SnapInit, SnapStep,
     PTL DEF Spec
=============================================================================
