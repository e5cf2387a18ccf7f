----------------------------- MODULE RateLimit ------------------------------
(***************************************************************************)
(* The limits on one user's messages to outside: checkRateLimit of         *)
(* outbound/manager.go. A window of a minute and one of a day begin with   *)
(* the first message after the last ones have ended; they are kept in      *)
(* memory only. The check runs under a mutex, so it is one step.           *)
(***************************************************************************)
EXTENDS Naturals, Sequences

CONSTANTS
  MaxPerMin,    \* config: messages per minute, 0 is no limit
  MaxPerDay,    \* config: messages per day, 0 is no limit
  Minute, Day,  \* lengths of the windows, in ticks
  MaxTime,      \* bound: ticks of the clock
  MaxRestarts   \* bound: restarts of the server

ASSUME RateAssumption ==
  /\ MaxPerMin \in Nat /\ MaxPerDay \in Nat
  /\ Minute \in Nat \ {0} /\ Day \in Nat /\ Day >= Minute
  /\ MaxTime \in Nat /\ MaxRestarts \in Nat

VARIABLES
  now,          \* the clock
  win           \* Manager.lim of the user: its userWindow, or NoWindow

\* History.
VARIABLES
  counted,      \* when messages were counted
  begun,        \* when windows of a day were begun
  restarts      \* when the server was restarted

limitVars == <<win, counted, begun>>
clockVars == <<now, restarts>>
rateVars == <<now, win, counted, begun, restarts>>

-----------------------------------------------------------------------------
Ticks == 0..MaxTime
Window == [minuteStart : Ticks, minuteCount : Nat, dayStart : Ticks, dayCount : Nat]
NoWindow == [none |-> TRUE]

RateInit ==
  /\ now = 0 /\ win = NoWindow
  /\ counted = <<>> /\ begun = <<>> /\ restarts = <<>>

NewDay == win = NoWindow \/ now - win.dayStart >= Day

\* The windows as the check finds them: a new day takes a new minute along.
Rolled ==
  IF NewDay
  THEN [minuteStart |-> now, minuteCount |-> 0, dayStart |-> now, dayCount |-> 0]
  ELSE IF now - win.minuteStart >= Minute
  THEN [win EXCEPT !.minuteStart = now, !.minuteCount = 0]
  ELSE win

\* Mutant: the limit of the day is not looked at.
Full_NoDay(w) == MaxPerMin > 0 /\ w.minuteCount >= MaxPerMin

Full(w) ==
  \/ MaxPerMin > 0 /\ w.minuteCount >= MaxPerMin
  \/ MaxPerDay > 0 /\ w.dayCount >= MaxPerDay

Began == begun' = IF NewDay THEN Append(begun, now) ELSE begun

\* A message counts before it is known whether it can be queued.
Counts ==
  /\ ~Full(Rolled)
  /\ win' = [Rolled EXCEPT !.minuteCount = @ + 1, !.dayCount = @ + 1]
  /\ counted' = Append(counted, now)
  /\ Began

\* A refused message may begin windows, but does not count.
Refuses ==
  /\ Full(Rolled)
  /\ win' = Rolled
  /\ Began
  /\ UNCHANGED counted

ClockTicks ==
  /\ now < MaxTime
  /\ now' = now + 1
  /\ UNCHANGED <<limitVars, restarts>>

\* The server stops and starts: the windows are forgotten.
Forgets ==
  /\ Len(restarts) < MaxRestarts
  /\ win' = NoWindow
  /\ restarts' = Append(restarts, now)
  /\ UNCHANGED <<now, counted, begun>>

RateNext == ((Counts \/ Refuses) /\ UNCHANGED clockVars) \/ ClockTicks \/ Forgets
RateSpec == RateInit /\ [][RateNext]_rateVars
=============================================================================
