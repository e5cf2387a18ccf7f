------------------------- MODULE BanGuardProperties -------------------------
(***************************************************************************)
(* What the count of failed logins and the bans are meant to guarantee.    *)
(***************************************************************************)
EXTENDS BanGuard, FiniteSets

\* Every variable has its type; one IP has at most one row.
BanTypeOK ==
  /\ row \in SUBSET Entry /\ \A e, f \in row : e = f
  /\ at \in [Clients -> PC]
  /\ known \in [Clients -> BOOLEAN]
  /\ count \in [Clients -> 0..FailCap]
  /\ entry \in [Clients -> SUBSET Entry]
  /\ \A c \in Clients : at[c] = "save" <=> entry[c] # {}
  /\ failures \in 0..FailCap /\ hits \in 0..FailCap
  /\ guessed \in BOOLEAN /\ manual \in BOOLEAN
  /\ admitted \in SUBSET Clients

(* The tiers are earned: while only existing user names were tried and the *)
(* administrator set no ban, a ban takes more hits of the threshold than   *)
(* are free, and one of tier t takes FreeTriggers + t, however attempts,   *)
(* logins and lost rows interleave (RecordAuthFailure, stageDuration).     *)
TierIsEarned ==
  ~guessed /\ ~manual =>
    \A e \in row : e.active \/ e.tier > 0 =>
      hits > FreeTriggers /\ hits >= FreeTriggers + e.tier

(* No ban without as many failures as the threshold (RecordAuthFailure;    *)
(* a ban of the administrator needs none).                                 *)
ThresholdHolds ==
  ~manual => \A e \in row : e.tier > 0 => failures >= MaxFail

(* Bans are deserved, however attempts and logins of several clients read  *)
(* and save the one entry of their IP at once: by enough failures, and by  *)
(* enough hits for its tier (RecordAuthFailure, ResetFail, SetIPBan).      *)
BanInv == BanTypeOK /\ TierIsEarned /\ ThresholdHolds

(* A ban in force is disturbed only by the administrator, by its expiry,   *)
(* by a login let in before the ban or by a failed query, or by an attempt *)
(* that read the entry before the ban (IsBanned, RecordAuthFailure,        *)
(* ResetFail).                                                             *)
BanIsKept ==
  [][\A e \in row :
       e.active =>
         \/ \E f \in row' : f.active /\ f.tier = e.tier
         \/ UNCHANGED at
         \/ \E c \in admitted : at[c] = "reset" /\ at'[c] # "reset"
         \/ \E c \in Clients : at[c] = "save" /\ at'[c] # "save"
                                 /\ \E f \in entry[c] : ~f.active]_banVars

-----------------------------------------------------------------------------
(* A client that keeps guessing is banned over and over again, although    *)
(* concurrent attempts overwrite each other's counts.                      *)
BannedAgain == []<>Banned

(* ... and ends up with the longest ban: nobody who goes on guessing keeps *)
(* out of it by many attempts at once (RecordAuthFailure, stageDuration).  *)
Escalates == BannedAgain /\ <>[](\E e \in row : e.tier = MaxTier)
=============================================================================
