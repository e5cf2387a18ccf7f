------------------------------- MODULE Ledger -------------------------------
(***************************************************************************)
(* What the outbound queue promises about duplicates, without saying how:  *)
(* a message is accepted by the remote side at most once per licence.      *)
(* Queueing a message gives one licence, every administrator's retry one   *)
(* more, and so does every acceptance the queue never learns of.           *)
(***************************************************************************)
EXTENDS Naturals

CONSTANT Items
VARIABLES licences, copies

vars == <<licences, copies>>

Init ==
  /\ licences = [i \in Items |-> 0]
  /\ copies = [i \in Items |-> 0]

\* The message is queued, or queued again by an administrator.
Grant(i) ==
  /\ licences' = [licences EXCEPT ![i] = @ + 1]
  /\ UNCHANGED copies

\* The remote side accepts a copy.
Accept(i) ==
  /\ copies[i] < licences[i]
  /\ copies' = [copies EXCEPT ![i] = @ + 1]
  /\ UNCHANGED licences

\* The remote side accepts a copy, and the acknowledgement is lost.
AcceptUnknown(i) ==
  /\ copies[i] < licences[i]
  /\ copies' = [copies EXCEPT ![i] = @ + 1]
  /\ licences' = [licences EXCEPT ![i] = @ + 1]

Next == \E i \in Items : Grant(i) \/ Accept(i) \/ AcceptUnknown(i)
Spec == Init /\ [][Next]_vars
=============================================================================
