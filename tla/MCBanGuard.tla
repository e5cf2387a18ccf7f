----------------------------- MODULE MCBanGuard -----------------------------
(***************************************************************************)
(* Instances of the ban guard for TLC.                                     *)
(***************************************************************************)
EXTENDS BanGuardProperties, TLC

CONSTANTS web, pop, k1, k2, k3, k4

\* One stateless login (web, SMTP, IMAP) and one POP3 connection.
MCClients == {web, pop}
MCSticky == {pop}

\* A key for the row, one for every copy, and a fresh one.
MCIds == {k1, k2, k3, k4}

IdSymmetry == Permutations(Ids)
=============================================================================
