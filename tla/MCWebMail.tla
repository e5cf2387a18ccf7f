----------------------------- MODULE MCWebMail -----------------------------
(***************************************************************************)
(* An instance of the storage quota for TLC.                               *)
(***************************************************************************)
EXTENDS WebMailProperties, TLC

CONSTANTS p, q

MCRequests == {p, q}

\* The requests run the same code.
MCSymmetry == Permutations(MCRequests)

\* One thing goes wrong in a behaviour, and only until the account is wrong:
\* every property allows for each of them on its own.
MCOneCause ==
  /\ Cardinality(blame) <= 1
  /\ used = Expected
=============================================================================
