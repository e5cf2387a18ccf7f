----------------------------- MODULE MCImapPush -----------------------------
(***************************************************************************)
(* Instances of the IMAP push for TLC.                                     *)
(***************************************************************************)
EXTENDS ImapPushProperties, TLC

CONSTANTS s1, s2, r1

MCSessions == {s1, s2}
MCRequests == {r1}

\* Sound for safety: no definition tells one session from another.
MCSymmetry == Permutations(MCSessions)

\* Bound: once a client is in doubt, TLC goes on only where nothing is changing the
\* folder. How a client recovers by a new SELECT is explored from there.
MCQuiet == doubt = {} \/ \A p \in Procs : ~Changing(p)
=============================================================================
