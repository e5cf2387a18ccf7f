---------------------------- MODULE MCMailboxes ----------------------------
(***************************************************************************)
(* An instance of the folders of a user for TLC.                           *)
(***************************************************************************)
EXTENDS MailboxesProperties, TLC

CONSTANTS inbox, x, y, p, q

MCSystem == {inbox}
MCCustom == {x, y}
MCProcs == {p, q}

\* The processes run the same code, and so do the names of custom folders.
MCSymmetry == Permutations(MCProcs) \union Permutations(MCCustom)

\* Bounds: one message is moved; the run ends once a folder has been taken from
\* another session; the subscription is that of INBOX, and kept only where no more than
\* one UIDVALIDITY has been drawn.
MCFew ==
  /\ silent \subseteq System
  /\ Cardinality(moved) <= 1
  /\ lost = {}
  /\ silent = {} \/ draws < MaxDraws

\* A client whose UIDVALIDITY is void drops its cache: nothing more is asked of it.
MCWatched ==
  \A t \in cache : t.folder \notin lost /\ t.validity = validity[t.folder]

MCConstraint == MCFew /\ MCWatched
=============================================================================
