---------------------------- MODULE MCWebSession ----------------------------
(***************************************************************************)
(* An instance of the web sessions for TLC: a browser with two requests    *)
(* under way at once. It may log in as another user while a request of the *)
(* first is under way, so these may be the requests of two browsers.       *)
(***************************************************************************)
EXTENDS WebSessionProperties, TLC

CONSTANTS adm, usr, x, p, q

MCUsers == {adm, usr}
MCBrowsers == {x}
MCRequests == {p, q}
MCBrowserOf == (p :> x) @@ (q :> x)

\* Bound: nothing is asked of the rows after one of the exceptions that the properties
\* name has happened.
MCNoException == ~ resigned /\ stale = {} /\ revived = {}

\* Bound: where somebody logs in through OAuth2 one password is set, not two. OAuth2 neither
\* reads nor sets any.
MCFewPasswords == flows = 0 \/ passwords < MaxPasswords

MCConstraint == MCNoException /\ MCFewPasswords

\* The requests run the same code.
MCSymmetry == Permutations(MCRequests)
=============================================================================
