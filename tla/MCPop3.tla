------------------------------- MODULE MCPop3 -------------------------------
(***************************************************************************)
(* An instance of the POP3 sessions and the connection hub for TLC.        *)
(***************************************************************************)
EXTENDS Pop3Properties, TLC

CONSTANTS c1, c2, u, v

MCConns == {c1, c2}
MCProtocol == c1 :> "pop3" @@ c2 :> "imap"

\* Two messages of one of two users, which may be there already or arrive.
MCKnown == {u, v}
MCIds == {1, 2}
MCOwner == 1 :> u @@ 2 :> u
=============================================================================
