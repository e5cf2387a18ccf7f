----------------------------- MODULE MCOutbound -----------------------------
(***************************************************************************)
(* Instances of the outbound queue for TLC.                                *)
(***************************************************************************)
EXTENDS OutboundProperties, TLC

CONSTANTS i1, i2, w1, w2, a1, a2, adm

MCItems1 == {i1}
MCItems2 == {i1, i2}
MCWorkers == {w1, w2}
MCAddrs == {a1, a2}

\* Two rows for one address, or one row.
MCSameAddr == (i1 :> a1) @@ (i2 :> a1)
MCOneAddr == (i1 :> a1)
=============================================================================
