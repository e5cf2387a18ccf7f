---------------------------- MODULE MCTlsLoader -----------------------------
(***************************************************************************)
(* An instance of the TLS certificate loader for TLC.                      *)
(***************************************************************************)
EXTENDS TlsLoaderProperties

CONSTANTS v, w

MCWriters == {v, w}
=============================================================================
