---------------------------- MODULE MCSubmission ----------------------------
(***************************************************************************)
(* An instance of the SMTP sessions for TLC.                               *)
(***************************************************************************)
EXTENDS SubmissionProperties, TLC

CONSTANTS s1, loc, ext1

MCSessions == {s1}

\* A message to a user and to an address outside, sent up to twice.
MCRcpts == s1 :> <<loc, ext1>>
MCTries == s1 :> 2
MCDomestic == {loc}
=============================================================================
