------------------------ MODULE TlsLoaderProperties -------------------------
(***************************************************************************)
(* What the TLS certificate loader is meant to guarantee.                  *)
(***************************************************************************)
EXTENDS TlsLoader

\* Every variable has its type.
TypeOK ==
  /\ disk \in [Places -> [Kinds -> [pair : 0..MaxPairs, mod : Nat]]]
  /\ clock \in Nat /\ pairs \in 0..MaxPairs /\ row \in {"none", "off", "on"}
  /\ wpc \in [Writers -> {"idle", "certOpen", "cert", "keyOpen", "key", "row"}]
  /\ pair \in [Writers -> 0..MaxPairs]
  /\ \A w \in Writers : pair[w] = 0 <=> wpc[w] = "idle"
  /\ pc \in {"down", "off", "serving"} \union Starting \union Reading
  /\ path \in Places /\ source \in [at : {"none", "dom"}, good : BOOLEAN]
  /\ served \in [cert : 0..MaxPairs, key : 0..MaxPairs]
  /\ mods \in [cert : Nat, key : Nat] /\ throttled \in BOOLEAN
  /\ got \in [cert : 0..MaxPairs, certMod : Nat, key : 0..MaxPairs, keyMod : Nat]
  /\ torn \subseteq Places /\ clean \subseteq Writers /\ missed \subseteq Kinds
  /\ crashes \in Nat

-----------------------------------------------------------------------------
(* A handshake always gets a certificate with its own key, while the files *)
(* are replaced under the loader, and always gets one once a start has     *)
(* succeeded (GetCertificate, load).                                       *)
Pairs ==
  pc = "serving" \/ served # None => served.cert # 0 /\ served.cert = served.key

(* When the loader sees no change there is none: what it serves is what is *)
(* on disk, unless the files were replaced after they had been read and    *)
(* before their times were taken (load, filesChanged).                     *)
NoBlindSpot ==
  pc = "serving" /\ Unchanged(path) =>
    \A k \in Kinds \ missed : served[k] = Content(path, k)

(* A start leaves the port without TLS only when it fails to make the      *)
(* self-signed pair itself, or when a crash, a failure or two              *)
(* administrators at once have left a file half written or the files of two*)
(* pairs: what is missing, because an earlier start failed, too, is made   *)
(* (ensureSelfSignedCert, newTLSCertLoader).                               *)
StartsWithTLS ==
  [][pc # "off" /\ pc' = "off" => pc \in Making \/ path \in torn]_vars

-----------------------------------------------------------------------------
\* The domain's pair is complete, and nobody is changing anything.
Settled ==
  /\ Up /\ pc # "off" /\ listed
  /\ \A w \in Writers : ~ Writing(w)
  /\ Matches(Content("dom", "cert"), Content("dom", "key"))

(* Once the administrators are done, and the files belong together, the    *)
(* port comes to serve them without a restart, after failures too, unless  *)
(* both were replaced between being read and being looked at               *)
(* (GetCertificate, tlsSource).                                            *)
CatchesUp ==
  <>[]Settled => <>[](served.cert = Content("dom", "cert") \/ missed = Kinds)
=============================================================================
