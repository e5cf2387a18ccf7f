----------------------------- MODULE TlsLoader ------------------------------
(***************************************************************************)
(* The certificate of a TLS port: what a start finds or makes (main.go),   *)
(* the loader that every handshake asks (tlsutil), and the administrators  *)
(* that replace the domain's files meanwhile (handleDomainTLSUpdate and    *)
(* FetchCaddyCert).  A file is truncated, then written; the certificate is *)
(* written before the key, and read before it; the modification times are  *)
(* taken after both have been read.                                        *)
(*                                                                         *)
(* A pair is a number: certificate n belongs to key n. No two writes have  *)
(* the same modification time. The port has no files of its own in the     *)
(* configuration.                                                          *)
(***************************************************************************)
EXTENDS Naturals

CONSTANTS
  Writers,      \* requests that replace the domain's files
  MaxPairs,     \* bound: pairs 1..MaxPairs are ever made
  MaxCrashes    \* bound

ASSUME LoaderAssumption == {MaxPairs, MaxCrashes} \subseteq Nat

Places == {"self", "dom"}
Kinds == {"cert", "key"}

VARIABLES
  disk,       \* [Places -> [Kinds -> File]]
  clock,      \* the last modification time
  pairs,      \* the last pair made
  row,        \* the domain's: without paths, with TLS off, or with TLS on
  wpc,        \* where each writer is
  pair,       \* the pair it writes
  pc,         \* where the server is: starting, serving, or in a load
  path,       \* certPath and keyPath of the loader
  served,     \* what the loader has loaded: certificate and key
  mods,       \* certMod and keyMod
  throttled,  \* less than retryInterval since the last failure
  source,     \* what tlsSource has cached, and whether it is still good
  got         \* what load has read, with its modification time

\* History.
VARIABLES
  torn,       \* places left with files that do not belong together
  clean,      \* writers that no other has overlapped
  missed,     \* files replaced between being read and being looked at
  crashes

fileVars == <<disk, clock>>
writerVars == <<wpc, pair, clean>>
loaderVars == <<path, served, mods, throttled, source, got>>
vars == <<fileVars, pairs, row, writerVars, pc, loaderVars, torn, missed, crashes>>

None == [cert |-> 0, key |-> 0]
NoFile == [pair |-> 0, mod |-> 0]
NoGot == [cert |-> 0, certMod |-> 0, key |-> 0, keyMod |-> 0]
NoSource == [at |-> "none", good |-> FALSE]
Reading == {"readCert", "readKey", "statCert", "statKey"}
Making == {"selfCertOpen", "selfCert", "selfKeyOpen", "selfKey"}
Starting == Making \union {"firstCert", "firstKey"}

\* The administrators' pages are there once the loader has been made, or has not.
Up == pc = "off" \/ served # None

\* The domain that GetFirstTLSEnabledWithCert finds.
listed == row = "on"

Content(at, k) == disk[at][k].pair
Mod(at, k) == disk[at][k].mod
Exists(at, k) == disk[at][k] # NoFile

-----------------------------------------------------------------------------
Forgotten ==
  /\ path' = "self" /\ served' = None /\ mods' = None
  /\ throttled' = FALSE /\ source' = NoSource /\ got' = NoGot
  /\ missed' = {}

Init ==
  /\ disk = [at \in Places |-> [k \in Kinds |-> NoFile]] /\ clock = 0 /\ pairs = 0
  /\ row = "none"
  /\ wpc = [w \in Writers |-> "idle"] /\ pair = [w \in Writers |-> 0]
  /\ pc = "down"
  /\ path = "self" /\ served = None /\ mods = None
  /\ throttled = FALSE /\ source = NoSource /\ got = NoGot
  /\ torn = {} /\ clean = Writers /\ missed = {} /\ crashes = 0

\* Opening truncates the file; writing fills it.
Writes(at, k, n) ==
  /\ clock' = clock + 1
  /\ disk' = [disk EXCEPT ![at][k] = [pair |-> n, mod |-> clock']]

-----------------------------------------------------------------------------
(* Start: the domain's files if there are any (and the database answers),  *)
(* or else a self-signed pair, made if one of its files does not exist.    *)

\* Mutant: only the certificate is looked for.
SelfSigned_Cert == Exists("self", "cert")

SelfSigned == \A k \in Kinds : Exists("self", k)

Start ==
  /\ pc = "down"
  /\ path' \in {"self"} \union (IF listed THEN {"dom"} ELSE {})
  /\ IF path' = "dom" \/ SelfSigned THEN pc' = "firstCert" /\ UNCHANGED pairs
     ELSE /\ pairs < MaxPairs /\ pairs' = pairs + 1
          /\ pc' = "selfCertOpen"
  /\ UNCHANGED <<fileVars, row, writerVars, served, mods, throttled, source, got,
                 torn, missed, crashes>>

\* ensureSelfSignedCert, step by step. The last Close may fail, too.
MakeSelfSigned ==
  /\ \/ pc = "selfCertOpen" /\ Writes("self", "cert", 0) /\ pc' = "selfCert"
     \/ pc = "selfCert" /\ Writes("self", "cert", pairs) /\ pc' = "selfKeyOpen"
     \/ pc = "selfKeyOpen" /\ Writes("self", "key", 0) /\ pc' = "selfKey"
     \/ pc = "selfKey" /\ Writes("self", "key", pairs) /\ pc' \in {"firstCert", "off"}
  /\ UNCHANGED <<pairs, row, writerVars, loaderVars, torn, missed, crashes>>

\* One of its steps fails; the start goes on without paths, hence without TLS. A key
\* that has only been opened looks as if it were there.
MakeFails ==
  /\ pc \in Making
  /\ pc' = "off"
  /\ torn' = IF pc = "selfKey" THEN torn \union {"self"} ELSE torn
  /\ UNCHANGED <<fileVars, pairs, row, writerVars, loaderVars, missed, crashes>>

-----------------------------------------------------------------------------
(* GetCertificate, one handshake at a time.                                *)

\* tlsSource asks the database, at most every ten seconds.
Lookup ==
  /\ pc = "serving" /\ ~ source.good
  /\ source' = [at |-> IF listed THEN "dom" ELSE "none", good |-> TRUE]
  /\ UNCHANGED <<fileVars, pairs, row, writerVars, pc, path, served, mods, throttled, got,
                 torn, missed, crashes>>

LookupFails ==
  /\ pc = "serving" /\ ~ source.good
  /\ source' = [at |-> "none", good |-> TRUE]
  /\ UNCHANGED <<fileVars, pairs, row, writerVars, pc, path, served, mods, throttled, got,
                 torn, missed, crashes>>

\* Mutant: one file as before is enough.
Unchanged_Either(at) == \E k \in Kinds : Exists(at, k) /\ Mod(at, k) = mods[k]

\* filesChanged: a file that cannot be read has changed.
Unchanged(at) == \A k \in Kinds : Exists(at, k) /\ Mod(at, k) = mods[k]

\* A handshake finds the path or the files changed.
Reload ==
  /\ pc = "serving" /\ source.good /\ source.at # "none"
  /\ source.at # path \/ ~ Unchanged(source.at)
  /\ ~ throttled /\ throttled' = TRUE
  /\ path' = source.at
  /\ pc' = "readCert"
  /\ UNCHANGED <<fileVars, pairs, row, writerVars, served, mods, source, got,
                 torn, missed, crashes>>

\* LoadX509KeyPair reads one file, then the other.
ReadCert ==
  /\ pc \in {"readCert", "firstCert"}
  /\ got' = [NoGot EXCEPT !.cert = Content(path, "cert"), !.certMod = Mod(path, "cert")]
  /\ pc' = IF pc = "readCert" THEN "readKey" ELSE "firstKey"
  /\ UNCHANGED <<fileVars, pairs, row, writerVars, path, served, mods, throttled, source,
                 torn, missed, crashes>>

\* Mutant: any certificate goes with any key.
Matches_Any(c, k) == c # 0 /\ k # 0

Matches(c, k) == c # 0 /\ c = k

ReadKey ==
  /\ pc \in {"readKey", "firstKey"}
  /\ Matches(got.cert, Content(path, "key"))
  /\ got' = [got EXCEPT !.key = Content(path, "key"), !.keyMod = Mod(path, "key")]
  /\ pc' = "statCert"
  /\ UNCHANGED <<fileVars, pairs, row, writerVars, path, served, mods, throttled, source,
                 torn, missed, crashes>>

\* Mutant: the times are noted although the pair was not loaded.
Noted_Always == [cert |-> Mod(path, "cert"), key |-> Mod(path, "key")]

Noted == mods

\* The old certificate stays; a start goes on without TLS.
LoadFails ==
  /\ pc \in {"readKey", "firstKey"}
  /\ ~ Matches(got.cert, Content(path, "key"))
  /\ mods' = Noted
  /\ got' = NoGot
  /\ pc' = IF pc = "readKey" THEN "serving" ELSE "off"
  /\ UNCHANGED <<fileVars, pairs, row, writerVars, path, served, throttled, source,
                 torn, missed, crashes>>

StatCert ==
  /\ pc = "statCert"
  /\ mods' = [mods EXCEPT !.cert = Mod(path, "cert")]
  /\ missed' = IF mods'.cert # got.certMod THEN {"cert"} ELSE {}
  /\ pc' = "statKey"
  /\ UNCHANGED <<fileVars, pairs, row, writerVars, path, served, throttled, source, got,
                 torn, crashes>>

StatKey ==
  /\ pc = "statKey"
  /\ mods' = [mods EXCEPT !.key = Mod(path, "key")]
  /\ missed' = IF mods'.key # got.keyMod THEN missed \union {"key"} ELSE missed
  /\ served' = [cert |-> got.cert, key |-> got.key]
  /\ throttled' = FALSE
  /\ got' = NoGot
  /\ pc' = "serving"
  /\ UNCHANGED <<fileVars, pairs, row, writerVars, path, source, torn, crashes>>

\* Five seconds since the last failure.
RetryDue ==
  /\ throttled /\ pc = "serving"
  /\ throttled' = FALSE
  /\ UNCHANGED <<fileVars, pairs, row, writerVars, pc, path, served, mods, source, got,
                 torn, missed, crashes>>

\* Ten seconds since the last query.
SourceDue ==
  /\ source.good /\ pc = "serving"
  /\ source' = NoSource
  /\ UNCHANGED <<fileVars, pairs, row, writerVars, pc, path, served, mods, throttled, got,
                 torn, missed, crashes>>

-----------------------------------------------------------------------------
(* An administrator replaces the pair of the domain.                       *)

Writing(w) == wpc[w] # "idle"

Upload(w) ==
  /\ Up /\ wpc[w] = "idle"
  /\ pairs < MaxPairs /\ pairs' = pairs + 1
  /\ pair' = [pair EXCEPT ![w] = pairs']
  /\ wpc' = [wpc EXCEPT ![w] = "certOpen"]
  /\ LET others == {v \in Writers : Writing(v)}
     IN  clean' = IF others = {} THEN clean \union {w} ELSE clean \ (others \union {w})
  /\ UNCHANGED <<fileVars, row, pc, loaderVars, torn, missed, crashes>>

Step(w, from, to) == wpc[w] = from /\ wpc' = [wpc EXCEPT ![w] = to]

WriteFiles(w) ==
  /\ \/ Step(w, "certOpen", "cert") /\ Writes("dom", "cert", 0)
     \/ Step(w, "cert", "keyOpen") /\ Writes("dom", "cert", pair[w])
     \/ Step(w, "keyOpen", "key") /\ Writes("dom", "key", 0)
     \/ Step(w, "key", "row") /\ Writes("dom", "key", pair[w])
  /\ torn' = IF wpc[w] = "key" /\ w \in clean THEN torn \ {"dom"} ELSE torn \union {"dom"}
  /\ UNCHANGED <<pairs, row, pair, clean, pc, loaderVars, missed, crashes>>

\* Update of the domain's row.
SaveRow(w) ==
  /\ Step(w, "row", "idle")
  /\ row' = "on"
  /\ pair' = [pair EXCEPT ![w] = 0]
  /\ UNCHANGED <<fileVars, pairs, clean, pc, loaderVars, torn, missed, crashes>>

\* A step fails; the administrator hears so.
UploadFails(w) ==
  /\ Writing(w)
  /\ wpc' = [wpc EXCEPT ![w] = "idle"]
  /\ pair' = [pair EXCEPT ![w] = 0]
  /\ UNCHANGED <<fileVars, pairs, row, clean, pc, loaderVars, torn, missed, crashes>>

\* The domain is edited without new files, or deleted; a save writes the whole row, so a
\* request that read it before it had paths takes them away.
EditDomain ==
  /\ Up /\ row # "none"
  /\ row' \in {"none", "off", "on"} \ {row}
  /\ UNCHANGED <<fileVars, pairs, writerVars, pc, loaderVars, torn, missed, crashes>>

-----------------------------------------------------------------------------
\* Nothing is undone: a start finds the files as they are.
Crash ==
  /\ pc # "down" /\ crashes < MaxCrashes
  /\ crashes' = crashes + 1
  /\ pc' = "down"
  /\ wpc' = [w \in Writers |-> "idle"] /\ pair' = [w \in Writers |-> 0]
  /\ clean' = Writers
  /\ torn' = IF pc = "selfKey" THEN torn \union {"self"} ELSE torn
  /\ Forgotten
  /\ UNCHANGED <<fileVars, pairs, row>>

Load == ReadCert \/ ReadKey \/ LoadFails \/ StatCert \/ StatKey

Next ==
  \/ Start \/ MakeSelfSigned \/ MakeFails \/ Load
  \/ Lookup \/ LookupFails \/ Reload \/ RetryDue \/ SourceDue
  \/ \E w \in Writers : Upload(w) \/ WriteFiles(w) \/ SaveRow(w) \/ UploadFails(w)
  \/ EditDomain \/ Crash

Spec == Init /\ [][Next]_vars

\* Handshakes go on, time passes, and the database does not fail each time. A handshake
\* that asks the source goes on to look at the files: it cannot be too late each time.
Fairness ==
  /\ WF_vars(Load) /\ WF_vars(RetryDue) /\ WF_vars(SourceDue)
  /\ SF_vars(Lookup) /\ SF_vars(Reload)

FairSpec == Spec /\ Fairness
=============================================================================
