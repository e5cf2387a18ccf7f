--------------------------- MODULE TlsLoaderProofs ---------------------------
(***************************************************************************)
(* Proofs about the TLS certificate loader: what is served is always a     *)
(* pair, the loader overlooks only a replacement between reading and       *)
(* looking, and a start that makes what is missing leaves TLS off only with*)
(* files left half written.                                                *)
(***************************************************************************)
EXTENDS TlsLoaderProperties, TLAPS

-----------------------------------------------------------------------------
(* What is read but not yet served is a pair, too.                         *)
PairsInv ==
  /\ Pairs
  /\ pc \in {"statCert", "statKey"} => got.cert # 0 /\ got.cert = got.key
  /\ pc \in {"readCert", "readKey"} => served # None
  /\ pc \in {"down", "off"} \union Starting => served = None

-----------------------------------------------------------------------------
\* A file of kind k that was modified at t holds pair n.
Dates(k, n, t) ==
  \A at \in Places : Exists(at, k) /\ Mod(at, k) = t => Content(at, k) = n

(* A time stands for one write, so a file with the time that was noted is  *)
(* the file that was read.                                                 *)
DatesInv ==
  /\ \A at \in Places, k \in Kinds :
       Mod(at, k) <= clock /\ (Exists(at, k) => Mod(at, k) # 0)
  /\ \A at, to \in Places, k \in Kinds :
       Exists(at, k) /\ Exists(to, k) /\ Mod(at, k) = Mod(to, k) => at = to
  /\ mods.cert <= clock /\ mods.key <= clock
  /\ got.certMod <= clock /\ got.keyMod <= clock

BlindInv ==
  /\ pc \in {"readKey", "firstKey", "statCert", "statKey"} =>
       Dates("cert", got.cert, got.certMod)
  /\ pc \in {"statCert", "statKey"} => Dates("key", got.key, got.keyMod)
  /\ pc = "statKey" /\ "cert" \notin missed => Dates("cert", got.cert, mods.cert)
  /\ pc # "statKey" /\ "cert" \notin missed => Dates("cert", served.cert, mods.cert)
  /\ pc # "statKey" /\ "key" \notin missed => Dates("key", served.key, mods.key)

-----------------------------------------------------------------------------
(* The self-signed pair: the key is made last.                             *)
SelfInv ==
  /\ pc \in {"selfCertOpen", "selfCert", "selfKeyOpen", "selfKey"} => path = "self" /\ pairs # 0
  /\ pc \in {"selfCertOpen", "selfCert", "selfKeyOpen"} => ~ Exists("self", "key")
  /\ pc \in {"selfCert", "selfKeyOpen", "selfKey"} => Exists("self", "cert")
  /\ pc \in {"selfKeyOpen", "selfKey"} => Content("self", "cert") = pairs
  /\ Exists("self", "key") => Exists("self", "cert")
  /\ Exists("self", "key") /\ pc # "selfKey" /\ "self" \notin torn =>
       Matches(Content("self", "cert"), Content("self", "key"))
  /\ pc \in {"firstCert", "firstKey"} /\ path = "self" => Exists("self", "key")

(* The domain's pair: whoever writes it alone leaves it whole.             *)
DomInv ==
  /\ \A v, w \in Writers : w \in clean /\ Writing(w) /\ Writing(v) => v = w
  /\ \A w \in Writers : w \in clean /\ wpc[w] \in {"keyOpen", "key"} =>
       Content("dom", "cert") = pair[w]
  /\ \A w \in Writers : wpc[w] = "row" => Exists("dom", "key")
  /\ row # "none" => Exists("dom", "key")
  /\ Exists("dom", "key") /\ "dom" \notin torn =>
       Matches(Content("dom", "cert"), Content("dom", "key"))
  /\ pc \in {"firstCert", "firstKey"} /\ path = "dom" => row # "none"

(* Nobody writes while the server starts.                                  *)
QuietInv ==
  /\ ~ Up => \A w \in Writers : ~ Writing(w)
  /\ pc = "firstKey" => got.cert = Content(path, "cert")

StartInv == SelfInv /\ DomInv /\ QuietInv


-----------------------------------------------------------------------------
LEMMA TypeInit == Init => TypeOK
<1> SUFFICES ASSUME Init PROVE TypeOK
  OBVIOUS
<1> USE LoaderAssumption DEF Init
<1>1. disk \in [Places -> [Kinds -> [pair : 0..MaxPairs, mod : Nat]]]
  <2>1. NoFile \in [pair : 0..MaxPairs, mod : Nat]
    BY DEF NoFile
  <2> QED
    BY <2>1
<1>2. source \in [at : {"none", "dom"}, good : BOOLEAN]
  BY DEF NoSource
<1>3. got \in [cert : 0..MaxPairs, certMod : Nat, key : 0..MaxPairs, keyMod : Nat]
  BY DEF NoGot
<1>4. mods \in [cert : Nat, key : Nat] /\ served \in [cert : 0..MaxPairs, key : 0..MaxPairs]
  BY DEF None
<1>5. /\ wpc \in [Writers -> {"idle", "certOpen", "cert", "keyOpen", "key", "row"}]
      /\ pair \in [Writers -> 0..MaxPairs]
      /\ \A w \in Writers : pair[w] = 0 <=> wpc[w] = "idle"
  OBVIOUS
<1>6. clock \in Nat /\ pairs \in 0..MaxPairs /\ crashes \in Nat
  OBVIOUS
<1>7. /\ row \in {"none", "off", "on"} /\ path \in Places /\ throttled \in BOOLEAN
      /\ pc \in {"down", "off", "serving"} \union Starting \union Reading
      /\ torn \subseteq Places /\ clean \subseteq Writers /\ missed \subseteq Kinds
  BY DEF Places
<1> QED
  BY <1>1, <1>2, <1>3, <1>4, <1>5, <1>6, <1>7 DEF TypeOK

LEMMA TypeStep == TypeOK /\ [Next]_vars => TypeOK'
<1> SUFFICES ASSUME TypeOK, [Next]_vars PROVE TypeOK'
  OBVIOUS
<1> USE LoaderAssumption DEF TypeOK, Starting, Making, Reading, Places, Kinds, Content, Mod
<1>1. CASE Start
  BY <1>1 DEF Start, listed, vars, fileVars, writerVars, loaderVars
<1>2. CASE MakeSelfSigned
  <2>1. ASSUME NEW k \in Kinds, NEW n \in {0, pairs}, Writes("self", k, n)
        PROVE  /\ disk' \in [Places -> [Kinds -> [pair : 0..MaxPairs, mod : Nat]]]
               /\ clock' \in Nat
    BY <2>1 DEF Writes
  <2>2. disk' \in [Places -> [Kinds -> [pair : 0..MaxPairs, mod : Nat]]] /\ clock' \in Nat
    BY <1>2, <2>1 DEF MakeSelfSigned
  <2> QED
    BY <1>2, <2>2 DEF MakeSelfSigned, vars, writerVars, loaderVars
<1>0. /\ \A k \in Kinds : Content(path, k) \in 0..MaxPairs /\ Mod(path, k) \in Nat
      /\ NoGot \in [cert : 0..MaxPairs, certMod : Nat, key : 0..MaxPairs, keyMod : Nat]
  BY DEF NoGot
<1>21. CASE MakeFails
  BY <1>21 DEF MakeFails, vars, fileVars, writerVars, loaderVars
<1>3. CASE ReadCert
  <2>1. got' \in [cert : 0..MaxPairs, certMod : Nat, key : 0..MaxPairs, keyMod : Nat]
    <3>1. got' = [NoGot EXCEPT !.cert = Content(path, "cert"), !.certMod = Mod(path, "cert")]
      BY <1>3 DEF ReadCert
    <3>2. Content(path, "cert") \in 0..MaxPairs /\ Mod(path, "cert") \in Nat
      BY <1>0
    <3> HIDE DEF Content, Mod
    <3> QED
      BY <1>0, <3>1, <3>2
  <2> QED
    BY <1>3, <2>1 DEF ReadCert, vars, fileVars, writerVars, loaderVars
<1>4. CASE ReadKey
  <2>1. got' \in [cert : 0..MaxPairs, certMod : Nat, key : 0..MaxPairs, keyMod : Nat]
    <3>1. got' = [got EXCEPT !.key = Content(path, "key"), !.keyMod = Mod(path, "key")]
      BY <1>4 DEF ReadKey
    <3>2. Content(path, "key") \in 0..MaxPairs /\ Mod(path, "key") \in Nat
      BY <1>0
    <3> HIDE DEF Content, Mod
    <3> QED
      BY <3>1, <3>2
  <2> QED
    BY <1>4, <2>1 DEF ReadKey, vars, fileVars, writerVars, loaderVars
<1>5. CASE LoadFails
  BY <1>5 DEF LoadFails, Noted, NoGot, vars, fileVars, writerVars, loaderVars
<1>6. CASE StatCert
  BY <1>6 DEF StatCert, vars, fileVars, writerVars, loaderVars
<1>7. CASE StatKey
  <2>1. served' \in [cert : 0..MaxPairs, key : 0..MaxPairs]
    BY <1>7 DEF StatKey
  <2>2. mods' \in [cert : Nat, key : Nat]
    BY <1>0, <1>7 DEF StatKey
  <2>3. got' \in [cert : 0..MaxPairs, certMod : Nat, key : 0..MaxPairs, keyMod : Nat]
    BY <1>0, <1>7 DEF StatKey
  <2> QED
    BY <1>7, <2>1, <2>2, <2>3 DEF StatKey, vars, fileVars, writerVars, loaderVars
<1>8. CASE Lookup
  BY <1>8 DEF Lookup, listed, vars, fileVars, writerVars, loaderVars
<1>9. CASE LookupFails
  BY <1>9 DEF LookupFails, vars, fileVars, writerVars, loaderVars
<1>10. CASE Reload
  BY <1>10 DEF Reload, vars, fileVars, writerVars, loaderVars
<1>11. CASE RetryDue
  BY <1>11 DEF RetryDue, vars, fileVars, writerVars, loaderVars
<1>12. CASE SourceDue
  BY <1>12 DEF SourceDue, NoSource, vars, fileVars, writerVars, loaderVars
<1>13. ASSUME NEW w \in Writers, Upload(w) PROVE TypeOK'
  BY <1>13 DEF Upload, Writing, vars, fileVars, writerVars, loaderVars
<1>14. ASSUME NEW w \in Writers, WriteFiles(w) PROVE TypeOK'
  BY <1>14 DEF WriteFiles, Writes, Step, vars, fileVars, writerVars, loaderVars
<1>15. ASSUME NEW w \in Writers, SaveRow(w) PROVE TypeOK'
  BY <1>15 DEF SaveRow, Step, vars, fileVars, writerVars, loaderVars
<1>16. ASSUME NEW w \in Writers, UploadFails(w) PROVE TypeOK'
  BY <1>16 DEF UploadFails, Writing, vars, fileVars, writerVars, loaderVars
<1>17. CASE EditDomain
  BY <1>17 DEF EditDomain, vars, fileVars, writerVars, loaderVars
<1>18. CASE Crash
  <2>1. /\ served' \in [cert : 0..MaxPairs, key : 0..MaxPairs]
        /\ mods' \in [cert : Nat, key : Nat]
    BY <1>18 DEF Crash, Forgotten, None
  <2>2. got' \in [cert : 0..MaxPairs, certMod : Nat, key : 0..MaxPairs, keyMod : Nat]
    BY <1>0, <1>18 DEF Crash, Forgotten
  <2>3. source' \in [at : {"none", "dom"}, good : BOOLEAN]
    BY <1>18 DEF Crash, Forgotten, NoSource
  <2>4. /\ wpc' \in [Writers -> {"idle", "certOpen", "cert", "keyOpen", "key", "row"}]
        /\ pair' \in [Writers -> 0..MaxPairs]
        /\ \A w \in Writers : pair'[w] = 0 <=> wpc'[w] = "idle"
    BY <1>18 DEF Crash
  <2>5. torn' \subseteq Places
    BY <1>18 DEF Crash
  <2>6. crashes' \in Nat
    BY <1>18 DEF Crash
  <2>7. /\ clean' \subseteq Writers /\ missed' \subseteq Kinds
        /\ throttled' \in BOOLEAN /\ path' \in Places
        /\ pc' \in {"down", "off", "serving"} \union Starting \union Reading
    BY <1>18 DEF Crash, Forgotten
  <2> QED
    BY <1>18, <2>1, <2>2, <2>3, <2>4, <2>5, <2>6, <2>7 DEF Crash, fileVars
<1>19. CASE UNCHANGED vars
  BY <1>19 DEF vars, fileVars, writerVars, loaderVars
<1>20. QED
  BY <1>1, <1>2, <1>3, <1>4, <1>5, <1>6, <1>7, <1>8, <1>9, <1>10, <1>11, <1>12, <1>13, <1>14,
     <1>15, <1>16, <1>17, <1>18,
     <1>19, <1>21 DEF Next, Load

(* Every variable keeps its type.                                          *)
THEOREM TypeCorrect == Spec => []TypeOK
BY TypeInit, TypeStep, PTL DEF Spec

-----------------------------------------------------------------------------
LEMMA PairsStep == TypeOK /\ PairsInv /\ [Next]_vars => PairsInv'
<1> SUFFICES ASSUME TypeOK, PairsInv, [Next]_vars PROVE PairsInv'
  OBVIOUS
<1> USE DEF PairsInv, Pairs, Starting, Making
<1>1. CASE Start \/ MakeSelfSigned \/ MakeFails
  BY <1>1 DEF Start, MakeSelfSigned, MakeFails, loaderVars
<1>2. CASE ReadCert
  BY <1>2 DEF ReadCert
<1>3. CASE ReadKey
  <2>1. got'.cert # 0 /\ got'.cert = got'.key
    BY <1>3 DEF ReadKey, Matches, TypeOK
  <2> QED
    BY <1>3, <2>1 DEF ReadKey
<1>4. CASE LoadFails
  BY <1>4 DEF LoadFails
<1>5. CASE StatCert
  BY <1>5 DEF StatCert
<1>6. CASE StatKey
  <2>1. served'.cert # 0 /\ served'.cert = served'.key /\ pc' = "serving"
    BY <1>6 DEF StatKey
  <2> QED
    BY <2>1
<1>7. CASE Lookup \/ LookupFails \/ RetryDue \/ SourceDue
  BY <1>7 DEF Lookup, LookupFails, RetryDue, SourceDue
<1>8. CASE Reload
  BY <1>8 DEF Reload, None
<1>9. CASE \/ EditDomain \/ UNCHANGED vars
           \/ \E w \in Writers : Upload(w) \/ WriteFiles(w) \/ SaveRow(w) \/ UploadFails(w)
  BY <1>9 DEF EditDomain, Upload, WriteFiles, SaveRow, UploadFails, vars, loaderVars
<1>10. CASE Crash
  BY <1>10 DEF Crash, Forgotten
<1> QED
  BY <1>1, <1>2, <1>3, <1>4, <1>5, <1>6, <1>7, <1>8, <1>9, <1>10 DEF Next, Load

(* GetCertificate, load: whatever is written, in whichever order, while    *)
(* the loader reads, a handshake gets a certificate with its own key, and  *)
(* gets one as long as the port is served.                                 *)
THEOREM PairsCorrect == Spec => []Pairs
<1>1. Init => PairsInv
  BY DEF Init, PairsInv, Pairs, Starting, Making
<1>2. PairsInv => Pairs
  BY DEF PairsInv
<1> QED
  BY <1>1, <1>2, TypeCorrect, PairsStep, PTL DEF Spec

-----------------------------------------------------------------------------
(* A write has a time of its own.                                          *)
LEMMA WritesDates ==
  ASSUME TypeOK, DatesInv, NEW at \in Places, NEW k \in Kinds, NEW n, Writes(at, k, n)
  PROVE  /\ \A to \in Places, j \in Kinds :
              /\ disk'[to][j].mod <= clock'
              /\ disk'[to][j] # NoFile => disk'[to][j].mod # 0
         /\ \A to, ti \in Places, j \in Kinds :
              disk'[to][j] # NoFile /\ disk'[ti][j] # NoFile
                /\ disk'[to][j].mod = disk'[ti][j].mod => to = ti
         /\ clock' = clock + 1
<1> USE DEF TypeOK, DatesInv, Content, Mod, Exists
<1>1. clock' = clock + 1
  BY DEF Writes
<1>2. \A to \in Places, j \in Kinds :
        disk'[to][j] = IF to = at /\ j = k THEN [pair |-> n, mod |-> clock'] ELSE disk[to][j]
  BY DEF Writes
<1>3. \A to \in Places, j \in Kinds : disk[to][j].mod \in Nat
  OBVIOUS
<1>4. clock \in Nat /\ clock' # 0
  BY <1>1
<1>5. \A to \in Places, j \in Kinds :
        disk[to][j].mod <= clock /\ (disk[to][j] # NoFile => disk[to][j].mod # 0)
  OBVIOUS
<1>6. \A to, ti \in Places, j \in Kinds :
        disk[to][j] # NoFile /\ disk[ti][j] # NoFile
          /\ disk[to][j].mod = disk[ti][j].mod => to = ti
  OBVIOUS
<1> HIDE DEF TypeOK, DatesInv
<1>7. \A to \in Places, j \in Kinds : disk'[to][j].mod <= clock'
  BY <1>1, <1>2, <1>3, <1>4, <1>5
<1>8. \A to \in Places, j \in Kinds : disk'[to][j] # NoFile => disk'[to][j].mod # 0
  BY <1>2, <1>4, <1>5
<1>9. \A to, ti \in Places, j \in Kinds :
        disk'[to][j] # NoFile /\ disk'[ti][j] # NoFile
          /\ disk'[to][j].mod = disk'[ti][j].mod => to = ti
  BY <1>1, <1>2, <1>3, <1>4, <1>5, <1>6
<1> QED
  BY <1>1, <1>7, <1>8, <1>9

\* What has an old time is what it was.
LEMMA WritesOld ==
  ASSUME TypeOK, DatesInv, NEW at \in Places, NEW k \in Kinds, NEW n, Writes(at, k, n),
         NEW j \in Kinds, NEW m, NEW t \in Nat, t <= clock, Dates(j, m, t)
  PROVE  \A to \in Places :
           disk'[to][j] # NoFile /\ disk'[to][j].mod = t => disk'[to][j].pair = m
<1>1. clock' = clock + 1 /\ clock \in Nat
  BY DEF Writes, TypeOK
<1>2. \A to \in Places :
        disk'[to][j] = IF to = at /\ j = k THEN [pair |-> n, mod |-> clock'] ELSE disk[to][j]
  BY DEF Writes, TypeOK
<1>3. \A to \in Places : disk[to][j] # NoFile /\ disk[to][j].mod = t => disk[to][j].pair = m
  BY DEF Dates, Exists, Mod, Content
<1> QED
  BY <1>1, <1>2, <1>3

\* Whoever writes, writes one file or none.
LEMMA Writing1 ==
  ASSUME TypeOK, [Next]_vars
  PROVE  \/ UNCHANGED fileVars
         \/ /\ \E at \in Places, k \in Kinds, n \in 0..MaxPairs : Writes(at, k, n)
            /\ UNCHANGED loaderVars /\ UNCHANGED missed
            /\ pc \in {"selfCertOpen", "selfCert", "selfKeyOpen", "selfKey"} \/ UNCHANGED pc
            /\ pc' # "statKey" \/ UNCHANGED pc
            /\ pc' \in Reading \union {"firstKey"} => UNCHANGED pc
<1> USE LoaderAssumption DEF TypeOK, Places, Kinds
<1>1. CASE MakeSelfSigned
  <2>1. \E k \in Kinds, n \in 0..MaxPairs : Writes("self", k, n)
    BY <1>1 DEF MakeSelfSigned
  <2> QED
    BY <1>1, <2>1 DEF MakeSelfSigned, Reading
<1>2. ASSUME NEW w \in Writers, WriteFiles(w)
      PROVE  /\ \E k \in Kinds, n \in 0..MaxPairs : Writes("dom", k, n)
             /\ UNCHANGED loaderVars /\ UNCHANGED missed /\ UNCHANGED pc
  <2>1. pair[w] \in 0..MaxPairs /\ 0 \in 0..MaxPairs
    OBVIOUS
  <2>2. \E k \in Kinds, n \in 0..MaxPairs : Writes("dom", k, n)
    BY <1>2, <2>1 DEF WriteFiles
  <2> QED
    BY <1>2, <2>2 DEF WriteFiles
<1>3. CASE ~ MakeSelfSigned /\ ~ \E w \in Writers : WriteFiles(w)
  BY <1>3 DEF Next, Load, Start, MakeFails, ReadCert, ReadKey, LoadFails, StatCert, StatKey,
     Lookup, LookupFails, Reload, RetryDue, SourceDue, Upload, SaveRow, UploadFails, EditDomain,
     Crash,
     vars, fileVars
<1> QED
  BY <1>1, <1>2, <1>3

LEMMA DatesStep == TypeOK /\ DatesInv /\ [Next]_vars => DatesInv'
<1> SUFFICES ASSUME TypeOK, DatesInv, [Next]_vars PROVE DatesInv'
  OBVIOUS
<1>1. CASE UNCHANGED fileVars
  <2>1. \A at \in Places, k \in Kinds : disk[at][k].mod <= clock /\ disk[at][k].mod \in Nat
    BY DEF DatesInv, TypeOK, Mod
  <2>2. path \in Places /\ "cert" \in Kinds /\ "key" \in Kinds /\ clock \in Nat
    BY DEF TypeOK, Kinds
  <2>3. mods'.cert <= clock /\ mods'.key <= clock
    <3>1. CASE UNCHANGED mods
      BY <3>1 DEF DatesInv
    <3>2. CASE StatCert \/ StatKey
      BY <3>2, <2>1, <2>2 DEF StatCert, StatKey, TypeOK, DatesInv, Mod
    <3>3. CASE Crash
      BY <3>3, <2>2 DEF Crash, Forgotten, None
    <3> QED
      BY <3>1, <3>2, <3>3 DEF Next, Load, Start, MakeSelfSigned, MakeFails, ReadCert,
         ReadKey, LoadFails, Noted, Lookup, LookupFails, Reload, RetryDue, SourceDue, Upload,
         WriteFiles, SaveRow,
         UploadFails, EditDomain, vars, loaderVars
  <2>4. got'.certMod <= clock /\ got'.keyMod <= clock
    <3>1. CASE UNCHANGED got
      BY <3>1 DEF DatesInv
    <3>2. CASE ReadCert
      BY <3>2, <2>1, <2>2 DEF ReadCert, NoGot, Mod
    <3>4. CASE ReadKey
      BY <3>4, <2>1, <2>2 DEF ReadKey, TypeOK, DatesInv, Mod
    <3>3. CASE LoadFails \/ StatKey \/ Crash
      BY <3>3, <2>2 DEF LoadFails, StatKey, Crash, Forgotten, NoGot
    <3> QED
      BY <3>1, <3>2, <3>3, <3>4 DEF Next, Load, Start, MakeSelfSigned, MakeFails, StatCert,
         Lookup, LookupFails, Reload, RetryDue, SourceDue, Upload, WriteFiles, SaveRow,
         UploadFails, EditDomain,
         vars, loaderVars
  <2> QED
    BY <1>1, <2>3, <2>4 DEF DatesInv, fileVars, Mod, Exists
<1>2. ASSUME NEW at \in Places, NEW k \in Kinds, NEW n \in 0..MaxPairs, Writes(at, k, n),
             UNCHANGED loaderVars
      PROVE  DatesInv'
  <2>1. mods'.cert <= clock' /\ mods'.key <= clock' /\ got'.certMod <= clock' /\ got'.keyMod <= clock'
    BY <1>2 DEF DatesInv, TypeOK, Writes, loaderVars
  <2> QED
    BY <1>2, <2>1, WritesDates DEF DatesInv, Mod, Exists
<1> QED
  BY <1>1, <1>2, Writing1

-----------------------------------------------------------------------------
(* The files stay as they are, or one gets a new time.                     *)
LEMMA DatesStay ==
  ASSUME TypeOK, DatesInv, [Next]_vars, NEW j \in Kinds, NEW m, NEW t \in Nat, t <= clock,
         Dates(j, m, t)
  PROVE  \A at \in Places :
           disk'[at][j] # NoFile /\ disk'[at][j].mod = t => disk'[at][j].pair = m
<1>1. CASE UNCHANGED fileVars
  BY <1>1 DEF Dates, Exists, Mod, Content, fileVars
<1>2. ASSUME NEW at \in Places, NEW k \in Kinds, NEW n \in 0..MaxPairs, Writes(at, k, n)
      PROVE  \A to \in Places :
               disk'[to][j] # NoFile /\ disk'[to][j].mod = t => disk'[to][j].pair = m
  BY <1>2, WritesOld
<1> QED
  BY <1>1, <1>2, Writing1

\* A file that is read dates what is read.
LEMMA ReadDates ==
  ASSUME TypeOK, DatesInv, NEW k \in Kinds
  PROVE  Dates(k, Content(path, k), Mod(path, k))
<1>1. path \in Places
  BY DEF TypeOK
<1>2. ASSUME NEW at \in Places, Exists(at, k), Mod(at, k) = Mod(path, k)
      PROVE  Content(at, k) = Content(path, k)
  <2>1. CASE Exists(path, k)
    <3>1. at = path
      BY <1>1, <1>2, <2>1 DEF DatesInv
    <3> QED
      BY <3>1
  <2>2. CASE ~ Exists(path, k)
    <3>1. Mod(path, k) = 0
      BY <2>2 DEF Exists, Mod, NoFile
    <3> QED
      BY <1>2, <3>1 DEF DatesInv
  <2> QED
    BY <2>1, <2>2
<1> QED
  BY <1>2 DEF Dates

LEMMA BlindStep ==
  TypeOK /\ DatesInv /\ PairsInv /\ BlindInv /\ [Next]_vars => BlindInv'
<1> SUFFICES ASSUME TypeOK, DatesInv, PairsInv, BlindInv, [Next]_vars PROVE BlindInv'
  OBVIOUS
<1> DEFINE Stays(j, m, t) ==
      \A at \in Places :
        disk'[at][j] # NoFile /\ disk'[at][j].mod = t => disk'[at][j].pair = m
<1>1. /\ mods.cert \in Nat /\ mods.key \in Nat /\ got.certMod \in Nat /\ got.keyMod \in Nat
      /\ mods.cert <= clock /\ mods.key <= clock /\ got.certMod <= clock /\ got.keyMod <= clock
      /\ "cert" \in Kinds /\ "key" \in Kinds
  BY DEF TypeOK, DatesInv, Kinds
<1>2. /\ Dates("cert", got.cert, got.certMod) => Stays("cert", got.cert, got.certMod)
      /\ Dates("key", got.key, got.keyMod) => Stays("key", got.key, got.keyMod)
      /\ Dates("cert", got.cert, mods.cert) => Stays("cert", got.cert, mods.cert)
      /\ Dates("cert", served.cert, mods.cert) => Stays("cert", served.cert, mods.cert)
      /\ Dates("key", served.key, mods.key) => Stays("key", served.key, mods.key)
  BY <1>1, DatesStay
<1>3. /\ Dates("cert", Content(path, "cert"), Mod(path, "cert"))
      /\ Dates("key", Content(path, "key"), Mod(path, "key"))
  BY <1>1, ReadDates
<1> SUFFICES
      /\ pc' \in {"readKey", "firstKey", "statCert", "statKey"} =>
           Stays("cert", got'.cert, got'.certMod)
      /\ pc' \in {"statCert", "statKey"} => Stays("key", got'.key, got'.keyMod)
      /\ pc' = "statKey" /\ "cert" \notin missed' => Stays("cert", got'.cert, mods'.cert)
      /\ pc' # "statKey" /\ "cert" \notin missed' => Stays("cert", served'.cert, mods'.cert)
      /\ pc' # "statKey" /\ "key" \notin missed' => Stays("key", served'.key, mods'.key)
  BY DEF BlindInv, Dates, Exists, Mod, Content
<1>4. ASSUME UNCHANGED fileVars, NEW j, NEW m, NEW t
      PROVE  Dates(j, m, t) => Stays(j, m, t)
  BY <1>4 DEF Dates, Exists, Mod, Content, fileVars
<1>5. CASE /\ UNCHANGED <<served, mods, got, missed>>
           /\ pc' = "statKey" <=> pc = "statKey"
           /\ pc' \in Reading \union {"firstKey"} => UNCHANGED pc \/ pc' = "readCert"
  <2> HIDE DEF Stays
  <2> QED
    BY <1>2, <1>5 DEF BlindInv, Reading
<1>6. CASE ReadCert
  <2>1. /\ got'.cert = Content(path, "cert") /\ got'.certMod = Mod(path, "cert")
        /\ pc' \in {"readKey", "firstKey"} /\ pc # "statKey"
        /\ UNCHANGED <<fileVars, served, mods, missed>>
    BY <1>6 DEF ReadCert, NoGot, loaderVars
  <2>2. Stays("cert", got'.cert, got'.certMod)
    BY <1>3, <1>4, <2>1
  <2> HIDE DEF Stays
  <2> QED
    BY <1>2, <2>1, <2>2 DEF BlindInv
<1>7. CASE ReadKey
  <2>1. /\ got'.key = Content(path, "key") /\ got'.keyMod = Mod(path, "key")
        /\ got'.cert = got.cert /\ got'.certMod = got.certMod
        /\ pc' = "statCert" /\ pc \in {"readKey", "firstKey"}
        /\ UNCHANGED <<fileVars, served, mods, missed>>
    BY <1>7 DEF ReadKey, TypeOK
  <2>2. Stays("key", got'.key, got'.keyMod)
    BY <1>3, <1>4, <2>1
  <2> HIDE DEF Stays
  <2> QED
    BY <1>2, <2>1, <2>2 DEF BlindInv
<1>8. CASE LoadFails
  <2> HIDE DEF Stays
  <2> QED
    BY <1>2, <1>8 DEF LoadFails, Noted, BlindInv
<1>9. CASE StatCert
  <2>1. /\ mods'.cert = Mod(path, "cert") /\ mods'.key = mods.key
        /\ pc = "statCert" /\ pc' = "statKey" /\ UNCHANGED <<got, served>>
        /\ "cert" \notin missed' => mods'.cert = got.certMod
    BY <1>9 DEF StatCert, TypeOK
  <2> HIDE DEF Stays
  <2> QED
    BY <1>2, <2>1 DEF BlindInv
<1>10. CASE StatKey
  <2>1. /\ mods'.key = Mod(path, "key") /\ mods'.cert = mods.cert
        /\ pc = "statKey" /\ pc' = "serving"
        /\ served'.cert = got.cert /\ served'.key = got.key
        /\ "key" \notin missed' => mods'.key = got.keyMod
        /\ "cert" \notin missed' => "cert" \notin missed
    BY <1>10 DEF StatKey, TypeOK
  <2> HIDE DEF Stays
  <2> QED
    BY <1>2, <2>1 DEF BlindInv
<1>11. CASE Crash
  <2>1. mods'.cert = 0 /\ mods'.key = 0 /\ pc' = "down" /\ UNCHANGED fileVars
    BY <1>11 DEF Crash, Forgotten, None
  <2>2. \A at \in Places, k \in Kinds : disk'[at][k] # NoFile => disk'[at][k].mod # 0
    BY <2>1 DEF DatesInv, Exists, Mod, fileVars
  <2> QED
    BY <1>1, <2>1, <2>2
<1> QED
  BY <1>5, <1>6, <1>7, <1>8, <1>9, <1>10, <1>11
     DEF Next, Load, Start, MakeSelfSigned, MakeFails, Making, Lookup, LookupFails, Reload,
         RetryDue, SourceDue, Upload, WriteFiles, SaveRow, UploadFails, EditDomain, vars,
         loaderVars, Reading

LEMMA BlindInit == Init => DatesInv /\ PairsInv /\ BlindInv
<1> SUFFICES ASSUME Init PROVE DatesInv /\ PairsInv /\ BlindInv
  OBVIOUS
<1>1. \A at \in Places, k \in Kinds : ~ Exists(at, k) /\ Mod(at, k) = 0
  BY DEF Init, Exists, Mod, NoFile
<1>2. DatesInv
  BY <1>1 DEF Init, DatesInv, None, NoGot
<1>3. PairsInv
  BY DEF Init, PairsInv, Pairs, Starting, Making
<1> QED
  BY <1>1, <1>2, <1>3 DEF Init, BlindInv, Dates, Kinds

(* filesChanged, load: when the loader finds the files as it left them,    *)
(* they hold what it serves, unless one was replaced after it had been     *)
(* read and before its time was taken.                                     *)
THEOREM NoBlindSpotCorrect == Spec => []NoBlindSpot
<1>1. TypeOK /\ BlindInv => NoBlindSpot
  <2> SUFFICES ASSUME TypeOK, BlindInv, pc = "serving", Unchanged(path),
                      NEW k \in Kinds, k \notin missed
               PROVE  served[k] = Content(path, k)
    BY DEF NoBlindSpot
  <2>1. path \in Places /\ Exists(path, k) /\ Mod(path, k) = mods[k]
    BY DEF Unchanged, TypeOK
  <2>2. CASE k = "cert"
    BY <2>1, <2>2 DEF BlindInv, Dates
  <2>3. CASE k = "key"
    BY <2>1, <2>3 DEF BlindInv, Dates
  <2> QED
    BY <2>2, <2>3 DEF Kinds
<1> QED
  BY <1>1, TypeInit, TypeStep, BlindInit, DatesStep, PairsStep, BlindStep, PTL DEF Spec

-----------------------------------------------------------------------------
(* What one write changes.                                                 *)
LEMMA WriteOne ==
  ASSUME TypeOK, NEW at \in Places, NEW k \in Kinds, NEW n, Writes(at, k, n)
  PROVE  \A to \in Places, j \in Kinds :
           IF to = at /\ j = k THEN disk'[to][j].pair = n /\ disk'[to][j] # NoFile
           ELSE disk'[to][j] = disk[to][j]
<1>1. clock' # 0 /\ disk'[at][k] = [pair |-> n, mod |-> clock']
  BY DEF Writes, TypeOK
<1>2. disk'[at][k].pair = n /\ disk'[at][k] # NoFile
  <2>1. disk'[at][k].mod # NoFile.mod
    BY <1>1 DEF NoFile
  <2> QED
    BY <1>1, <2>1
<1>3. \A to \in Places, j \in Kinds : ~ (to = at /\ j = k) => disk'[to][j] = disk[to][j]
  BY DEF Writes, TypeOK
<1> QED
  BY <1>2, <1>3

LEMMA SelfStep == TypeOK /\ PairsInv /\ StartInv /\ [Next]_vars => SelfInv'
<1> SUFFICES ASSUME TypeOK, PairsInv, StartInv, [Next]_vars PROVE SelfInv'
  OBVIOUS
<1> USE DEF SelfInv, StartInv
<1>1. CASE UNCHANGED <<disk, pairs, pc, path, torn>>
  BY <1>1 DEF Exists, Content
<1>2. CASE Start
  <2>1. UNCHANGED <<disk, torn>> /\ pc = "down" /\ pairs \in Nat
    BY <1>2 DEF Start, fileVars, TypeOK
  <2>2. CASE path' = "dom" \/ SelfSigned
    BY <1>2, <2>1, <2>2 DEF Start, SelfSigned, Exists, Content, Kinds
  <2>3. CASE ~ (path' = "dom" \/ SelfSigned)
    <3>1. ~ Exists("self", "key")
      BY <2>3 DEF SelfSigned, Kinds
    <3>2. path' = "self" /\ pairs' = pairs + 1 /\ pc' = "selfCertOpen"
      BY <1>2, <2>3 DEF Start
    <3> QED
      BY <2>1, <3>1, <3>2 DEF Exists, Content
  <2> QED
    BY <2>2, <2>3
<1>3. CASE MakeSelfSigned
  <2> USE DEF Exists, Content, Places, Kinds
  <2>1. UNCHANGED <<pairs, path, torn>> /\ path = "self" /\ pairs # 0
    BY <1>3 DEF MakeSelfSigned, loaderVars
  <2>2. CASE pc = "selfCertOpen"
    <3>1. Writes("self", "cert", 0) /\ pc' = "selfCert"
      BY <1>3, <2>2 DEF MakeSelfSigned
    <3> QED
      BY <2>1, <2>2, <3>1, WriteOne
  <2>3. CASE pc = "selfCert"
    <3>1. Writes("self", "cert", pairs) /\ pc' = "selfKeyOpen"
      BY <1>3, <2>3 DEF MakeSelfSigned
    <3> QED
      BY <2>1, <2>3, <3>1, WriteOne
  <2>4. CASE pc = "selfKeyOpen"
    <3>1. Writes("self", "key", 0) /\ pc' = "selfKey"
      BY <1>3, <2>4 DEF MakeSelfSigned
    <3> QED
      BY <2>1, <2>4, <3>1, WriteOne
  <2>5. CASE pc = "selfKey"
    <3>1. Writes("self", "key", pairs) /\ pc' \in {"firstCert", "off"}
      BY <1>3, <2>5 DEF MakeSelfSigned
    <3>2. disk'["self"]["cert"].pair = pairs /\ disk'["self"]["key"].pair = pairs
          /\ disk'["self"]["cert"] # NoFile /\ disk'["self"]["key"] # NoFile
      BY <2>5, <3>1, WriteOne
    <3> QED
      BY <2>1, <3>1, <3>2 DEF Matches
  <2> QED
    BY <1>3, <2>2, <2>3, <2>4, <2>5 DEF MakeSelfSigned
<1>9. CASE MakeFails
  <2>1. /\ UNCHANGED <<disk, pairs>> /\ pc' = "off" /\ torn \subseteq torn'
        /\ pc = "selfKey" => "self" \in torn'
    BY <1>9 DEF MakeFails, fileVars
  <2> QED
    BY <2>1 DEF Exists, Content
<1>4. CASE \/ ReadCert \/ ReadKey \/ LoadFails \/ StatCert \/ StatKey \/ Lookup \/ LookupFails
           \/ Reload \/ RetryDue \/ SourceDue \/ EditDomain
  <2>1. /\ UNCHANGED <<disk, pairs, torn>>
        /\ UNCHANGED <<pc, path>> \/ pc' \in Reading \union {"serving", "off"}
             \/ (pc = "firstCert" /\ pc' = "firstKey" /\ UNCHANGED path)
        /\ pc \notin {"selfKey", "selfCertOpen", "selfCert", "selfKeyOpen"} \/ UNCHANGED pc
    BY <1>4 DEF ReadCert, ReadKey, LoadFails, StatCert, StatKey, Lookup, LookupFails, Reload,
       RetryDue, SourceDue, EditDomain, fileVars, loaderVars, Reading
  <2> QED
    BY <2>1, <1>1 DEF Exists, Content, Reading
<1>5. ASSUME NEW w \in Writers, Upload(w) \/ SaveRow(w) \/ UploadFails(w) PROVE SelfInv'
  <2>1. CASE SaveRow(w) \/ UploadFails(w)
    BY <1>1, <2>1 DEF SaveRow, UploadFails, fileVars, loaderVars
  <2>2. CASE Upload(w)
    <3>1. UNCHANGED <<disk, pc, path, torn>> /\ pc \notin Starting
      BY <2>2 DEF Upload, Up, PairsInv, fileVars, loaderVars, Starting, Making
    <3> QED
      BY <3>1 DEF Exists, Content, Starting, Making
  <2> QED
    BY <1>5, <2>1, <2>2
<1>6. ASSUME NEW w \in Writers, WriteFiles(w) PROVE SelfInv'
  <2>1. \A j \in Kinds : disk'["self"][j] = disk["self"][j]
    BY <1>6, WriteOne DEF WriteFiles, Places, Kinds
  <2>2. UNCHANGED <<pairs, pc, path>> /\ ("self" \in torn <=> "self" \in torn')
    BY <1>6 DEF WriteFiles, loaderVars
  <2> QED
    BY <2>1, <2>2 DEF Exists, Content, Kinds
<1>7. CASE Crash
  <2>1. /\ UNCHANGED <<disk, pairs>> /\ pc' = "down"
    BY <1>7 DEF Crash, fileVars
  <2>2. pc = "selfKey" => "self" \in torn'
    BY <1>7 DEF Crash
  <2>3. "self" \in torn => "self" \in torn'
    BY <1>7 DEF Crash
  <2> QED
    BY <2>1, <2>2, <2>3 DEF Exists, Content
<1>8. CASE UNCHANGED vars
  BY <1>1, <1>8 DEF vars, fileVars, loaderVars
<1> QED
  BY <1>2, <1>3, <1>4, <1>5, <1>6, <1>7, <1>8, <1>9 DEF Next, Load

LEMMA QuietStep == TypeOK /\ PairsInv /\ StartInv /\ [Next]_vars => QuietInv'
<1> SUFFICES ASSUME TypeOK, PairsInv, StartInv, [Next]_vars PROVE QuietInv'
  OBVIOUS
<1>1. ~ Up' => \A w \in Writers : ~ Writing(w)'
  <2>1. CASE Crash
    BY <2>1 DEF Crash, Writing
  <2>2. CASE UNCHANGED wpc
    <3>1. Up => Up' \/ Crash
      BY <2>2 DEF Next, Load, Start, MakeSelfSigned, MakeFails, ReadCert, ReadKey, LoadFails,
         StatCert, StatKey, Lookup, LookupFails, Reload, RetryDue, SourceDue, Upload, WriteFiles,
         SaveRow,
         UploadFails, EditDomain, vars, loaderVars, Up, PairsInv, Pairs, None
    <3> QED
      BY <2>1, <2>2, <3>1 DEF StartInv, QuietInv, Writing
  <2>3. ASSUME NEW w \in Writers, Upload(w) PROVE Up'
    BY <2>3 DEF Upload, Up, loaderVars
  <2>4. ASSUME NEW w \in Writers, WriteFiles(w) \/ SaveRow(w) \/ UploadFails(w) PROVE Up'
    <3>1. Writing(w) /\ UNCHANGED <<pc, served>>
      BY <2>4 DEF WriteFiles, SaveRow, UploadFails, Step, Writing, loaderVars
    <3> QED
      BY <3>1 DEF StartInv, QuietInv, Up
  <2> QED
    BY <2>1, <2>2, <2>3, <2>4 DEF Next, Load, Start, MakeSelfSigned, MakeFails, ReadCert, ReadKey,
       LoadFails, StatCert, StatKey, Lookup, LookupFails, Reload, RetryDue, SourceDue, EditDomain,
       vars,
       writerVars
<1>2. pc' = "firstKey" => got'.cert = Content(path, "cert")'
  <2>1. CASE ReadCert
    BY <2>1 DEF ReadCert, Content, fileVars, NoGot
  <2>2. CASE pc = "firstKey" /\ ~ ReadCert
    <3>1. \A w \in Writers : ~ Writing(w)
      BY <2>2 DEF StartInv, QuietInv, Up, PairsInv, Starting, Making
    <3>2. ~ \E w \in Writers : WriteFiles(w)
      BY <3>1 DEF WriteFiles, Step, Writing
    <3>3. pc' = "firstKey" => UNCHANGED <<disk, path, got>>
      BY <2>2, <3>2 DEF Next, Load, Start, MakeSelfSigned, MakeFails, ReadKey, LoadFails,
         StatCert, StatKey, Lookup, LookupFails, Reload, RetryDue, SourceDue, Upload, SaveRow,
         UploadFails,
         EditDomain, Crash, vars, fileVars, loaderVars
    <3> QED
      BY <2>2, <3>3 DEF StartInv, QuietInv, Content
  <2>3. CASE pc # "firstKey" /\ ~ ReadCert
    <3>1. pc' # "firstKey"
      BY <2>3 DEF Next, Load, Start, MakeSelfSigned, MakeFails, ReadKey, LoadFails,
         StatCert, StatKey, Lookup, LookupFails, Reload, RetryDue, SourceDue, Upload, WriteFiles,
         SaveRow,
         UploadFails, EditDomain, Crash, vars
    <3> QED
      BY <3>1
  <2> QED
    BY <2>1, <2>2, <2>3
<1> QED
  BY <1>1, <1>2 DEF QuietInv

LEMMA DomStep == TypeOK /\ PairsInv /\ StartInv /\ [Next]_vars => DomInv'
<1> SUFFICES ASSUME TypeOK, PairsInv, StartInv, [Next]_vars PROVE DomInv'
  OBVIOUS
<1> USE DEF StartInv, DomInv
<1>1. ASSUME UNCHANGED <<wpc, pair, clean, row>>, "dom" \in torn <=> "dom" \in torn',
             \A j \in Kinds : disk'["dom"][j] = disk["dom"][j],
             pc' \in {"firstCert", "firstKey"} /\ path' = "dom" => row # "none"
      PROVE  DomInv'
  BY <1>1 DEF Exists, Content, Writing, Kinds
<1>2. CASE \/ Load \/ Lookup \/ LookupFails \/ Reload \/ RetryDue \/ SourceDue \/ UNCHANGED vars
  <2>1. /\ UNCHANGED <<wpc, pair, clean, row, torn, disk>>
        /\ pc' \in {"firstCert", "firstKey"} =>
             pc \in {"firstCert", "firstKey"} /\ UNCHANGED path
    BY <1>2 DEF Load, ReadCert, ReadKey, LoadFails, StatCert, StatKey, Lookup, LookupFails, Reload,
       RetryDue, SourceDue, vars, fileVars, writerVars, loaderVars
  <2> QED
    BY <1>1, <2>1
<1>3. CASE Start
  BY <1>1, <1>3 DEF Start, listed, fileVars, writerVars
<1>4. CASE MakeSelfSigned
  <2>1. \E k \in Kinds, n \in {0, pairs} : Writes("self", k, n)
    BY <1>4 DEF MakeSelfSigned, Kinds
  <2>2. \A j \in Kinds : disk'["dom"][j] = disk["dom"][j]
    BY <2>1, WriteOne DEF Places
  <2> QED
    BY <1>1, <1>4, <2>2 DEF MakeSelfSigned, SelfInv, loaderVars, writerVars
<1>10. CASE MakeFails
  <2>1. /\ UNCHANGED <<wpc, pair, clean, row, disk>> /\ pc' = "off"
        /\ "dom" \in torn <=> "dom" \in torn'
    BY <1>10 DEF MakeFails, fileVars, writerVars
  <2> QED
    BY <1>1, <2>1
<1>5. ASSUME NEW w \in Writers, Upload(w) PROVE DomInv'
  <2> DEFINE others == {v \in Writers : Writing(v)}
  <2>1. /\ wpc[w] = "idle" /\ wpc' = [wpc EXCEPT ![w] = "certOpen"]
        /\ pair' = [pair EXCEPT ![w] = pairs']
        /\ UNCHANGED <<disk, row, pc, path, torn>>
    BY <1>5 DEF Upload, fileVars, loaderVars
  <2>2. clean' = IF others = {} THEN clean \union {w} ELSE clean \ (others \union {w})
    BY <1>5 DEF Upload
  <2>3. \A v \in Writers : (v # w => wpc'[v] = wpc[v] /\ pair'[v] = pair[v])
                             /\ (v = w => wpc'[v] = "certOpen")
    BY <2>1 DEF TypeOK
  <2>4. \A v, u \in Writers :
          u \in clean' /\ wpc'[u] # "idle" /\ wpc'[v] # "idle" => v = u
    BY <2>2, <2>3 DEF Writing
  <2>5. \A v \in Writers : v \in clean' /\ v # w => v \in clean
    BY <2>2
  <2>6. \A v \in Writers : v \in clean' /\ wpc'[v] \in {"keyOpen", "key"} =>
          disk["dom"]["cert"].pair = pair'[v]
    BY <2>3, <2>5 DEF Content
  <2> QED
    BY <2>1, <2>3, <2>4, <2>6 DEF Exists, Content, Writing
<1>6. ASSUME NEW w \in Writers, SaveRow(w) \/ UploadFails(w) PROVE DomInv'
  <2>1. /\ wpc[w] # "idle" /\ wpc' = [wpc EXCEPT ![w] = "idle"]
        /\ pair' = [pair EXCEPT ![w] = 0]
        /\ UNCHANGED <<disk, clean, pc, path, torn>>
        /\ row' = row \/ wpc[w] = "row"
    BY <1>6 DEF SaveRow, UploadFails, Step, Writing, fileVars, loaderVars
  <2>2. \A v \in Writers : (v # w => wpc'[v] = wpc[v] /\ pair'[v] = pair[v])
                             /\ (v = w => wpc'[v] = "idle")
    BY <2>1 DEF TypeOK
  <2>3. pc \notin {"firstCert", "firstKey"}
    BY <2>1 DEF QuietInv, Up, PairsInv, Starting, Making, Writing
  <2> QED
    BY <2>1, <2>2, <2>3 DEF Exists, Content, Writing
<1>7. ASSUME NEW w \in Writers, WriteFiles(w) PROVE DomInv'
  <2>1. /\ wpc[w] # "idle" /\ UNCHANGED <<pair, clean, row, pc, path>>
    BY <1>7 DEF WriteFiles, Step, loaderVars
  <2>2. pc \notin {"firstCert", "firstKey"}
    BY <2>1 DEF QuietInv, Up, PairsInv, Starting, Making, Writing
  <2>3. \A v \in Writers : v \in clean /\ wpc[v] # "idle" => v = w
    BY <2>1 DEF Writing
  <2>4. \A v \in Writers : v # w => wpc'[v] = wpc[v]
    BY <1>7 DEF WriteFiles, Step, TypeOK
  <2>5. w \in Writers /\ pair[w] # 0 /\ pair[w] \in Nat
    BY <2>1 DEF TypeOK
  <2>6. torn' = IF wpc[w] = "key" /\ w \in clean THEN torn \ {"dom"} ELSE torn \union {"dom"}
    BY <1>7 DEF WriteFiles
  <2> USE DEF Exists, Content, Writing, Places, Kinds
  <2>7. CASE Step(w, "certOpen", "cert") /\ Writes("dom", "cert", 0)
    <3>1. wpc[w] = "certOpen" /\ wpc'[w] = "cert" /\ "dom" \in torn'
      BY <2>6, <2>7 DEF Step, TypeOK
    <3> QED
      BY <2>1, <2>2, <2>3, <2>4, <2>7, <3>1, WriteOne
  <2>8. CASE Step(w, "cert", "keyOpen") /\ Writes("dom", "cert", pair[w])
    <3>1. wpc[w] = "cert" /\ wpc'[w] = "keyOpen" /\ "dom" \in torn'
      BY <2>6, <2>8 DEF Step, TypeOK
    <3> QED
      BY <2>1, <2>2, <2>3, <2>4, <2>8, <3>1, WriteOne
  <2>9. CASE Step(w, "keyOpen", "key") /\ Writes("dom", "key", 0)
    <3>1. wpc[w] = "keyOpen" /\ wpc'[w] = "key" /\ "dom" \in torn'
      BY <2>6, <2>9 DEF Step, TypeOK
    <3> QED
      BY <2>1, <2>2, <2>3, <2>4, <2>9, <3>1, WriteOne
  <2>10. CASE Step(w, "key", "row") /\ Writes("dom", "key", pair[w])
    <3>1. wpc[w] = "key" /\ wpc'[w] = "row" /\ ("dom" \notin torn' => w \in clean)
      BY <2>6, <2>10 DEF Step, TypeOK
    <3>2. /\ disk'["dom"]["key"] # NoFile /\ disk'["dom"]["key"].pair = pair[w]
          /\ disk'["dom"]["cert"] = disk["dom"]["cert"]
      BY <2>10, WriteOne
    <3>3. w \in clean => disk'["dom"]["cert"].pair = pair[w]
      BY <3>1, <3>2
    <3> QED
      BY <2>1, <2>2, <2>3, <2>4, <2>5, <3>1, <3>2, <3>3 DEF Matches
  <2> QED
    BY <1>7, <2>7, <2>8, <2>9, <2>10 DEF WriteFiles
<1>8. CASE EditDomain
  <2>1. pc \notin {"firstCert", "firstKey"} /\ row # "none"
    BY <1>8 DEF EditDomain, Up, PairsInv, Starting, Making
  <2> QED
    BY <1>8, <2>1 DEF EditDomain, Exists, Content, Writing, fileVars, writerVars, loaderVars
<1>9. CASE Crash
  <2>1. "dom" \in torn <=> "dom" \in torn'
    BY <1>9 DEF Crash
  <2>2. UNCHANGED <<disk, row>> /\ pc' = "down" /\ \A w \in Writers : wpc'[w] = "idle"
    BY <1>9 DEF Crash, fileVars
  <2> QED
    BY <2>1, <2>2 DEF Exists, Content, Writing
<1> QED
  BY <1>2, <1>3, <1>4, <1>5, <1>6, <1>7, <1>8, <1>9, <1>10 DEF Next

LEMMA StartInit == Init => StartInv
<1> SUFFICES ASSUME Init PROVE StartInv
  OBVIOUS
<1>1. \A at \in Places, k \in Kinds : ~ Exists(at, k)
  BY DEF Init, Exists
<1> QED
  BY <1>1 DEF Init, StartInv, SelfInv, DomInv, QuietInv, Writing, Places, Kinds

(* ensureSelfSignedCert, newTLSCertLoader: a start that does not itself    *)
(* fail to make the self-signed pair goes on without TLS only if a crash, a*)
(* failed write or two administrators at once have left the files it looks *)
(* at half written or mixed.                                               *)
THEOREM StartsWithTLSCorrect == Spec => StartsWithTLS
<1>1. TypeOK /\ StartInv /\ [Next]_vars => (pc # "off" /\ pc' = "off" => pc \in Making \/ path \in torn)
  <2> SUFFICES ASSUME TypeOK, StartInv, [Next]_vars, pc # "off", pc' = "off", pc \notin Making,
                      path \notin torn
               PROVE  FALSE
    OBVIOUS
  <2>1. LoadFails /\ pc = "firstKey"
    BY DEF Next, Load, Start, MakeSelfSigned, MakeFails, Making, ReadCert, ReadKey, LoadFails,
       StatCert, StatKey, Lookup, LookupFails, Reload, RetryDue, SourceDue, Upload, WriteFiles,
       SaveRow, UploadFails,
       EditDomain, Crash, vars
  <2>2. ~ Matches(Content(path, "cert"), Content(path, "key"))
    BY <2>1 DEF LoadFails, StartInv, QuietInv
  <2>3. path = "self" \/ path = "dom"
    BY DEF TypeOK, Places
  <2> QED
    BY <2>1, <2>2, <2>3 DEF StartInv, SelfInv, DomInv
<1>2. TypeOK /\ PairsInv /\ StartInv /\ [Next]_vars => StartInv'
  BY SelfStep, DomStep, QuietStep DEF StartInv
<1>3. Init => PairsInv
  BY DEF Init, PairsInv, Pairs, Starting, Making
<1> QED
  BY <1>1, <1>2, <1>3, TypeInit, TypeStep, PairsStep, StartInit, PTL DEF Spec, StartsWithTLS
=============================================================================
