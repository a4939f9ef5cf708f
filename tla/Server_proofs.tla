--------------------------- MODULE Server_proofs ----------------------------
(***************************************************************************)
(* Theorems about what the server keeps between requests: the upload       *)
(* tokens, the sessions, the results of the scanners that the scans of all *)
(* sessions share, and the channels of a scan's event broker.  They hold   *)
(* for any number of requests, uploads, sessions, scans, publishers and    *)
(* events.                                                                 *)
(*                                                                         *)
(* Each component has constants, variables and a specification of its own  *)
(* (TokensSpec, StoreSpec, SharedSpec, BrokerSpec), and the theorems about *)
(* one do not mention the others.                                          *)
(***************************************************************************)
EXTENDS UploadTokens, SessionStore, SharedScanners, Broker, TLAPS

-----------------------------------------------------------------------------
(* Upload tokens.                                                          *)

(* An upload gets its entry at the end of its handler, and a scan gets     *)
(* what leaves the maps.                                                   *)
Passed ==
  /\ \A u \in tokens : upload[u] = "registered"
  /\ \A r \in Scan : \A u \in granted[r] : upload[u] = "registered" /\ u \notin tokens
  /\ \A r \in Scan : scan[r] = "idle" => granted[r] = {}

(* What the cleanup loop takes for expired is so, also when a scan is      *)
(* quicker.                                                                *)
StaleIsLate ==
  /\ \A u \in stale : upload[u] = "registered"
  /\ \A u \in stale \cap tokens : age[u] > TTL
  /\ \A r \in Scan : stale \cap granted[r] \subseteq late

(* The loop removes expired entries only, the file before the entry.       *)
Removing ==
  /\ cleaner \in {"removing", "deleting"} => victim \in stale
  /\ cleaner = "deleting" => victim \notin file

(* A file is there while its handler works on it, and that of an entry     *)
(* until the loop removes it.                                              *)
EntryHasFile ==
  /\ \A u \in Upload \ QPS : upload[u] = "receiving" => u \in file
  /\ \A u \in tokens \ QPS : u \in file \/ (cleaner = "deleting" /\ u = victim)

Inv ==
  /\ TypeOK
  /\ Passed
  /\ StaleIsLate
  /\ Removing
  /\ EntryHasFile
  /\ FileThere
  /\ TakenOnce
  /\ Owned

LEMMA InvInit == TokensInit => Inv
  BY UploadAssumption, SMT
  DEF TokensInit, Inv, TypeOK, Passed, StaleIsLate, Removing, EntryHasFile, FileThere,
      TakenOnce, Owned, Upload

(* Every step keeps the types.                                             *)
LEMMA TypeStep == TypeOK /\ [TokensNext]_tokenVars => TypeOK'
<1> SUFFICES ASSUME TypeOK, [TokensNext]_tokenVars PROVE TypeOK'
  OBVIOUS
<1> USE UploadAssumption
<1>1. ASSUME NEW u \in Upload, Receive(u) \/ HandlerStep(u) PROVE TypeOK'
  BY <1>1 DEF TypeOK, Receive, HandlerStep, Refuse, Register, cleanerVars, scanVars, Upload
<1>2. CASE TimePasses
  <2>1. age' \in [Upload -> 0 .. TTL + 1]
    BY <1>2 DEF TypeOK, TimePasses
  <2> QED
    BY <1>2, <2>1 DEF TypeOK, TimePasses, cleanerVars, scanVars
<1>3. ASSUME NEW r \in Scan, NEW asked \in Requests, RequestScan(r, asked) PROVE TypeOK'
  <2>1. asked \subseteq Upload
    BY DEF Requests
  <2> QED
    BY <1>3, <2>1 DEF TypeOK, RequestScan, uploadVars, cleanerVars
<1>4. ASSUME NEW r \in Scan, NEW u \in Upload, Resolve(r, u) PROVE TypeOK'
  <2>1. wanted' \in [Scan -> SUBSET Upload]
    BY <1>4 DEF TypeOK, Resolve
  <2>2. granted' \in [Scan -> SUBSET Upload] /\ late' \subseteq Upload
    BY <1>4 DEF TypeOK, Resolve
  <2>3. age' \in [Upload -> 0 .. TTL + 1] /\ tokens' \subseteq Upload
    BY <1>4 DEF TypeOK, Resolve
  <2> QED
    BY <1>4, <2>1, <2>2, <2>3 DEF TypeOK, Resolve, cleanerVars
<1>5. ASSUME NEW r \in Scan, Launch(r) \/ EndScan(r) PROVE TypeOK'
  BY <1>5 DEF TypeOK, Launch, EndScan, uploadVars, cleanerVars
<1>6. CASE Tick \/ EndRange
  BY <1>6 DEF TypeOK, Tick, EndRange, uploadVars, scanVars
<1>7. ASSUME NEW u \in Upload, Visit(u) PROVE TypeOK'
  BY <1>7 DEF TypeOK, Visit, uploadVars, scanVars
<1>8. CASE RemoveFile \/ DeleteEntry
  BY <1>8 DEF TypeOK, RemoveFile, DeleteEntry, uploadVars, scanVars
<1>9. CASE UNCHANGED tokenVars
  BY <1>9 DEF TypeOK, tokenVars, uploadVars, cleanerVars, scanVars
<1> QED
  BY <1>1, <1>2, <1>3, <1>4, <1>5, <1>6, <1>7, <1>8, <1>9
  DEF TokensNext, ScanStep, CleanerStep, HandlerStep

(* Every step keeps the invariant.                                         *)
LEMMA InvStep == Inv /\ [TokensNext]_tokenVars => Inv'
<1> SUFFICES ASSUME Inv, [TokensNext]_tokenVars PROVE Inv'
  OBVIOUS
<1> USE UploadAssumption DEF Inv
<1>0. TypeOK'
  BY TypeStep
<1>1. ASSUME NEW u \in Upload, Receive(u) PROVE Inv'
  <2>1. /\ u \notin tokens /\ u \notin stale
        /\ \A r \in Scan : u \notin granted[r]
    BY <1>1 DEF Receive, Passed, StaleIsLate
  <2>2. Passed' /\ StaleIsLate' /\ TakenOnce'
    BY <1>1, <2>1 DEF Receive, Passed, StaleIsLate, TakenOnce, TypeOK, cleanerVars, scanVars
  <2>3. Removing' /\ EntryHasFile' /\ FileThere'
    BY <1>1, <2>1 DEF Receive, Removing, EntryHasFile, FileThere, cleanerVars, scanVars
  <2>4. Owned'
    BY <1>1 DEF Receive, Owned, TypeOK, scanVars
  <2> QED
    BY <1>0, <2>2, <2>3, <2>4
<1>2. ASSUME NEW u \in Upload, HandlerStep(u) PROVE Inv'
  <2>1. /\ u \notin tokens /\ u \notin stale
        /\ \A r \in Scan : u \notin granted[r]
    BY <1>2 DEF HandlerStep, Refuse, Register, Passed, StaleIsLate
  <2>2. Passed' /\ StaleIsLate' /\ TakenOnce'
    BY <1>2, <2>1 DEF HandlerStep, Refuse, Register, Passed, StaleIsLate, TakenOnce, TypeOK,
                      cleanerVars, scanVars
  <2>3. Removing' /\ FileThere'
    BY <1>2, <2>1 DEF HandlerStep, Refuse, Register, Removing, FileThere, cleanerVars, scanVars
  <2>4. EntryHasFile' /\ Owned'
    BY <1>2, <2>1 DEF HandlerStep, Refuse, Register, EntryHasFile, Owned, TypeOK,
                      cleanerVars, scanVars
  <2> QED
    BY <1>0, <2>2, <2>3, <2>4
<1>3. CASE TimePasses
  <2>1. StaleIsLate'
    BY <1>3 DEF TimePasses, StaleIsLate, TypeOK, cleanerVars, scanVars
  <2>2. Passed' /\ Removing' /\ EntryHasFile' /\ FileThere' /\ TakenOnce' /\ Owned'
    BY <1>3 DEF TimePasses, Passed, Removing, EntryHasFile, FileThere, TakenOnce, Owned,
                cleanerVars, scanVars
  <2> QED
    BY <1>0, <2>1, <2>2
<1>4. ASSUME NEW r \in Scan, NEW asked \in Requests, RequestScan(r, asked) PROVE Inv'
  <2>1. Passed' /\ StaleIsLate' /\ Removing' /\ EntryHasFile' /\ TakenOnce'
    BY <1>4 DEF RequestScan, Passed, StaleIsLate, Removing, EntryHasFile, TakenOnce, TypeOK,
                uploadVars, cleanerVars
  <2>2. FileThere' /\ Owned'
    BY <1>4 DEF RequestScan, Passed, FileThere, Owned, TypeOK, uploadVars
  <2> QED
    BY <1>0, <2>1, <2>2
<1>5. ASSUME NEW r \in Scan, NEW u \in Upload, Resolve(r, u), u \notin tokens PROVE Inv'
  BY <1>0, <1>5 DEF Resolve, Passed, StaleIsLate, Removing, EntryHasFile, FileThere, TakenOnce,
                    Owned, TypeOK, cleanerVars
<1>6. ASSUME NEW r \in Scan, NEW u \in Upload, Resolve(r, u), u \in tokens PROVE Inv'
  <2>1. /\ granted' = [granted EXCEPT ![r] = @ \cup {u}]
        /\ tokens' = tokens \ {u}
        /\ late' = IF age[u] > TTL THEN late \cup {u} ELSE late
        /\ scan[r] = "resolving"
        /\ UNCHANGED <<upload, file, cleanerVars, scan>>
    BY <1>6 DEF Resolve
  <2>2. \A q \in Scan : u \notin granted[q]
    BY <1>6 DEF Passed
  <2>3. Passed' /\ TakenOnce'
    BY <1>6, <2>1, <2>2 DEF Passed, TakenOnce, TypeOK
  <2>4. \A v \in Upload \ {u} : age'[v] = age[v]
    BY <1>6 DEF Resolve, TypeOK
  <2>5. StaleIsLate'
    BY <1>6, <2>1, <2>4 DEF StaleIsLate, TypeOK, cleanerVars
  <2>6. Removing' /\ EntryHasFile'
    BY <2>1 DEF Removing, EntryHasFile, cleanerVars
  <2>7. u \in QPS \/ u \in file \/ u \in late'
    BY <1>6, <2>1 DEF EntryHasFile, Removing, StaleIsLate
  <2>8. FileThere'
    BY <2>1, <2>7 DEF FileThere, TypeOK
  <2>9. Owned'
    BY <1>6, <2>1 DEF Owned, TypeOK
  <2> QED
    BY <1>0, <2>3, <2>5, <2>6, <2>8, <2>9
<1>7. ASSUME NEW r \in Scan, Launch(r) PROVE Inv'
  BY <1>0, <1>7 DEF Launch, Passed, StaleIsLate, Removing, EntryHasFile, FileThere, TakenOnce,
                    Owned, TypeOK, uploadVars, cleanerVars
<1>8. ASSUME NEW r \in Scan, EndScan(r) PROVE Inv'
  <2>1. Passed' /\ StaleIsLate' /\ Removing' /\ TakenOnce'
    BY <1>8 DEF EndScan, Passed, StaleIsLate, Removing, TakenOnce, TypeOK, uploadVars, cleanerVars
  <2>2. EntryHasFile'
    BY <1>8 DEF EndScan, Passed, EntryHasFile, uploadVars, cleanerVars
  <2>3. FileThere'
    BY <1>8 DEF EndScan, TakenOnce, FileThere, TypeOK
  <2>4. Owned'
    BY <1>8 DEF EndScan, Owned, TypeOK, uploadVars
  <2> QED
    BY <1>0, <2>1, <2>2, <2>3, <2>4
<1>9. CASE Tick
  BY <1>0, <1>9 DEF Tick, Passed, StaleIsLate, Removing, EntryHasFile, FileThere, TakenOnce,
                    Owned, TypeOK, uploadVars, scanVars
<1>10. ASSUME NEW u \in Upload, Visit(u) PROVE Inv'
  BY <1>0, <1>10 DEF Visit, Passed, StaleIsLate, Removing, EntryHasFile, FileThere, TakenOnce,
                     Owned, TypeOK, uploadVars, scanVars
<1>11. CASE RemoveFile
  <2>1. Passed' /\ StaleIsLate' /\ Removing' /\ TakenOnce' /\ Owned'
    BY <1>11 DEF RemoveFile, Passed, StaleIsLate, Removing, TakenOnce, Owned, uploadVars, scanVars
  <2>2. EntryHasFile'
    BY <1>11 DEF RemoveFile, Removing, StaleIsLate, EntryHasFile, TypeOK, uploadVars
  <2>3. FileThere'
    BY <1>11 DEF RemoveFile, Removing, StaleIsLate, FileThere, scanVars
  <2> QED
    BY <1>0, <2>1, <2>2, <2>3
<1>12. CASE DeleteEntry
  <2>1. \A u \in Upload \ {victim} : age'[u] = age[u]
    BY <1>12 DEF DeleteEntry, TypeOK
  <2>2. Passed' /\ StaleIsLate' /\ Removing' /\ TakenOnce'
    BY <1>12, <2>1 DEF DeleteEntry, Passed, StaleIsLate, Removing, TakenOnce, TypeOK, scanVars
  <2>3. EntryHasFile' /\ FileThere' /\ Owned'
    BY <1>12 DEF DeleteEntry, Removing, EntryHasFile, FileThere, Owned, scanVars
  <2> QED
    BY <1>0, <2>2, <2>3
<1>13. CASE EndRange
  BY <1>0, <1>13 DEF EndRange, Passed, StaleIsLate, Removing, EntryHasFile, FileThere, TakenOnce,
                     Owned, uploadVars, scanVars
<1>14. CASE UNCHANGED tokenVars
  BY <1>0, <1>14 DEF tokenVars, Passed, StaleIsLate, Removing, EntryHasFile, FileThere, TakenOnce,
                     Owned, uploadVars, cleanerVars, scanVars
<1> QED
  BY <1>1, <1>2, <1>3, <1>4, <1>5, <1>6, <1>7, <1>8, <1>9, <1>10, <1>11, <1>12, <1>13, <1>14
  DEF TokensNext, ScanStep, CleanerStep

LEMMA Invariance == TokensSpec => []Inv
  BY InvInit, InvStep, PTL DEF TokensSpec

(* The maps, the files and the loop of the server keep their types.        *)
THEOREM TypeCorrect == TokensSpec => []TypeOK
<1>1. Inv => TypeOK
  BY DEF Inv
<1> QED
  BY <1>1, Invariance, PTL

(* HandleStartScan and the cleanup loop: a scan that took its token in     *)
(* time has its file while it runs.                                        *)
THEOREM ScanHasFile == TokensSpec => []FileThere
<1>1. Inv => FileThere
  BY DEF Inv
<1> QED
  BY <1>1, Invariance, PTL

(* toOrchestratorProviders: however often a token is sent, one scan gets   *)
(* the upload.                                                             *)
THEOREM OneScanPerToken == TokensSpec => []TakenOnce
<1>1. Inv => TakenOnce
  BY DEF Inv
<1> QED
  BY <1>1, Invariance, PTL

(* The upload handlers, the maps and the scans: no temporary file is left  *)
(* without an owner, but for EfficientIP backups that a scan has taken.    *)
THEOREM FilesAreOwned == TokensSpec => []Owned
<1>1. Inv => Owned
  BY DEF Inv
<1> QED
  BY <1>1, Invariance, PTL

-----------------------------------------------------------------------------
(* Sessions.                                                               *)

Serving  == {"validated", "storing", "growing", "grown", "stored"}
Choosing == {"storing", "growing", "grown", "stored", "starting", "cloned"}
Pointer  == Struct \cup {Nil, Blank}
Cookie   == Session \cup {NoSession}

HandlerPlaces   == {"idle", "validated"} \cup Choosing

HandlerState ==
  [at : HandlerPlaces, sess : Cookie, cookie : Cookie,
   key : Key \cup {NoKey}, seen : [1 .. MaxForests -> Pointer]]

RunState ==
  [at : {"none", "launched", "running", "done"}, sess : Cookie, used : [Key -> Pointer]]

SessionsTyped ==
  /\ state \in [Session -> {"absent", "created", "scanning", "complete"}]
  /\ creds \in [Session -> [Key -> Pointer]]
  /\ heap \in [Struct -> Struct \cup {Nil}]
  /\ cookie \in Cookie
  /\ handler \in [Handler -> HandlerState]
  /\ run \in [Run -> RunState]
  /\ stored \in [Session -> SUBSET Key]
  /\ told \subseteq Key
  /\ raced \in BOOLEAN
  /\ covered \in [Run -> SUBSET Key]

(* The session of a cookie, of a handler or of a scan is in the store, and *)
(* a handler has the key its place is about.                               *)
IsThere(s) == s \in Session /\ state[s] # "absent"

Present ==
  /\ cookie # NoSession => IsThere(cookie)
  /\ \A h \in Handler :
       /\ handler[h].cookie # NoSession => IsThere(handler[h].cookie)
       /\ handler[h].at \in Choosing => IsThere(handler[h].sess)
       /\ handler[h].at \in {"growing", "grown"} =>
            handler[h].key \in Key /\ handler[h].key[2] > 0
       /\ handler[h].at = "stored" => handler[h].key \in Key
  /\ \A r \in Run : run[r].at \in {"launched", "running"} => IsThere(run[r].sess)
  /\ \A s \in Session : stored[s] # {} => IsThere(s)

(* A struct in use holds what it was allocated for.                        *)
Allocated ==
  /\ \A c \in Struct : heap[c] \in {Nil, c}
  /\ \A s \in Session, k \in Key :
       creds[s][k] \in Struct => heap[creds[s][k]] = creds[s][k]
  /\ \A h \in Handler, i \in 1 .. MaxForests :
       handler[h].seen[i] \in Struct => heap[handler[h].seen[i]] = handler[h].seen[i]

(* Unless requests raced, at most one is about an additional forest, and   *)
(* the slice it has loaded is the one that is still there.                 *)
ForestBusy(h) == handler[h].at \in Serving /\ handler[h].key[2] > 0

ForestsAlone ==
  ~ raced =>
    /\ \A g, h \in Handler : ForestBusy(g) /\ ForestBusy(h) => g = h
    /\ \A h \in Handler : handler[h].at = "growing" =>
         handler[h].seen = Slots(handler[h].sess)

(* What a handler has stored is still a struct, and so is what a finished  *)
(* one has.                                                                *)
IsKept(s, k) == k[2] = 0 \/ ~ raced => creds[s][k] \in Struct

StoredKept ==
  /\ \A s \in Session : \A k \in stored[s] : IsKept(s, k)
  /\ \A h \in Handler :
       handler[h].at = "stored" => IsKept(handler[h].sess, handler[h].key)
  /\ \A r \in Run : run[r].at = "launched" => covered[r] \subseteq stored[run[r].sess]

(* As long as no scan was started and nothing raced, requests that are     *)
(* served have the browser's cookie and its session; the first is alone.   *)
Calm == ~ raced /\ \A s \in Session : state[s] \in {"absent", "created"}

OneSession ==
  /\ ~ raced =>
       /\ told # {} => cookie # NoSession
       /\ \A h \in Handler : handler[h].cookie # NoSession => cookie # NoSession
  /\ Calm =>
       /\ \A h \in Handler : handler[h].at # "cloned"
       /\ cookie = NoSession =>
            \A g, h \in Handler : handler[g].at \in Serving /\ handler[h].at \in Serving => g = h
       /\ \A h \in Handler : handler[h].at \in Serving =>
            /\ handler[h].cookie = cookie
            /\ cookie # NoSession /\ handler[h].at # "validated"
                 => handler[h].sess = cookie

(* The invariant: the two properties, and what they rest on.               *)
SessionsInv ==
  /\ SessionsTyped /\ Present /\ Allocated /\ ForestsAlone /\ StoredKept /\ OneSession
  /\ ScanUsesStored /\ KeptInOneSession

(* Pointers to allocated structs are none of the other ones, and a key is  *)
(* about the primary or about an additional forest.                        *)
LEMMA PointerParts ==
  Nil \notin Struct /\ Blank \notin Struct /\ Nil # Blank
  BY SessionStoreAssumption DEF Nil, Blank, Struct

LEMMA KeyParts ==
  /\ \A k \in Key :
       /\ k[2] \in Nat
       /\ k[2] # 0 => k[2] \in 1 .. MaxForests /\ k = <<AD, k[2]>>
  /\ \A i \in 1 .. MaxForests : <<AD, i>> \in Key /\ i # 0
  /\ NoKey \notin Key /\ NoKey[2] \in Nat \ {0}
  /\ NoSession \notin Session
  BY SessionStoreAssumption DEF Key, NoKey, NoSession, Session

LEMMA HandlerTyped ==
  ASSUME NEW f \in [Handler -> HandlerState], NEW h \in Handler, NEW a \in HandlerPlaces
  PROVE  /\ [f EXCEPT ![h].at = a] \in [Handler -> HandlerState]
         /\ \A s \in Cookie : [f EXCEPT ![h].at = a, ![h].sess = s] \in [Handler -> HandlerState]
         /\ \A c \in Cookie :
              [f EXCEPT ![h].at = a, ![h].cookie = c] \in [Handler -> HandlerState]
         /\ \A n \in [1 .. MaxForests -> Pointer] :
              [f EXCEPT ![h].at = a, ![h].seen = n] \in [Handler -> HandlerState]
<1> DEFINE Keys == Key \cup {NoKey}
           Seen == [1 .. MaxForests -> Pointer]
<1>1. HandlerState = [at : HandlerPlaces, sess : Cookie, cookie : Cookie, key : Keys, seen : Seen]
  BY DEF HandlerState
<1> HIDE DEF Keys
<1>2. [f EXCEPT ![h].at = a] \in [Handler -> HandlerState]
  BY <1>1
<1>3. ASSUME NEW s \in Cookie
      PROVE  [f EXCEPT ![h].at = a, ![h].sess = s] \in [Handler -> HandlerState]
  BY <1>1
<1>4. ASSUME NEW c \in Cookie
      PROVE  [f EXCEPT ![h].at = a, ![h].cookie = c] \in [Handler -> HandlerState]
  BY <1>1
<1>5. ASSUME NEW n \in Seen
      PROVE  [f EXCEPT ![h].at = a, ![h].seen = n] \in [Handler -> HandlerState]
  <2> HIDE DEF Seen
  <2> QED
    BY <1>1
<1> QED
  BY <1>2, <1>3, <1>4, <1>5

LEMMA SessionsTypedStep ==
  SessionsTyped /\ Present /\ [StoreNext]_storeVars => SessionsTyped'
<1> SUFFICES ASSUME SessionsTyped /\ Present, [StoreNext]_storeVars
             PROVE  SessionsTyped'
  OBVIOUS
<1> USE DEF SessionsTyped, Pointer, Cookie, Choosing, HandlerPlaces, HandlerState, RunState,
      Present, IsThere
<1>1. ASSUME NEW h \in Handler, NEW k \in Key, Validate(h, k)
      PROVE  SessionsTyped'
  BY <1>1, KeyParts DEF Validate, Idle
<1>2. ASSUME NEW h \in Handler, UploadBackup(h) PROVE SessionsTyped'
  <2> HIDE DEF HandlerState, RunState, Pointer, Cookie
  <2>1. handler' \in [Handler -> HandlerState]
    BY <1>2, HandlerTyped, ZenonT(30) DEF UploadBackup
  <2> QED
    BY <1>2, <2>1 DEF UploadBackup
<1>3. ASSUME NEW h \in Handler, ChooseSession(h) PROVE SessionsTyped'
  <2>1. PICK s \in Session :
          /\ handler' = [handler EXCEPT ![h].at = "storing", ![h].sess = s]
          /\ state' \in {state, [state EXCEPT ![s] = "created"]}
    BY <1>3 DEF ChooseSession, Present, IsThere
  <2>a. s \in Cookie
    OBVIOUS
  <2> HIDE DEF HandlerState, RunState, Pointer, Cookie
  <2>2. handler' \in [Handler -> HandlerState]
    BY <2>1, <2>a, HandlerTyped, ZenonT(30)
  <2>3. state' \in [Session -> {"absent", "created", "scanning", "complete"}]
    BY <2>1
  <2> QED
    BY <1>3, <2>2, <2>3 DEF ChooseSession
<1>4. ASSUME NEW h \in Handler, StoreCredentials(h) PROVE SessionsTyped'
  <2>2. PICK c \in Struct :
          /\ heap' = [heap EXCEPT ![c] = c]
          /\ creds' = [creds EXCEPT ![handler[h].sess][handler[h].key] = c]
    BY <1>4 DEF StoreCredentials
  <2>3. creds' \in [Session -> [Key -> Pointer]]
    BY <1>4, <2>2
  <2>4. heap' \in [Struct -> Struct \cup {Nil}]
    BY <2>2
  <2> HIDE DEF HandlerState, RunState, Pointer, Cookie
  <2>1. handler' \in [Handler -> HandlerState]
    BY <1>4, HandlerTyped, ZenonT(30) DEF StoreCredentials
  <2> QED
    BY <1>4, <2>1, <2>3, <2>4 DEF StoreCredentials
<1>5. ASSUME NEW h \in Handler, LoadForests(h) PROVE SessionsTyped'
  <2>1. Slots(handler[h].sess) \in [1 .. MaxForests -> Pointer]
    BY <1>5, KeyParts DEF LoadForests, Slots, Present, IsThere
  <2> HIDE DEF HandlerState, RunState, Pointer, Cookie
  <2>2. handler' \in [Handler -> HandlerState]
    BY <1>5, <2>1, HandlerTyped DEF LoadForests
  <2> QED
    BY <1>5, <2>2 DEF LoadForests
<1>6. ASSUME NEW h \in Handler, GrowForests(h) PROVE SessionsTyped'
  <2>1. NoForests \in [1 .. MaxForests -> Pointer]
    BY DEF NoForests
  <2>2. ASSUME NEW slots \in [1 .. MaxForests -> Pointer], NEW n
        PROVE  Grown(slots, n) \in [1 .. MaxForests -> Pointer]
    BY DEF Grown
  <2>3. ASSUME NEW old \in [Key -> Pointer], NEW slots \in [1 .. MaxForests -> Pointer]
        PROVE  WithSlots(old, slots) \in [Key -> Pointer]
    BY KeyParts DEF WithSlots
  <2>4. handler[h].seen \in [1 .. MaxForests -> Pointer]
    OBVIOUS
  <2> HIDE DEF HandlerState, RunState, Pointer, Cookie
  <2>5. creds' \in [Session -> [Key -> Pointer]]
    <3> DEFINE longer == Grown(handler[h].seen, handler[h].key[2])
    <3>1. longer \in [1 .. MaxForests -> Pointer]
      BY <2>2, <2>4
    <3> HIDE DEF longer
    <3>2. ASSUME NEW s \in Session
          PROVE  [creds EXCEPT ![s] = WithSlots(@, longer)]
                 \in [Session -> [Key -> Pointer]]
      BY <2>3, <3>1
    <3>3. \/ creds' = creds
          \/ creds' = [creds EXCEPT ![handler[h].sess] = WithSlots(@, longer)]
      BY <1>6 DEF GrowForests, longer
    <3> QED
      BY <1>6, <3>2, <3>3 DEF GrowForests, Present, IsThere
  <2>6. handler' \in [Handler -> HandlerState]
    BY <1>6, <2>1, HandlerTyped DEF GrowForests
  <2> QED
    BY <1>6, <2>5, <2>6 DEF GrowForests
<1>7. ASSUME NEW h \in Handler, StoreForest(h) PROVE SessionsTyped'
  <2>2. PICK c \in Struct :
          /\ heap' = [heap EXCEPT ![c] = c]
          /\ creds' = [creds EXCEPT ![handler[h].sess][handler[h].key] = c]
    BY <1>7 DEF StoreForest
  <2>3. creds' \in [Session -> [Key -> Pointer]]
    BY <1>7, <2>2
  <2>4. heap' \in [Struct -> Struct \cup {Nil}]
    BY <2>2
  <2> HIDE DEF HandlerState, RunState, Pointer, Cookie
  <2>1. handler' \in [Handler -> HandlerState]
    BY <1>7, HandlerTyped, ZenonT(30) DEF StoreForest
  <2> QED
    BY <1>7, <2>1, <2>3, <2>4 DEF StoreForest
<1>8. ASSUME NEW h \in Handler, PanicOnForest(h) PROVE SessionsTyped'
  BY <1>8, KeyParts DEF PanicOnForest, Idle, NoForests
<1>9. ASSUME NEW h \in Handler, Answer(h) PROVE SessionsTyped'
  BY <1>9, KeyParts DEF Answer, Idle, NoForests
<1>10. ASSUME NEW h \in Handler, NEW s \in Session, CheckState(h, s)
       PROVE  SessionsTyped'
  BY <1>10, KeyParts DEF CheckState, Idle, NoForests
<1>11. ASSUME NEW h \in Handler, LaunchScan(h) PROVE SessionsTyped'
  <2>1. handler' \in [Handler -> HandlerState]
    BY <1>11 DEF LaunchScan, Idle, NoForests
  <2>2. run' \in [Run -> RunState]
    BY <1>11 DEF LaunchScan, NoCreds
  <2> HIDE DEF HandlerState, RunState, Pointer, Cookie
  <2>3. state' \in [Session -> {"absent", "created", "scanning", "complete"}]
    BY <1>11 DEF LaunchScan
  <2>4. covered' \in [Run -> SUBSET Key]
    BY <1>11 DEF LaunchScan, Present, IsThere, Choosing
  <2> QED
    BY <1>11, <2>1, <2>2, <2>3, <2>4 DEF LaunchScan
<1>12. ASSUME NEW h \in Handler, Clone(h) PROVE SessionsTyped'
  <2>1. PICK s \in Session :
          /\ state' = [state EXCEPT ![s] = "created"]
          /\ creds' = [creds EXCEPT ![s] = Cloned(creds[cookie])]
          /\ stored' = [stored EXCEPT ![s] = {k \in stored[cookie] : k[2] = 0}]
          /\ handler' = [handler EXCEPT ![h] =
                           [Idle EXCEPT !.at = "cloned", !.sess = s, !.cookie = cookie]]
    BY <1>12 DEF Clone
  <2>2. handler' \in [Handler -> HandlerState]
    BY <2>1 DEF Idle, NoForests
  <2>3. Cloned(creds[cookie]) \in [Key -> Pointer]
    BY <1>12 DEF Clone, Cloned
  <2> HIDE DEF HandlerState, RunState, Pointer, Cookie
  <2>4. /\ state' \in [Session -> {"absent", "created", "scanning", "complete"}]
        /\ creds' \in [Session -> [Key -> Pointer]]
    BY <2>1, <2>3
  <2>5. stored' \in [Session -> SUBSET Key]
    BY <1>12, <2>1 DEF Clone, Present, IsThere
  <2> QED
    BY <1>12, <2>2, <2>4, <2>5 DEF Clone
<1>13. ASSUME NEW h \in Handler, AnswerClone(h) PROVE SessionsTyped'
  BY <1>13, KeyParts DEF AnswerClone, Idle, NoForests
<1>14. ASSUME NEW r \in Run, CopyCredentials(r) PROVE SessionsTyped'
  <2>1. [k \in Key |->
           LET c == creds[run[r].sess][k] IN IF c \in Struct THEN heap[c] ELSE c]
             \in [Key -> Pointer]
    BY <1>14 DEF CopyCredentials, Present, IsThere
  <2> HIDE DEF HandlerState, Pointer, Cookie
  <2>2. run' \in [Run -> RunState]
    BY <1>14, <2>1, ZenonT(30) DEF CopyCredentials
  <2> HIDE DEF RunState
  <2> QED
    BY <1>14, <2>2 DEF CopyCredentials
<1>15. ASSUME NEW r \in Run, FinishScan(r) PROVE SessionsTyped'
  <2>a. [at |-> "done", sess |-> NoSession, used |-> NoCreds] \in RunState
    BY DEF NoCreds
  <2> HIDE DEF HandlerState, RunState, Pointer, Cookie
  <2>1. run' \in [Run -> RunState]
    BY <1>15, <2>a DEF FinishScan
  <2>2. state' \in [Session -> {"absent", "created", "scanning", "complete"}]
    BY <1>15 DEF FinishScan
  <2>3. covered' \in [Run -> SUBSET Key]
    BY <1>15 DEF FinishScan
  <2> QED
    BY <1>15, <2>1, <2>2, <2>3 DEF FinishScan
<1>16. CASE ExpireCookie
  BY <1>16 DEF ExpireCookie
<1>17. CASE UNCHANGED storeVars
  BY <1>17 DEF storeVars
<1> HIDE DEF SessionsTyped, Pointer, Cookie, Choosing, HandlerPlaces, HandlerState, RunState,
      Present, IsThere
<1> QED
  BY <1>1, <1>2, <1>3, <1>4, <1>5, <1>6, <1>7, <1>8, <1>9, <1>10, <1>11, <1>12, <1>13, <1>14,
     <1>15, <1>16, <1>17 DEF StoreNext, Step

LEMMA PresentStep ==
  SessionsTyped /\ Present /\ [StoreNext]_storeVars => Present'
<1> SUFFICES ASSUME SessionsTyped /\ Present, [StoreNext]_storeVars
             PROVE  Present'
  OBVIOUS
<1> USE DEF SessionsTyped, Pointer, Cookie, Choosing, HandlerPlaces, HandlerState, RunState,
      Present, IsThere
<1>1. ASSUME NEW h \in Handler, NEW k \in Key, Validate(h, k) PROVE Present'
  BY <1>1, KeyParts DEF Validate, Idle
<1>2. ASSUME NEW h \in Handler, UploadBackup(h) PROVE Present'
  BY <1>2, KeyParts DEF UploadBackup, Idle
<1>3. ASSUME NEW h \in Handler, ChooseSession(h) PROVE Present'
  <2>1. PICK s \in Session :
          /\ handler' = [handler EXCEPT ![h].at = "storing", ![h].sess = s]
          /\ \/ state' = state /\ state[s] # "absent"
             \/ state' = [state EXCEPT ![s] = "created"]
    BY <1>3 DEF ChooseSession
  <2>2. UNCHANGED <<cookie, run>>
    BY <1>3 DEF ChooseSession
  <2>3. \A t : IsThere(t) => IsThere(t)'
    BY <2>1
  <2>4. IsThere(s)'
    BY <2>1
  <2>5. \A g \in Handler \ {h} : handler'[g] = handler[g]
    BY <2>1
  <2>6. /\ handler'[h].at = "storing" /\ handler'[h].sess = s
        /\ handler'[h].cookie = handler[h].cookie
    BY <2>1
  <2>7. stored' = stored
    BY <1>3 DEF ChooseSession
  <2> HIDE DEF IsThere
  <2> QED
    BY <2>2, <2>3, <2>4, <2>5, <2>6, <2>7
<1>4. ASSUME NEW h \in Handler, StoreCredentials(h) PROVE Present'
  BY <1>4, KeyParts DEF StoreCredentials, Used
<1>5. ASSUME NEW h \in Handler, LoadForests(h) PROVE Present'
  BY <1>5, KeyParts DEF LoadForests
<1>6. ASSUME NEW h \in Handler, GrowForests(h) PROVE Present'
  BY <1>6, KeyParts DEF GrowForests
<1>7. ASSUME NEW h \in Handler, StoreForest(h) PROVE Present'
  BY <1>7, KeyParts DEF StoreForest, Used
<1>8. ASSUME NEW h \in Handler, PanicOnForest(h) PROVE Present'
  BY <1>8, KeyParts DEF PanicOnForest, Idle
<1>9. ASSUME NEW h \in Handler, Answer(h) PROVE Present'
  BY <1>9, KeyParts DEF Answer, Idle
<1>10. ASSUME NEW h \in Handler, NEW s \in Session, CheckState(h, s)
       PROVE  Present'
  BY <1>10, KeyParts DEF CheckState, Idle
<1>11. ASSUME NEW h \in Handler, LaunchScan(h) PROVE Present'
  BY <1>11, KeyParts DEF LaunchScan, Idle
<1>12. ASSUME NEW h \in Handler, Clone(h) PROVE Present'
  BY <1>12, KeyParts DEF Clone, Fresh, Idle
<1>13. ASSUME NEW h \in Handler, AnswerClone(h) PROVE Present'
  BY <1>13, KeyParts DEF AnswerClone, Idle
<1>14. ASSUME NEW r \in Run, CopyCredentials(r) PROVE Present'
  BY <1>14, KeyParts DEF CopyCredentials
<1>15. ASSUME NEW r \in Run, FinishScan(r) PROVE Present'
  BY <1>15, KeyParts DEF FinishScan
<1>16. CASE ExpireCookie
  BY <1>16 DEF ExpireCookie
<1>17. CASE UNCHANGED storeVars
  BY <1>17 DEF storeVars
<1> HIDE DEF SessionsTyped, Pointer, Cookie, Choosing, HandlerPlaces, HandlerState, RunState,
      Present, IsThere
<1> QED
  BY <1>1, <1>2, <1>3, <1>4, <1>5, <1>6, <1>7, <1>8, <1>9, <1>10, <1>11, <1>12, <1>13, <1>14,
     <1>15, <1>16, <1>17 DEF StoreNext, Step

(* A handler that stores credentials does so in a struct nobody uses.      *)
LEMMA StoreEffect ==
  ASSUME SessionsTyped, Present, NEW h \in Handler,
         StoreCredentials(h) \/ StoreForest(h)
  PROVE  /\ handler[h].key \in Key /\ IsThere(handler[h].sess)
         /\ \E c \in Struct :
              /\ heap[c] = Nil
              /\ heap' = [heap EXCEPT ![c] = c]
              /\ creds' = [creds EXCEPT ![handler[h].sess][handler[h].key] = c]
         /\ handler' = [handler EXCEPT ![h].at = "stored"]
         /\ UNCHANGED <<state, cookie, run, stored, told, raced, covered>>
<1>1. handler[h].key \in Key \cup {NoKey}
  BY DEF SessionsTyped, HandlerState
<1>2. CASE StoreCredentials(h)
  BY <1>1, <1>2, KeyParts DEF StoreCredentials, Used, Present, Choosing
<1>3. CASE StoreForest(h)
  BY <1>3 DEF StoreForest, Used, Present, Choosing
<1> QED
  BY <1>2, <1>3

(* One that makes the slice longer replaces the slots of its session by    *)
(* those it has loaded, with blank entries where there was nothing.        *)
LEMMA GrowEffect ==
  ASSUME SessionsTyped, Present, NEW h \in Handler, GrowForests(h)
  PROVE  \A s \in Session, k \in Key :
           creds'[s][k] # creds[s][k] =>
             /\ s = handler[h].sess /\ k[2] \in 1 .. MaxForests /\ k = <<AD, k[2]>>
             /\ \/ creds'[s][k] = handler[h].seen[k[2]]
                \/ creds'[s][k] = Blank /\ handler[h].seen[k[2]] = Nil
<1> SUFFICES ASSUME NEW s \in Session, NEW k \in Key, creds'[s][k] # creds[s][k]
             PROVE  /\ s = handler[h].sess /\ k[2] \in 1 .. MaxForests /\ k = <<AD, k[2]>>
                    /\ \/ creds'[s][k] = handler[h].seen[k[2]]
                       \/ creds'[s][k] = Blank /\ handler[h].seen[k[2]] = Nil
  OBVIOUS
<1> DEFINE longer == Grown(handler[h].seen, handler[h].key[2])
<1>1. creds' = [creds EXCEPT ![handler[h].sess] = WithSlots(@, longer)]
  BY DEF GrowForests
<1>2. s = handler[h].sess /\ creds'[s] = WithSlots(creds[s], longer)
  BY <1>1 DEF SessionsTyped
<1>3. creds'[s][k] = IF k[2] = 0 THEN creds[s][k] ELSE longer[k[2]]
  BY <1>2 DEF WithSlots
<1>4. k[2] \in 1 .. MaxForests /\ k = <<AD, k[2]>> /\ creds'[s][k] = longer[k[2]]
  BY <1>3, KeyParts
<1>5. longer[k[2]] \in {handler[h].seen[k[2]]} \cup
                       (IF handler[h].seen[k[2]] = Nil THEN {Blank} ELSE {})
  BY <1>4 DEF Grown
<1> QED
  BY <1>2, <1>4, <1>5

(* A handler's step is its own.                                            *)
LEMMA OthersWait ==
  ASSUME SessionsTyped, NEW h \in Handler, Step(h)
  PROVE  \A g \in Handler \ {h} : handler'[g] = handler[g]
<1>1. DOMAIN handler = Handler
  BY DEF SessionsTyped
<1> QED
  BY <1>1 DEF Step, Validate, UploadBackup, ChooseSession,
     StoreCredentials, LoadForests, GrowForests, StoreForest,
     PanicOnForest, Answer, CheckState, LaunchScan,
     Clone, AnswerClone

LEMMA AllocatedStep ==
  SessionsTyped /\ Present /\ Allocated /\ [StoreNext]_storeVars
    => Allocated'
<1> SUFFICES ASSUME SessionsTyped, Present, Allocated,
                    [StoreNext]_storeVars
             PROVE  Allocated'
  OBVIOUS
<1>t. /\ creds \in [Session -> [Key -> Pointer]]
      /\ heap \in [Struct -> Struct \cup {Nil}]
      /\ handler \in [Handler -> HandlerState]
      /\ run \in [Run -> RunState]
  BY DEF SessionsTyped
<1> DEFINE SeenKept ==
             \A g \in Handler : handler'[g].seen \in {handler[g].seen, NoForests}
<1>n. \A i \in 1 .. MaxForests : NoForests[i] \notin Struct
  BY PointerParts DEF NoForests
<1>i. Idle.seen = NoForests
  BY DEF Idle
<1>s. ASSUME UNCHANGED <<creds, heap>>, SeenKept PROVE Allocated'
  BY <1>s, <1>n DEF Allocated
<1>1. ASSUME NEW h \in Handler, StoreCredentials(h) \/ StoreForest(h)
      PROVE  Allocated'
  <2>1. PICK c \in Struct :
          /\ heap[c] = Nil
          /\ heap' = [heap EXCEPT ![c] = c]
          /\ creds' = [creds EXCEPT ![handler[h].sess][handler[h].key] = c]
          /\ handler' = [handler EXCEPT ![h].at = "stored"]
    BY <1>1, StoreEffect
  <2>2. \A d \in Struct : heap'[d] \in {Nil, d} /\ (heap[d] = d => heap'[d] = d)
    BY <2>1, <1>t DEF Allocated
  <2>3. \A s \in Session, k \in Key : creds'[s][k] \in {creds[s][k], c}
    BY <2>1, <1>t
  <2>4. \A s \in Session, k \in Key :
          creds'[s][k] \in Struct => heap'[creds'[s][k]] = creds'[s][k]
    BY <2>1, <2>2, <2>3, <1>t DEF Allocated
  <2>5. \A g \in Handler : handler'[g].seen = handler[g].seen
    BY <2>1, <1>t DEF HandlerState
  <2> QED
    BY <2>2, <2>4, <2>5 DEF Allocated
<1>2. ASSUME NEW h \in Handler, LoadForests(h) PROVE Allocated'
  <2>1. IsThere(handler[h].sess)
    BY <1>2 DEF LoadForests, Present, Choosing
  <2>2. /\ handler' =
             [handler EXCEPT ![h].at = "growing", ![h].seen = Slots(handler[h].sess)]
        /\ UNCHANGED <<creds, heap>>
    BY <1>2 DEF LoadForests
  <2>3. \A g \in Handler : handler'[g].seen \in {handler[g].seen, Slots(handler[h].sess)}
    BY <2>2, <1>t DEF HandlerState
  <2>4. \A i \in 1 .. MaxForests :
          Slots(handler[h].sess)[i] = creds[handler[h].sess][<<AD, i>>]
    BY DEF Slots
  <2>5. ASSUME NEW g \in Handler, NEW i \in 1 .. MaxForests,
               handler'[g].seen[i] \in Struct
        PROVE  heap[handler'[g].seen[i]] = handler'[g].seen[i]
    <3>1. CASE handler'[g].seen = handler[g].seen
      BY <3>1, <2>5 DEF Allocated
    <3>2. CASE handler'[g].seen = Slots(handler[h].sess)
      <4>1. handler'[g].seen[i] = creds[handler[h].sess][<<AD, i>>] /\ <<AD, i>> \in Key
        BY <3>2, <2>4, KeyParts
      <4> QED
        BY <4>1, <2>1, <2>5 DEF Allocated, IsThere
    <3> QED
      BY <3>1, <3>2, <2>3
  <2> QED
    BY <2>2, <2>5 DEF Allocated
<1>3. ASSUME NEW h \in Handler, GrowForests(h) PROVE Allocated'
  <2>1. \A s \in Session, k \in Key :
          \/ creds'[s][k] = creds[s][k]
          \/ creds'[s][k] = Blank
          \/ k[2] \in 1 .. MaxForests /\ creds'[s][k] = handler[h].seen[k[2]]
    <3> SUFFICES ASSUME NEW s \in Session, NEW k \in Key,
                        creds'[s][k] # creds[s][k]
                 PROVE  \/ creds'[s][k] = Blank
                        \/ k[2] \in 1 .. MaxForests /\ creds'[s][k] = handler[h].seen[k[2]]
      OBVIOUS
    <3> QED
      BY <1>3, GrowEffect
  <2>2. /\ handler' = [handler EXCEPT ![h].at = "grown", ![h].seen = NoForests]
        /\ heap' = heap
    BY <1>3 DEF GrowForests
  <2>3. SeenKept
    BY <2>2, <1>t DEF HandlerState
  <2>4. ASSUME NEW s \in Session, NEW k \in Key,
               creds'[s][k] \in Struct
        PROVE  heap[creds'[s][k]] = creds'[s][k]
    <3>1. CASE creds'[s][k] = creds[s][k]
      BY <3>1, <2>4 DEF Allocated
    <3>2. CASE k[2] \in 1 .. MaxForests /\ creds'[s][k] = handler[h].seen[k[2]]
      BY <3>2, <2>4 DEF Allocated
    <3> QED
      BY <3>1, <3>2, <2>1, <2>4, PointerParts
  <2>5. ASSUME NEW g \in Handler, NEW i \in 1 .. MaxForests,
               handler'[g].seen[i] \in Struct
        PROVE  heap[handler'[g].seen[i]] = handler'[g].seen[i]
    BY <2>3, <2>5, <1>n DEF Allocated
  <2>6. heap' = heap
    BY <2>2
  <2> HIDE DEF SeenKept
  <2> QED
    BY <2>4, <2>5, <2>6 DEF Allocated
<1>4. ASSUME NEW h \in Handler, Clone(h) PROVE Allocated'
  <2>1. PICK s \in Session :
          /\ creds' = [creds EXCEPT ![s] = Cloned(creds[cookie])]
          /\ handler' = [handler EXCEPT ![h] =
                           [Idle EXCEPT !.at = "cloned", !.sess = s, !.cookie = cookie]]
    BY <1>4 DEF Clone
  <2>2. SeenKept
    BY <2>1, <1>t DEF Idle
  <2>3. heap' = heap /\ cookie \in Session
    BY <1>4 DEF Clone, Present, IsThere
  <2>4. \A t \in Session, k \in Key :
          creds'[t][k] \in {creds[t][k], creds[cookie][k], Nil}
    BY <2>1, <1>t DEF Cloned
  <2> QED
    BY <2>2, <2>3, <2>4, <1>n, PointerParts DEF Allocated
<1>5. CASE UNCHANGED storeVars
  BY <1>5, <1>s DEF storeVars
<1>6. ASSUME NEW r \in Run, CopyCredentials(r) \/ FinishScan(r)
      PROVE  Allocated'
  BY <1>6, <1>s DEF CopyCredentials, FinishScan
<1>7. ASSUME NEW h \in Handler, Step(h),
             ~ (StoreCredentials(h) \/ StoreForest(h)),
               ~ LoadForests(h),
             ~ GrowForests(h), ~ Clone(h)
      PROVE  Allocated'
  <2>1. UNCHANGED <<creds, heap>>
    BY <1>7 DEF Step, Validate, UploadBackup, ChooseSession,
       PanicOnForest, Answer, CheckState, LaunchScan,
       AnswerClone
  <2>2. handler'[h].seen \in {handler[h].seen, NoForests}
    <3>1. ASSUME NEW k \in Key, Validate(h, k)
          PROVE  handler'[h].seen = handler[h].seen
      BY <3>1, <1>t DEF Validate, HandlerState
    <3>2. ASSUME UploadBackup(h) \/ ChooseSession(h)
          PROVE  handler'[h].seen = handler[h].seen
      BY <3>2, <1>t DEF UploadBackup, ChooseSession, HandlerState
    <3>3. ASSUME PanicOnForest(h) \/ Answer(h) \/ LaunchScan(h)
                 \/ AnswerClone(h)
          PROVE  handler'[h].seen = NoForests
      BY <3>3, <1>t, <1>i
         DEF PanicOnForest, Answer, LaunchScan, AnswerClone
    <3>4. ASSUME NEW s \in Session, CheckState(h, s)
          PROVE  handler'[h].seen = NoForests
      <4>1. handler' = [handler EXCEPT ![h] =
                          [Idle EXCEPT !.at = "starting", !.sess = s, !.cookie = cookie]]
        BY <3>4 DEF CheckState
      <4> QED
        BY <4>1, <1>t DEF Idle
    <3> QED
      BY <3>1, <3>2, <3>3, <3>4, <1>7 DEF Step
  <2> QED
    BY <2>1, <2>2, <1>7, OthersWait, <1>s
<1>8. CASE ExpireCookie
  BY <1>8, <1>s DEF ExpireCookie
<1> QED
  BY <1>1, <1>2, <1>3, <1>4, <1>5, <1>6, <1>7, <1>8 DEF StoreNext

(* Races are remembered.                                                   *)
LEMMA RacedStays == raced \in BOOLEAN /\ [StoreNext]_storeVars /\ ~ raced' => ~ raced
  BY DEF StoreNext, Step, storeVars, Validate, UploadBackup,
     ChooseSession, StoreCredentials, LoadForests,
     GrowForests, StoreForest, PanicOnForest, Answer,
     CheckState, LaunchScan, Clone, AnswerClone,
     CopyCredentials, FinishScan, ExpireCookie

(* Only these steps write credentials.                                     *)
LEMMA CredsKept ==
  ASSUME [StoreNext]_storeVars,
         \A h \in Handler : ~ (StoreCredentials(h) \/ StoreForest(h))
                              /\ ~ GrowForests(h) /\ ~ Clone(h)
  PROVE  UNCHANGED <<creds, heap>>
  BY DEF StoreNext, Step, storeVars, Validate, UploadBackup,
     ChooseSession, LoadForests, PanicOnForest, Answer,
     CheckState, LaunchScan, AnswerClone, CopyCredentials,
     FinishScan, ExpireCookie

(* A clone is made of the cookie's session, under an unused id.            *)
LEMMA CloneEffect ==
  ASSUME SessionsTyped, Present, NEW h \in Handler, Clone(h)
  PROVE  /\ IsThere(cookie) /\ raced' = TRUE
         /\ \E s \in Session :
              /\ state[s] = "absent" /\ state' = [state EXCEPT ![s] = "created"]
              /\ creds' = [creds EXCEPT ![s] = Cloned(creds[cookie])]
              /\ stored' = [stored EXCEPT ![s] = {k \in stored[cookie] : k[2] = 0}]
              /\ handler' = [handler EXCEPT ![h] =
                   [Idle EXCEPT !.at = "cloned", !.sess = s, !.cookie = cookie]]
         /\ UNCHANGED <<heap, cookie, run, told, covered>>
  BY DEF Clone, Fresh, Present

(* A handler joins those that are about forests only if there is none.     *)
LEMMA JoinsAlone ==
  ASSUME SessionsTyped, NEW h \in Handler, Step(h), ~ raced',
         ForestBusy(h)', ~ ForestBusy(h), NEW g \in Handler, g # h
  PROVE  ~ ForestBusy(g)
<1>1. handler \in [Handler -> HandlerState]
  BY DEF SessionsTyped
<1>2. handler[g].at \in Serving => handler[g] # Idle
  BY DEF Serving, Idle
<1>3. ASSUME NEW k \in Key, Validate(h, k) PROVE ~ ForestBusy(g)
  <2>1. handler'[h].key = k
    BY <1>3, <1>1 DEF Validate, HandlerState
  <2>2. ~ Races(k)
    BY <1>3 DEF Validate
  <2> QED
    BY <2>1, <2>2, <1>2 DEF Races, ForestBusy
<1>4. ASSUME UploadBackup(h) PROVE ~ ForestBusy(g)
  <2>1. ~ Races(NoKey)
    BY <1>4 DEF UploadBackup
  <2> QED
    BY <2>1, <1>2, KeyParts DEF Races, ForestBusy
<1>5. ASSUME \/ ChooseSession(h) \/ StoreCredentials(h)
             \/ LoadForests(h)
             \/ GrowForests(h) \/ StoreForest(h)
      PROVE  FALSE
  <2>1. handler[h].at \in Serving
    BY <1>5 DEF ChooseSession, StoreCredentials, LoadForests,
       GrowForests, StoreForest, Serving
  <2>2. handler'[h].key = handler[h].key
    BY <1>5, <1>1 DEF ChooseSession, StoreCredentials, LoadForests,
       GrowForests, StoreForest, HandlerState
  <2> QED
    BY <2>1, <2>2 DEF ForestBusy
<1>6. ASSUME \/ PanicOnForest(h) \/ Answer(h) \/ LaunchScan(h)
             \/ AnswerClone(h)
      PROVE  FALSE
  <2>1. handler'[h] = Idle
    BY <1>6, <1>1
       DEF PanicOnForest, Answer, LaunchScan, AnswerClone
  <2> QED
    BY <2>1 DEF ForestBusy, Serving, Idle
<1>7. ASSUME NEW s \in Session, CheckState(h, s) PROVE FALSE
  <2>1. handler'[h].at = "starting"
    BY <1>7, <1>1 DEF CheckState, Idle
  <2> QED
    BY <2>1 DEF ForestBusy, Serving
<1>8. ~ Clone(h)
  BY DEF Clone
<1> QED
  BY <1>3, <1>4, <1>5, <1>6, <1>7, <1>8 DEF Step

LEMMA ForestsAloneStep ==
  SessionsTyped /\ Present /\ ForestsAlone /\ [StoreNext]_storeVars
    => ForestsAlone'
<1> SUFFICES ASSUME SessionsTyped, Present, ForestsAlone,
                    [StoreNext]_storeVars,
                    ~ raced'
             PROVE  /\ \A g, h \in Handler : ForestBusy(g)' /\ ForestBusy(h)' => g = h
                    /\ \A g \in Handler : handler'[g].at = "growing" =>
                         handler'[g].seen = Slots(handler[g].sess)'
  BY DEF ForestsAlone
<1>1. ~ raced
  BY RacedStays DEF SessionsTyped
<1>2. /\ \A g, h \in Handler : ForestBusy(g) /\ ForestBusy(h) => g = h
      /\ \A g \in Handler : handler[g].at = "growing" =>
           handler[g].seen = Slots(handler[g].sess)
  BY <1>1 DEF ForestsAlone
<1>3. \A g \in Handler : handler[g].at \in {"growing", "grown"} => ForestBusy(g)
  BY DEF Present, ForestBusy, Serving
<1>4. CASE handler' = handler /\ creds' = creds
  BY <1>2, <1>4 DEF ForestBusy, Slots
<1>5. ASSUME NEW h \in Handler, Step(h)
      PROVE  /\ \A g1, g2 \in Handler : ForestBusy(g1)' /\ ForestBusy(g2)' => g1 = g2
             /\ \A g \in Handler : handler'[g].at = "growing" =>
                  handler'[g].seen = Slots(handler[g].sess)'
  <2>1. \A g \in Handler \ {h} : handler'[g] = handler[g] /\ (ForestBusy(g)' <=> ForestBusy(g))
    BY <1>5, OthersWait DEF ForestBusy
  <2>2. ForestBusy(h)' /\ ~ ForestBusy(h) => \A g \in Handler \ {h} : ~ ForestBusy(g)
    BY <1>5, JoinsAlone
  <2>3. \A g1, g2 \in Handler : ForestBusy(g1)' /\ ForestBusy(g2)' => g1 = g2
    BY <2>1, <2>2, <1>2
  <2>4. ASSUME NEW g \in Handler, handler'[g].at = "growing"
        PROVE  handler'[g].seen = Slots(handler[g].sess)'
    <3>1. CASE LoadForests(h)
      <4>1. CASE g = h
        BY <3>1, <4>1 DEF LoadForests, Slots, SessionsTyped, HandlerState
      <4>2. CASE g # h
        <5>1. creds' = creds /\ handler'[g] = handler[g]
          BY <3>1, <4>2, <2>1 DEF LoadForests
        <5>2. Slots(handler[g].sess)' = Slots(handler[g].sess)
          BY <5>1 DEF Slots
        <5> QED
          BY <5>1, <5>2, <2>4, <1>2
      <4> QED
        BY <4>1, <4>2
    <3>2. CASE g # h /\ ~ LoadForests(h)
      <4>1. handler'[g] = handler[g] /\ ForestBusy(g) /\ ~ ForestBusy(h)
        BY <3>2, <2>1, <2>4, <1>3, <1>2
      <4>2. ~ GrowForests(h) /\ ~ StoreForest(h) /\ ~ Clone(h)
        BY <4>1, <1>3 DEF GrowForests, StoreForest, Clone
      <4>3. ASSUME StoreCredentials(h), NEW i \in 1 .. MaxForests
            PROVE  creds'[handler[g].sess][<<AD, i>>] = creds[handler[g].sess][<<AD, i>>]
        <5>1. /\ handler[h].key[2] = 0
              /\ \E c : creds' = [creds EXCEPT ![handler[h].sess][handler[h].key] = c]
          BY <4>3 DEF StoreCredentials
        <5>2. <<AD, i>> # handler[h].key /\ <<AD, i>> \in Key
          BY <5>1, KeyParts
        <5>3. handler[g].sess \in Session
          BY <2>4, <4>1 DEF Present, Choosing, IsThere
        <5> QED
          BY <5>1, <5>2, <5>3 DEF SessionsTyped
      <4>4. ASSUME ~ StoreCredentials(h) PROVE creds' = creds
        BY <4>4, <4>2, <1>5 DEF Step, Validate, UploadBackup,
           ChooseSession, LoadForests, PanicOnForest, Answer,
           CheckState, LaunchScan, AnswerClone
      <4>5. Slots(handler[g].sess)' = Slots(handler[g].sess)
        BY <4>1, <4>3, <4>4 DEF Slots
      <4> QED
        BY <4>1, <4>5, <2>4, <1>2
    <3>3. CASE g = h /\ ~ LoadForests(h)
      <4> USE DEF SessionsTyped
      <4>1. ASSUME NEW k \in Key, Validate(h, k)
            PROVE  handler'[h].at # "growing"
        BY <4>1 DEF Validate, HandlerState
      <4>2. ASSUME \/ UploadBackup(h) \/ ChooseSession(h)
                   \/ StoreCredentials(h)
                   \/ GrowForests(h) \/ StoreForest(h)
            PROVE  handler'[h].at # "growing"
        BY <4>2 DEF UploadBackup, ChooseSession, StoreCredentials,
           GrowForests, StoreForest, HandlerState
      <4>3. ASSUME PanicOnForest(h) \/ Answer(h) \/ LaunchScan(h)
                   \/ AnswerClone(h)
            PROVE  handler'[h].at # "growing"
        BY <4>3 DEF PanicOnForest, Answer, LaunchScan,
           AnswerClone, Idle
      <4>4. ASSUME NEW s \in Session, CheckState(h, s)
            PROVE  handler'[h].at # "growing"
        BY <4>4 DEF CheckState, Idle
      <4>5. ~ Clone(h)
        BY DEF Clone
      <4> HIDE DEF SessionsTyped
      <4> QED
        BY <4>1, <4>2, <4>3, <4>4, <4>5, <3>3, <2>4, <1>5 DEF Step
    <3> QED
      BY <3>1, <3>2, <3>3
  <2> QED
    BY <2>3, <2>4
<1> QED
  BY <1>4, <1>5 DEF StoreNext, storeVars, CopyCredentials, FinishScan, ExpireCookie

(* A struct that is in a session is replaced by another one only, unless   *)
(* it is of a forest and requests raced.                                   *)
LEMMA StructsStay ==
  ASSUME SessionsTyped, Present, ForestsAlone, [StoreNext]_storeVars,
         NEW s \in Session, NEW k \in Key, IsThere(s), k[2] = 0 \/ ~ raced',
         creds[s][k] \in Struct
  PROVE  creds'[s][k] \in Struct
<1>1. ASSUME NEW h \in Handler, StoreCredentials(h) \/ StoreForest(h)
      PROVE  creds'[s][k] \in Struct
  <2>1. PICK c \in Struct :
          creds' = [creds EXCEPT ![handler[h].sess][handler[h].key] = c]
    BY <1>1, StoreEffect
  <2>2. creds'[s][k] \in {creds[s][k], c}
    BY <2>1 DEF SessionsTyped
  <2> QED
    BY <2>2
<1>2. ASSUME NEW h \in Handler, GrowForests(h) PROVE creds'[s][k] \in Struct
  <2>1. SUFFICES ASSUME creds'[s][k] # creds[s][k] PROVE creds'[s][k] \in Struct
    OBVIOUS
  <2>2. /\ s = handler[h].sess /\ k[2] \in 1 .. MaxForests /\ k = <<AD, k[2]>>
        /\ \/ creds'[s][k] = handler[h].seen[k[2]]
           \/ creds'[s][k] = Blank /\ handler[h].seen[k[2]] = Nil
    BY <1>2, <2>1, GrowEffect
  <2>3. ~ raced
    BY <2>2, RacedStays DEF SessionsTyped
  <2>4. handler[h].seen = Slots(s)
    BY <1>2, <2>2, <2>3 DEF ForestsAlone, GrowForests
  <2>5. handler[h].seen[k[2]] = creds[s][k]
    BY <2>2, <2>4 DEF Slots
  <2> QED
    BY <2>2, <2>5, PointerParts
<1>3. ASSUME NEW h \in Handler, Clone(h) PROVE creds'[s][k] \in Struct
  BY <1>3, CloneEffect DEF IsThere, SessionsTyped
<1> QED
  BY <1>1, <1>2, <1>3, CredsKept

(* Sessions stay in the store with what is stored in them.                 *)
LEMMA ThereStays ==
  ASSUME SessionsTyped, Present, [StoreNext]_storeVars, NEW s, IsThere(s)
  PROVE  IsThere(s)' /\ stored[s] \subseteq stored'[s]
<1> USE DEF IsThere, SessionsTyped
<1>1. ASSUME NEW h \in Handler, ChooseSession(h)
      PROVE  IsThere(s)' /\ stored[s] \subseteq stored'[s]
  BY <1>1 DEF ChooseSession
<1>2. ASSUME NEW h \in Handler, Answer(h)
      PROVE  IsThere(s)' /\ stored[s] \subseteq stored'[s]
  BY <1>2 DEF Answer
<1>3. ASSUME NEW h \in Handler, LaunchScan(h)
      PROVE  IsThere(s)' /\ stored[s] \subseteq stored'[s]
  BY <1>3 DEF LaunchScan
<1>4. ASSUME NEW h \in Handler, Clone(h)
      PROVE  IsThere(s)' /\ stored[s] \subseteq stored'[s]
  BY <1>4, CloneEffect
<1>5. ASSUME NEW r \in Run, FinishScan(r)
      PROVE  IsThere(s)' /\ stored[s] \subseteq stored'[s]
  BY <1>5 DEF FinishScan
<1>6. ASSUME \A h \in Handler : ~ ChooseSession(h) /\ ~ Answer(h)
             /\ ~ LaunchScan(h)
                                  /\ ~ Clone(h),
             \A r \in Run : ~ FinishScan(r)
      PROVE  UNCHANGED <<state, stored>>
  BY <1>6 DEF StoreNext, Step, storeVars, Validate,
     UploadBackup, StoreCredentials, LoadForests,
     GrowForests, StoreForest, PanicOnForest, CheckState,
     AnswerClone, CopyCredentials, ExpireCookie
<1> QED
  BY <1>1, <1>2, <1>3, <1>4, <1>5, <1>6

(* What is kept stays kept.                                                *)
LEMMA KeptStays ==
  ASSUME SessionsTyped, Present, ForestsAlone, [StoreNext]_storeVars,
         NEW s \in Session, NEW k \in Key, IsThere(s), IsKept(s, k)
  PROVE  IsKept(s, k)'
<1>1. k[2] = 0 \/ ~ raced' => k[2] = 0 \/ ~ raced
  BY RacedStays DEF SessionsTyped
<1> QED
  BY <1>1, StructsStay DEF IsKept

LEMMA StoredKeptStep ==
  SessionsTyped /\ Present /\ ForestsAlone /\ StoredKept
    /\ [StoreNext]_storeVars
    => StoredKept'
<1> SUFFICES ASSUME SessionsTyped, Present, ForestsAlone, StoredKept,
                    [StoreNext]_storeVars
             PROVE  StoredKept'
  OBVIOUS
<1>t. /\ handler \in [Handler -> HandlerState]
      /\ stored \in [Session -> SUBSET Key]
      /\ run \in [Run -> RunState]
      /\ covered \in [Run -> SUBSET Key]
  BY DEF SessionsTyped
<1>k. \A s \in Session : \A k \in stored[s] :
        IsThere(s) /\ k \in Key /\ IsKept(s, k)'
  BY <1>t, KeptStays DEF Present, StoredKept
<1>1. ASSUME NEW s \in Session, NEW k \in stored'[s] PROVE IsKept(s, k)'
  <2>1. ASSUME NEW h \in Handler, Answer(h) PROVE IsKept(s, k)'
    <3>1. stored' =
            [stored EXCEPT ![handler[h].sess] = @ \cup ({handler[h].key} \ {NoKey})]
      BY <2>1 DEF Answer
    <3>2. CASE k \in stored[s]
      BY <3>2, <1>k
    <3>3. CASE k \notin stored[s]
      <4>1. s = handler[h].sess /\ k = handler[h].key /\ k # NoKey
        BY <3>1, <3>3, <1>1, <1>t
      <4>2. handler[h].at = "stored"
        BY <2>1, <4>1 DEF Answer
      <4>3. IsThere(s) /\ k \in Key /\ IsKept(s, k)
        BY <4>1, <4>2 DEF Present, Choosing, StoredKept
      <4> QED
        BY <4>3, KeptStays
    <3> QED
      BY <3>2, <3>3
  <2>2. ASSUME NEW h \in Handler, Clone(h) PROVE IsKept(s, k)'
    <3>1. PICK n \in Session :
            /\ creds' = [creds EXCEPT ![n] = Cloned(creds[cookie])]
            /\ stored' = [stored EXCEPT ![n] = {i \in stored[cookie] : i[2] = 0}]
      BY <2>2, CloneEffect
    <3>2. CASE s # n
      BY <3>1, <3>2, <1>1, <1>t, <1>k
    <3>3. CASE s = n
      <4>1. k \in stored[cookie] /\ k[2] = 0 /\ cookie \in Session /\ k \in Key
        BY <2>2, <3>1, <3>3, <1>1, <1>t, CloneEffect DEF IsThere
      <4>2. creds[cookie][k] \in Struct
        BY <4>1 DEF StoredKept, IsKept
      <4>3. creds'[s][k] = creds[cookie][k]
        BY <3>1, <3>3, <4>1 DEF Cloned, SessionsTyped
      <4> QED
        BY <4>2, <4>3 DEF IsKept
    <3> QED
      BY <3>2, <3>3
  <2>3. ASSUME \A h \in Handler : ~ Answer(h) /\ ~ Clone(h)
        PROVE  stored' = stored
    BY <2>3 DEF StoreNext, Step, storeVars, Validate,
       UploadBackup, ChooseSession, StoreCredentials,
       LoadForests, GrowForests, StoreForest, PanicOnForest,
       CheckState, LaunchScan, AnswerClone, CopyCredentials,
       FinishScan, ExpireCookie
  <2> QED
    BY <2>1, <2>2, <2>3, <1>1, <1>k
<1>2. ASSUME NEW h \in Handler, handler'[h].at = "stored"
      PROVE  IsKept(handler[h].sess, handler[h].key)'
  <2>1. CASE handler'[h] = handler[h]
    <3>1. /\ IsThere(handler[h].sess) /\ handler[h].key \in Key
          /\ IsKept(handler[h].sess, handler[h].key)
      BY <1>2, <2>1 DEF Present, Choosing, StoredKept
    <3>2. handler[h].sess \in Session
      BY <3>1 DEF IsThere
    <3>3. \A s \in Session, k \in Key :
            IsThere(s) /\ IsKept(s, k) => IsKept(s, k)'
      BY KeptStays
    <3>4. \A s \in Session, k \in Key : IsThere(s) /\ IsKept(s, k) =>
            (k[2] = 0 \/ ~ raced' => creds'[s][k] \in Struct)
      BY <3>3 DEF IsKept
    <3>5. LET s == handler[h].sess
              k == handler[h].key
          IN  k[2] = 0 \/ ~ raced' => creds'[s][k] \in Struct
      BY <3>1, <3>2, <3>4
    <3> QED
      BY <2>1, <3>5 DEF IsKept
  <2>2. CASE handler'[h] # handler[h]
    <3>1. Step(h)
      <4>1. \E g \in Handler : Step(g)
        BY <2>2 DEF StoreNext, storeVars, CopyCredentials, FinishScan, ExpireCookie
      <4> QED
        BY <4>1, <2>2, OthersWait
    <3>2. StoreCredentials(h) \/ StoreForest(h)
      <4> USE <1>t
      <4>1. ASSUME NEW k \in Key, Validate(h, k) PROVE handler'[h].at # "stored"
        BY <4>1 DEF Validate, HandlerState
      <4>2. ASSUME \/ UploadBackup(h) \/ ChooseSession(h)
                   \/ LoadForests(h)
                   \/ GrowForests(h)
            PROVE  handler'[h].at # "stored"
        BY <4>2 DEF UploadBackup, ChooseSession, LoadForests,
           GrowForests, HandlerState
      <4>3. ASSUME PanicOnForest(h) \/ Answer(h) \/ LaunchScan(h)
                   \/ AnswerClone(h)
            PROVE  handler'[h].at # "stored"
        BY <4>3 DEF PanicOnForest, Answer, LaunchScan,
           AnswerClone, Idle
      <4>4. ASSUME NEW s \in Session, CheckState(h, s)
            PROVE  handler'[h].at # "stored"
        BY <4>4 DEF CheckState, Idle
      <4>5. ASSUME Clone(h) PROVE handler'[h].at # "stored"
        BY <4>5 DEF Clone, Idle
      <4> QED
        BY <4>1, <4>2, <4>3, <4>4, <4>5, <3>1, <1>2 DEF Step
    <3>3. PICK c \in Struct :
            /\ handler[h].key \in Key /\ handler[h].sess \in Session
            /\ creds' = [creds EXCEPT ![handler[h].sess][handler[h].key] = c]
            /\ handler' = [handler EXCEPT ![h].at = "stored"]
      BY <3>2, StoreEffect DEF IsThere
    <3>4. creds'[handler[h].sess][handler[h].key] = c
      BY <3>3 DEF SessionsTyped
    <3>5. handler'[h].sess = handler[h].sess /\ handler'[h].key = handler[h].key
      BY <3>3, <1>t DEF HandlerState
    <3> QED
      BY <3>4, <3>5 DEF IsKept
  <2> QED
    BY <2>1, <2>2
<1>3. ASSUME NEW r \in Run, run'[r].at = "launched"
      PROVE  covered'[r] \subseteq stored'[run'[r].sess]
  <2>1. CASE run'[r] = run[r] /\ covered'[r] = covered[r]
    <3>1. IsThere(run[r].sess) /\ covered[r] \subseteq stored[run[r].sess]
      BY <1>3, <2>1 DEF Present, StoredKept
    <3> QED
      BY <2>1, <3>1, ThereStays
  <2>2. CASE ~ (run'[r] = run[r] /\ covered'[r] = covered[r])
    <3>1. ASSUME NEW h \in Handler, LaunchScan(h)
          PROVE  covered'[r] \subseteq stored'[run'[r].sess]
      <4>1. PICK q \in Run :
              /\ run' = [run EXCEPT ![q] =
                   [at |-> "launched", sess |-> handler[h].sess, used |-> NoCreds]]
              /\ covered' = [covered EXCEPT ![q] = stored[handler[h].sess]]
        BY <3>1 DEF LaunchScan
      <4>2. r = q
        BY <4>1, <2>2, <1>t
      <4>3. covered'[r] = stored[handler[h].sess] /\ run'[r].sess = handler[h].sess
        BY <4>1, <4>2, <1>t
      <4> QED
        BY <3>1, <4>3 DEF LaunchScan
    <3>2. ASSUME NEW q \in Run, CopyCredentials(q) \/ FinishScan(q)
          PROVE  covered'[r] \subseteq stored'[run'[r].sess]
      <4>1. run'[q].at # "launched"
        BY <3>2, <1>t DEF CopyCredentials, FinishScan, RunState
      <4>2. q # r => run'[r] = run[r] /\ covered'[r] = covered[r]
        BY <3>2, <1>t DEF CopyCredentials, FinishScan
      <4> QED
        BY <4>1, <4>2, <2>2, <1>3
    <3>3. ASSUME \A h \in Handler : ~ LaunchScan(h),
                 \A q \in Run : ~ (CopyCredentials(q) \/ FinishScan(q))
          PROVE  UNCHANGED <<run, covered>>
      BY <3>3 DEF StoreNext, Step, storeVars, Validate,
         UploadBackup, ChooseSession, StoreCredentials,
         LoadForests, GrowForests, StoreForest,
         PanicOnForest, Answer, CheckState, Clone,
         AnswerClone, ExpireCookie
    <3> QED
      BY <3>1, <3>2, <3>3, <2>2
  <2> QED
    BY <2>1, <2>2
<1> QED
  BY <1>1, <1>2, <1>3 DEF StoredKept

LEMMA ScanUsesStoredStep ==
  SessionsTyped /\ Present /\ Allocated /\ StoredKept /\ ScanUsesStored
    /\ [StoreNext]_storeVars => ScanUsesStored'
<1> SUFFICES ASSUME SessionsTyped, Present, Allocated, StoredKept,
                    ScanUsesStored, [StoreNext]_storeVars,
                    NEW r \in Run, run'[r].at = "running",
                    NEW k \in covered'[r], k[2] = 0 \/ ~ raced'
             PROVE  run'[r].used[k] \in Struct
  BY DEF ScanUsesStored
<1>t. run \in [Run -> RunState] /\ covered \in [Run -> SUBSET Key]
  BY DEF SessionsTyped
<1>r. k[2] = 0 \/ ~ raced
  BY RacedStays DEF SessionsTyped
<1>1. ASSUME run'[r].used = run[r].used, run[r].at = "running",
             covered'[r] = covered[r]
      PROVE  run'[r].used[k] \in Struct
  BY <1>1, <1>r DEF ScanUsesStored
<1>2. ASSUME NEW h \in Handler, LaunchScan(h) PROVE run'[r].used[k] \in Struct
  <2>1. PICK q \in Run :
          /\ run' = [run EXCEPT ![q] =
               [at |-> "launched", sess |-> handler[h].sess, used |-> NoCreds]]
          /\ covered' = [covered EXCEPT ![q] = stored[handler[h].sess]]
    BY <1>2 DEF LaunchScan
  <2>2. r # q
    BY <2>1, <1>t
  <2> QED
    BY <2>1, <2>2, <1>1, <1>t
<1>3. ASSUME NEW q \in Run, CopyCredentials(q)
      PROVE  run'[r].used[k] \in Struct
  <2>1. CASE r = q
    <3>1. run[r].at = "launched" /\ covered' = covered
      BY <1>3, <2>1 DEF CopyCredentials
    <3>2. run[r].sess \in Session
      BY <3>1 DEF Present, IsThere
    <3>3. k \in stored[run[r].sess] /\ k \in Key
      BY <3>1, <1>t DEF StoredKept
    <3>4. creds[run[r].sess][k] \in Struct
      BY <3>2, <3>3, <1>r DEF StoredKept, IsKept
    <3>5. run'[r].used[k] = heap[creds[run[r].sess][k]]
      BY <1>3, <2>1, <3>3, <3>4, <1>t DEF CopyCredentials, RunState
    <3> QED
      BY <3>2, <3>3, <3>4, <3>5 DEF Allocated
  <2>2. CASE r # q
    BY <1>3, <2>2, <1>1, <1>t DEF CopyCredentials
  <2> QED
    BY <2>1, <2>2
<1>4. ASSUME NEW q \in Run, FinishScan(q)
      PROVE  run'[r].used[k] \in Struct
  BY <1>4, <1>1, <1>t DEF FinishScan, RunState
<1>5. ASSUME \A h \in Handler : ~ LaunchScan(h),
             \A q \in Run : ~ (CopyCredentials(q) \/ FinishScan(q))
      PROVE  UNCHANGED <<run, covered>>
  BY <1>5 DEF StoreNext, Step, storeVars, Validate,
     UploadBackup, ChooseSession, StoreCredentials,
     LoadForests, GrowForests, StoreForest, PanicOnForest,
     Answer, CheckState, Clone, AnswerClone, ExpireCookie
<1> QED
  BY <1>1, <1>2, <1>3, <1>4, <1>5

(* A session that a scan was started on is not created again.              *)
LEMMA CalmStays ==
  ASSUME SessionsTyped, Present, [StoreNext]_storeVars, Calm'
  PROVE  Calm
<1>1. /\ raced \in BOOLEAN
      /\ state \in [Session -> {"absent", "created", "scanning", "complete"}]
  BY DEF SessionsTyped
<1>2. ~ raced
  BY <1>1, RacedStays DEF Calm
<1>3. ASSUME NEW s \in Session PROVE state[s] \in {"absent", "created"}
  <2>1. state'[s] \in {"absent", "created"}
    BY DEF Calm
  <2>2. ASSUME NEW h \in Handler, ChooseSession(h)
        PROVE  state[s] \in {"absent", "created"}
    BY <1>1, <2>1, <2>2 DEF ChooseSession, Fresh
  <2>3. ASSUME NEW h \in Handler, LaunchScan(h) PROVE state[s] \in {"absent", "created"}
    BY <1>1, <2>1, <2>3 DEF LaunchScan
  <2>4. ASSUME NEW h \in Handler, Clone(h) PROVE state[s] \in {"absent", "created"}
    BY <2>4 DEF Clone, Calm
  <2>5. ASSUME NEW r \in Run, FinishScan(r)
        PROVE  state[s] \in {"absent", "created"}
    BY <1>1, <2>1, <2>5 DEF FinishScan
  <2>6. ASSUME \A h \in Handler : ~ ChooseSession(h) /\ ~ LaunchScan(h)
               /\ ~ Clone(h),
               \A r \in Run : ~ FinishScan(r)
        PROVE  state' = state
    BY <2>6 DEF StoreNext, Step, storeVars, Validate,
       UploadBackup, StoreCredentials, LoadForests,
       GrowForests, StoreForest, PanicOnForest, Answer,
       CheckState, AnswerClone, CopyCredentials, ExpireCookie
  <2> QED
    BY <2>1, <2>2, <2>3, <2>4, <2>5, <2>6
<1> QED
  BY <1>2, <1>3 DEF Calm

(* What remains to be seen of a step of handler h, while all is calm.      *)
LEMMA OneSessionCalm ==
  ASSUME SessionsTyped, Present, OneSession, NEW h \in Handler, Step(h),
         Calm, Calm'
  PROVE  /\ handler'[h].at # "cloned"
         /\ handler'[h].at \in Serving =>
              /\ handler'[h].cookie = cookie'
              /\ cookie' # NoSession /\ handler'[h].at # "validated"
                   => handler'[h].sess = cookie'
              /\ handler[h].at \notin Serving /\ cookie = NoSession =>
                   \A g \in Handler : handler[g].at \notin Serving
         /\ cookie' # cookie =>
              /\ cookie = NoSession
              /\ \A g \in Handler \ {h} : handler[g].at \notin Serving
<1>t. handler \in [Handler -> HandlerState] /\ cookie \in Cookie
  BY DEF SessionsTyped
<1>c. /\ ~ raced' /\ \A g \in Handler : handler[g].at # "cloned"
      /\ cookie = NoSession =>
           \A f, g \in Handler : handler[f].at \in Serving /\ handler[g].at \in Serving => f = g
      /\ \A g \in Handler : handler[g].at \in Serving =>
           /\ handler[g].cookie = cookie
           /\ cookie # NoSession /\ handler[g].at # "validated"
                => handler[g].sess = cookie
  BY DEF OneSession, Calm
<1>i. \A g \in Handler : handler[g].at \in Serving => handler[g] # Idle
  BY DEF Serving, Idle
<1> USE DEF Serving
<1>1. ASSUME NEW k \in Key, Validate(h, k)
      PROVE  /\ handler'[h].at = "validated" /\ handler'[h].cookie = cookie /\ cookie' = cookie
             /\ cookie = NoSession => \A g \in Handler : handler[g].at \notin Serving
  <2>1. ~ Races(k) /\ cookie' = cookie
    BY <1>1, <1>c DEF Validate
  <2>2. handler'[h].at = "validated" /\ handler'[h].cookie = cookie
    BY <1>1, <1>t DEF Validate, HandlerState
  <2> QED
    BY <2>1, <2>2, <1>i DEF Races
<1>2. ASSUME UploadBackup(h)
      PROVE  /\ handler'[h].at = "validated" /\ handler'[h].cookie = cookie /\ cookie' = cookie
             /\ cookie = NoSession => \A g \in Handler : handler[g].at \notin Serving
  <2>1. ~ Races(NoKey) /\ cookie' = cookie
    BY <1>2, <1>c DEF UploadBackup
  <2>2. handler'[h].at = "validated" /\ handler'[h].cookie = cookie
    BY <1>2, <1>t DEF UploadBackup, HandlerState
  <2> QED
    BY <2>1, <2>2, <1>i DEF Races
<1>3. ASSUME ChooseSession(h)
      PROVE  /\ handler'[h].at = "storing" /\ handler'[h].cookie = cookie /\ cookie' = cookie
             /\ cookie # NoSession => handler'[h].sess = cookie
             /\ handler[h].at \in Serving
  <2>1. handler[h].at = "validated" /\ cookie' = cookie
    BY <1>3 DEF ChooseSession
  <2>2. handler[h].cookie = cookie
    BY <2>1, <1>c
  <2>3. cookie # NoSession => state[cookie] = "created"
    BY DEF Present, IsThere, Calm
  <2>4. \E s : /\ handler' = [handler EXCEPT ![h].at = "storing", ![h].sess = s]
               /\ cookie # NoSession => s = cookie
    BY <1>3, <2>2, <2>3 DEF ChooseSession
  <2> QED
    BY <2>1, <2>2, <2>4, <1>t DEF HandlerState
<1>4. ASSUME StoreCredentials(h) \/ LoadForests(h) \/ GrowForests(h)
             \/ StoreForest(h)
      PROVE  /\ handler'[h].at \in Serving \ {"validated"} /\ cookie' = cookie
             /\ handler'[h].cookie = handler[h].cookie /\ handler'[h].sess = handler[h].sess
             /\ handler[h].at \in Serving \ {"validated"}
  BY <1>4, <1>t DEF StoreCredentials, LoadForests, GrowForests,
     StoreForest, HandlerState
<1>5. ASSUME Answer(h)
      PROVE  /\ handler'[h].at = "idle"
             /\ cookie' # cookie =>
                  /\ cookie = NoSession
                  /\ \A g \in Handler \ {h} : handler[g].at \notin Serving
  <2>1. handler'[h].at = "idle"
    BY <1>5, <1>t DEF Answer, Idle
  <2>2. handler[h].at \in Serving /\ handler[h].at # "validated"
    BY <1>5 DEF Answer
  <2>3. cookie # NoSession => handler[h].sess = cookie
    BY <2>2, <1>c
  <2>4. cookie' = IF handler[h].sess = handler[h].cookie THEN cookie ELSE handler[h].sess
    BY <1>5 DEF Answer
  <2>5. cookie' # cookie => cookie = NoSession
    BY <2>3, <2>4
  <2> QED
    BY <2>1, <2>2, <2>5, <1>c
<1>6. ASSUME PanicOnForest(h) \/ LaunchScan(h)
      PROVE  handler'[h].at = "idle" /\ cookie' = cookie
  BY <1>6, <1>t DEF PanicOnForest, LaunchScan, Idle
<1>7. ASSUME NEW s \in Session, CheckState(h, s)
      PROVE  handler'[h].at = "starting" /\ cookie' = cookie
  BY <1>7, <1>t DEF CheckState, Idle
<1>8. ~ Clone(h) /\ ~ AnswerClone(h)
  BY <1>c DEF Clone, AnswerClone
<1> QED
  <2>1. CASE \E k \in Key : Validate(h, k)
    BY <2>1, <1>1
  <2>2. CASE UploadBackup(h)
    BY <2>2, <1>2
  <2>3. CASE ChooseSession(h)
    BY <2>3, <1>3
  <2>4. CASE StoreCredentials(h) \/ LoadForests(h) \/ GrowForests(h)
          \/ StoreForest(h)
    BY <2>4, <1>4, <1>c
  <2>5. CASE Answer(h)
    BY <2>5, <1>5
  <2>6. CASE PanicOnForest(h) \/ LaunchScan(h)
    BY <2>6, <1>6
  <2>7. CASE \E s \in Session : CheckState(h, s)
    BY <2>7, <1>7
  <2> QED
    BY <2>1, <2>2, <2>3, <2>4, <2>5, <2>6, <2>7, <1>8 DEF Step

(* The browser has a cookie from its first answer on, until it expires.    *)
LEMMA CookieStays ==
  ASSUME SessionsTyped, Present, OneSession, [StoreNext]_storeVars, ~ raced,
         ~ ExpireCookie
  PROVE  /\ cookie # NoSession => cookie' # NoSession
         /\ told' # told => cookie' # NoSession
<1>1. ASSUME NEW h \in Handler, Answer(h) PROVE cookie' # NoSession
  <2>1. handler[h].sess # NoSession
    BY <1>1, KeyParts DEF Answer, Present, Choosing, IsThere
  <2> QED
    BY <1>1, <2>1 DEF Answer, OneSession
<1>2. ASSUME NEW h \in Handler, AnswerClone(h)
      PROVE  cookie' # NoSession /\ told' = told
  BY <1>2, KeyParts DEF AnswerClone, Present, Choosing, IsThere
<1>3. ASSUME \A h \in Handler : ~ Answer(h) /\ ~ AnswerClone(h)
      PROVE  cookie' = cookie /\ told' = told
  BY <1>3 DEF StoreNext, Step, storeVars, Validate,
     UploadBackup, ChooseSession, StoreCredentials,
     LoadForests, GrowForests, StoreForest, PanicOnForest,
     CheckState, LaunchScan, Clone, CopyCredentials,
     FinishScan
<1> QED
  BY <1>1, <1>2, <1>3

(* When it expires and nothing has raced, no request was under way.        *)
LEMMA ExpiredAlone ==
  ASSUME SessionsTyped, ExpireCookie, ~ raced'
  PROVE  /\ told' = {} /\ handler' = handler
         /\ \A h \in Handler : /\ handler[h].cookie = NoSession
                                /\ handler[h].at \notin Serving \cup {"cloned"}
<1>1. told' = {} /\ handler' = handler /\ \A h \in Handler : handler[h] = Idle
  BY DEF ExpireCookie
<1> QED
  BY <1>1 DEF Idle, Serving

LEMMA OneSessionStep ==
  SessionsTyped /\ Present /\ OneSession /\ [StoreNext]_storeVars
    => OneSession'
<1> SUFFICES ASSUME SessionsTyped, Present, OneSession,
                    [StoreNext]_storeVars
             PROVE  OneSession'
  OBVIOUS
<1>t. handler \in [Handler -> HandlerState]
  BY DEF SessionsTyped
<1>e. CASE ExpireCookie
  <2>1. ~ raced' =>
          /\ told' = {}
          /\ \A h \in Handler : /\ handler'[h].cookie = NoSession
                               /\ handler'[h].at \notin Serving \cup {"cloned"}
    BY <1>e, ExpiredAlone
  <2> QED
    BY <2>1 DEF OneSession, Calm
<1>n. SUFFICES ASSUME ~ ExpireCookie PROVE OneSession'
  BY <1>e
<1>r. ~ raced' => ~ raced
  BY RacedStays DEF SessionsTyped
<1>1. ~ raced' /\ told' # {} => cookie' # NoSession
  BY <1>n, <1>r, CookieStays DEF OneSession
<1>2. ASSUME ~ raced', NEW h \in Handler, handler'[h].cookie # NoSession
      PROVE  cookie' # NoSession
  <2>1. CASE handler'[h] = handler[h]
    BY <2>1, <1>2, <1>n, <1>r, CookieStays DEF OneSession
  <2>2. CASE handler'[h].cookie \in {handler[h].cookie, cookie}
    BY <2>2, <1>2, <1>n, <1>r, CookieStays DEF OneSession
  <2>3. CASE Step(h)
    <3>1. ASSUME NEW k \in Key, Validate(h, k) PROVE handler'[h].cookie = cookie
      BY <3>1, <1>t DEF Validate, HandlerState
    <3>2. ASSUME UploadBackup(h) PROVE handler'[h].cookie = cookie
      BY <3>2, <1>t DEF UploadBackup, HandlerState
    <3>3. ASSUME \/ ChooseSession(h) \/ StoreCredentials(h)
                 \/ LoadForests(h)
                 \/ GrowForests(h) \/ StoreForest(h)
          PROVE  handler'[h].cookie = handler[h].cookie
      BY <3>3, <1>t DEF ChooseSession, StoreCredentials, LoadForests,
         GrowForests, StoreForest, HandlerState
    <3>4. ASSUME PanicOnForest(h) \/ Answer(h) \/ LaunchScan(h)
                 \/ AnswerClone(h)
          PROVE  FALSE
      <4>1. handler'[h].cookie = NoSession
        BY <3>4, <1>t DEF PanicOnForest, Answer, LaunchScan,
           AnswerClone, Idle
      <4> QED
        BY <4>1, <1>2
    <3>5. ASSUME NEW s \in Session, CheckState(h, s)
          PROVE  handler'[h].cookie = cookie
      BY <3>5, <1>t DEF CheckState, Idle
    <3>6. ASSUME Clone(h) PROVE handler'[h].cookie = cookie
      BY <3>6, <1>t DEF Clone, Idle
    <3> QED
      BY <3>1, <3>2, <3>3, <3>4, <3>5, <3>6, <2>2, <2>3 DEF Step
  <2> QED
    BY <2>1, <2>3, <1>n, OthersWait
       DEF StoreNext, storeVars, CopyCredentials, FinishScan
<1>3. ASSUME Calm'
      PROVE  /\ \A h \in Handler : handler'[h].at # "cloned"
             /\ cookie' = NoSession =>
                  \A g, h \in Handler :
                    handler'[g].at \in Serving /\ handler'[h].at \in Serving => g = h
             /\ \A h \in Handler : handler'[h].at \in Serving =>
                  /\ handler'[h].cookie = cookie'
                  /\ cookie' # NoSession /\ handler'[h].at # "validated" =>
                       handler'[h].sess = cookie'
  <2>1. Calm
    BY <1>3, CalmStays
  <2>2. /\ \A g \in Handler : handler[g].at # "cloned"
        /\ cookie = NoSession =>
             \A f, g \in Handler : handler[f].at \in Serving /\ handler[g].at \in Serving => f = g
        /\ \A g \in Handler : handler[g].at \in Serving =>
             /\ handler[g].cookie = cookie
             /\ cookie # NoSession /\ handler[g].at # "validated"
                  => handler[g].sess = cookie
    BY <2>1 DEF OneSession
  <2>3. CASE handler' = handler /\ cookie' = cookie
    BY <2>2, <2>3
  <2>4. ASSUME NEW h \in Handler, Step(h)
        PROVE  /\ \A g \in Handler : handler'[g].at # "cloned"
               /\ cookie' = NoSession =>
                    \A f, g \in Handler :
                      handler'[f].at \in Serving /\ handler'[g].at \in Serving => f = g
               /\ \A g \in Handler : handler'[g].at \in Serving =>
                    /\ handler'[g].cookie = cookie'
                    /\ cookie' # NoSession /\ handler'[g].at # "validated" =>
                         handler'[g].sess = cookie'
    <3>1. \A g \in Handler \ {h} : handler'[g] = handler[g]
      BY <2>4, OthersWait
    <3>2. /\ handler'[h].at # "cloned"
          /\ handler'[h].at \in Serving =>
               /\ handler'[h].cookie = cookie'
               /\ cookie' # NoSession /\ handler'[h].at # "validated" =>
                    handler'[h].sess = cookie'
               /\ handler[h].at \notin Serving /\ cookie = NoSession =>
                    \A g \in Handler : handler[g].at \notin Serving
          /\ cookie' # cookie =>
               /\ cookie = NoSession
               /\ \A g \in Handler \ {h} : handler[g].at \notin Serving
      BY <2>1, <2>4, <1>3, OneSessionCalm
    <3>3. cookie' = NoSession => cookie = NoSession
      BY <1>n, <2>1, CookieStays DEF Calm
    <3>4. ASSUME NEW g \in Handler PROVE handler'[g].at # "cloned"
      BY <3>1, <3>2, <2>2
    <3>5. ASSUME cookie' = NoSession, NEW f \in Handler, NEW g \in Handler,
                 handler'[f].at \in Serving, handler'[g].at \in Serving
          PROVE  f = g
      BY <3>1, <3>2, <3>3, <3>5, <2>2
    <3>6. ASSUME NEW g \in Handler, handler'[g].at \in Serving
          PROVE  /\ handler'[g].cookie = cookie'
                 /\ cookie' # NoSession /\ handler'[g].at # "validated" =>
                      handler'[g].sess = cookie'
      <4>1. CASE g = h
        BY <4>1, <3>2, <3>6
      <4>2. CASE g # h
        BY <4>2, <3>1, <3>2, <3>6, <2>2
      <4> QED
        BY <4>1, <4>2
    <3> QED
      BY <3>4, <3>5, <3>6
  <2> QED
    BY <2>3, <2>4, <1>n DEF StoreNext, storeVars, CopyCredentials, FinishScan
<1>4. Calm' =>
        /\ \A h \in Handler : handler'[h].at # "cloned"
        /\ cookie' = NoSession =>
             \A g, h \in Handler :
               handler'[g].at \in Serving /\ handler'[h].at \in Serving => g = h
        /\ \A h \in Handler : handler'[h].at \in Serving =>
             /\ handler'[h].cookie = cookie'
             /\ cookie' # NoSession /\ handler'[h].at # "validated"
                  => handler'[h].sess = cookie'
  BY <1>3
<1> QED
  BY <1>1, <1>2, <1>4 DEF OneSession

LEMMA KeptInOneSessionStep ==
  SessionsTyped /\ Present /\ ForestsAlone /\ StoredKept /\ OneSession
    /\ KeptInOneSession /\ [StoreNext]_storeVars => KeptInOneSession'
<1> SUFFICES ASSUME SessionsTyped, Present, ForestsAlone, StoredKept, OneSession,
                    KeptInOneSession, [StoreNext]_storeVars, Calm', told' # {}
             PROVE  /\ cookie' # NoSession
                    /\ \A k \in told' : creds'[cookie'][k] \in Struct
  BY DEF KeptInOneSession, Calm
<1>1. Calm /\ ~ raced' /\ ~ raced
  BY CalmStays DEF Calm
<1>n. ~ ExpireCookie
  BY DEF ExpireCookie
<1>2. told # {} => /\ cookie # NoSession
                   /\ \A k \in told : creds[cookie][k] \in Struct
  BY <1>1 DEF KeptInOneSession, Calm
<1>3. ASSUME NEW h \in Handler, Answer(h)
      PROVE  /\ cookie' # NoSession
             /\ \A k \in told' : creds'[cookie'][k] \in Struct
  <2>1. /\ \/ handler[h].at = "stored"
           \/ handler[h].at = "storing" /\ handler[h].key = NoKey
        /\ told' = told \cup ({handler[h].key} \ {NoKey})
        /\ cookie' = IF handler[h].sess = handler[h].cookie THEN cookie ELSE handler[h].sess
        /\ creds' = creds
    BY <1>3 DEF Answer
  <2>2. cookie # NoSession => handler[h].sess = cookie
    BY <2>1, <1>1 DEF OneSession, Serving
  <2>3. cookie' # NoSession
    BY <1>1, <1>n, <2>1, CookieStays DEF OneSession
  <2>4. cookie' = handler[h].sess
    BY <2>1, <2>2, <2>3
  <2>5. ASSUME NEW k \in told PROVE creds'[cookie'][k] \in Struct
    BY <2>1, <2>2, <2>4, <1>2
  <2>6. ASSUME handler[h].key # NoKey
        PROVE  creds'[cookie'][handler[h].key] \in Struct
    BY <2>1, <2>4, <2>6, <1>1 DEF StoredKept, IsKept
  <2> QED
    BY <2>1, <2>3, <2>5, <2>6
<1>4. ASSUME \A h \in Handler : ~ Answer(h)
      PROVE  /\ cookie' # NoSession
             /\ \A k \in told' : creds'[cookie'][k] \in Struct
  <2>1. \A h \in Handler : ~ AnswerClone(h)
    BY <1>1 DEF OneSession, AnswerClone
  <2>2. cookie' = cookie /\ told' = told
    BY <1>4, <1>n, <2>1 DEF StoreNext, Step, storeVars, Validate,
       UploadBackup, ChooseSession, StoreCredentials,
       LoadForests, GrowForests, StoreForest, PanicOnForest,
       CheckState, LaunchScan, Clone, CopyCredentials,
       FinishScan
  <2>3. IsThere(cookie) /\ cookie \in Session /\ told \subseteq Key
    BY <2>2, <1>2 DEF Present, IsThere, SessionsTyped
  <2> QED
    BY <2>2, <2>3, <1>1, <1>2, StructsStay
<1> QED
  BY <1>3, <1>4

LEMMA SessionsInvInit == StoreInit => SessionsInv
<1> SUFFICES ASSUME StoreInit PROVE SessionsInv
  OBVIOUS
<1>1. Idle \in HandlerState /\ NoRun \in RunState
  BY DEF Idle, NoRun, HandlerState, RunState, HandlerPlaces, Choosing, Cookie,
     Pointer, NoForests, NoCreds
<1>2. SessionsTyped
  <2> HIDE DEF HandlerState, RunState
  <2> QED
    BY <1>1 DEF StoreInit, SessionsTyped, NoCreds, Pointer, Cookie
<1>3. /\ \A h \in Handler : /\ handler[h].at = "idle" /\ handler[h].cookie = NoSession
                            /\ handler[h].seen = NoForests
      /\ \A r \in Run : run[r].at = "none"
  BY DEF StoreInit, Idle, NoRun
<1>4. Present
  BY <1>3 DEF StoreInit, Present, Choosing
<1>5. Allocated
  BY <1>3, PointerParts, ZenonT(30) DEF StoreInit, Allocated, NoForests, NoCreds
<1>6. ForestsAlone /\ StoredKept
  BY <1>3 DEF StoreInit, ForestsAlone, ForestBusy, Serving, StoredKept
<1>7. OneSession
  BY <1>3 DEF StoreInit, OneSession, Serving
<1>8. ScanUsesStored /\ KeptInOneSession
  BY <1>3 DEF StoreInit, ScanUsesStored, KeptInOneSession
<1> QED
  BY <1>2, <1>4, <1>5, <1>6, <1>7, <1>8 DEF SessionsInv

(* What is stored in one session does not show in another one.             *)
LEMMA CredsIsolated ==
  ASSUME SessionsTyped, Present, Allocated, [StoreNext]_storeVars,
         NEW s \in Session, state[s] # "absent",
           CredsOf(s)' # CredsOf(s)
  PROVE  \E h \in Handler : /\ handler[h].at \in {"storing", "growing", "grown"}
                            /\ handler[h].sess = s
<1>1. ASSUME creds'[s] = creds[s],
             \A k \in Key : creds[s][k] \in Struct
               => heap'[creds[s][k]] = heap[creds[s][k]]
      PROVE  CredsOf(s)' = CredsOf(s)
  BY <1>1 DEF CredsOf
<1>2. ASSUME NEW h \in Handler, StoreCredentials(h) \/ StoreForest(h),
             handler[h].sess # s
      PROVE  CredsOf(s)' = CredsOf(s)
  <2>1. PICK c \in Struct :
          /\ heap[c] = Nil
          /\ heap' = [heap EXCEPT ![c] = c]
          /\ creds' = [creds EXCEPT ![handler[h].sess][handler[h].key] = c]
    BY <1>2, StoreEffect
  <2>2. creds'[s] = creds[s]
    BY <2>1, <1>2 DEF SessionsTyped
  <2>3. ASSUME NEW k \in Key, creds[s][k] \in Struct
        PROVE  heap'[creds[s][k]] = heap[creds[s][k]]
    <3>1. creds[s][k] # c
      BY <2>1, <2>3, PointerParts DEF Allocated
    <3> QED
      BY <2>1, <3>1 DEF SessionsTyped
  <2> QED
    BY <2>2, <2>3, <1>1
<1>3. ASSUME NEW h \in Handler, StoreCredentials(h) \/ StoreForest(h)
      PROVE  handler[h].at \in {"storing", "growing", "grown"} /\ handler[h].sess = s
  BY <1>2, <1>3 DEF StoreCredentials, StoreForest
<1>4. ASSUME NEW h \in Handler, GrowForests(h)
      PROVE  handler[h].at \in {"storing", "growing", "grown"} /\ handler[h].sess = s
  <2>1. ASSUME handler[h].sess # s PROVE CredsOf(s)' = CredsOf(s)
    <3>1. heap' = heap /\ creds'[s] = creds[s]
      BY <1>4, <2>1 DEF GrowForests, SessionsTyped
    <3> QED
      BY <3>1, <1>1
  <2> QED
    BY <1>4, <2>1 DEF GrowForests
<1>5. ASSUME NEW h \in Handler, Clone(h) PROVE FALSE
  <2>1. heap' = heap /\ creds'[s] = creds[s]
    BY <1>5, CloneEffect DEF SessionsTyped
  <2> QED
    BY <2>1, <1>1
<1>6. ASSUME UNCHANGED <<creds, heap>> PROVE FALSE
  BY <1>1, <1>6
<1> QED
  BY <1>3, <1>4, <1>5, <1>6, CredsKept

(* SessionsInv holds in every state: each of its parts is preserved with   *)
(* the help of those before it.                                            *)
THEOREM SessionsInductive == StoreSpec => []SessionsInv
<1>1. StoreInit => SessionsInv
  BY SessionsInvInit
<1>2. SessionsInv /\ [StoreNext]_storeVars => SessionsInv'
  <2> SUFFICES ASSUME SessionsInv, [StoreNext]_storeVars PROVE SessionsInv'
    OBVIOUS
  <2>1. SessionsTyped /\ Present /\ Allocated /\ ForestsAlone /\ StoredKept
          /\ OneSession /\ ScanUsesStored /\ KeptInOneSession
    BY DEF SessionsInv
  <2> QED
    BY <2>1, SessionsTypedStep, PresentStep, AllocatedStep, ForestsAloneStep, StoredKeptStep,
       OneSessionStep, ScanUsesStoredStep, KeptInOneSessionStep DEF SessionsInv
<1> QED
  BY <1>1, <1>2, PTL DEF StoreSpec

(* However the handlers that validate, clone and start interleave, a scan  *)
(* copies every credential that was stored in its session before it was    *)
(* started.  What a handler writes late replaces a struct by another one.  *)
THEOREM ScansUseStored == StoreSpec => []ScanUsesStored
<1>1. SessionsInv => ScanUsesStored
  BY DEF SessionsInv
<1> QED
  BY <1>1, SessionsInductive, PTL

(* As long as nothing raced and no scan was started, what the browser was  *)
(* told is valid is in the session of its cookie: requests under way have  *)
(* that cookie, and the first one is served alone.                         *)
THEOREM CredentialsInOneSession ==
  StoreSpec => []KeptInOneSession
<1>1. SessionsInv => KeptInOneSession
  BY DEF SessionsInv
<1> QED
  BY <1>1, SessionsInductive, PTL

(* A clone shares structs with the session it is made from, and nobody     *)
(* writes to a struct that is in use: what one session's credentials say   *)
(* changes only by a handler that chose that session.                      *)
THEOREM ClonesAreIsolated == StoreSpec => CloneIsolated
<1>1. SessionsInv /\ [StoreNext]_storeVars =>
        [\A s \in Session :
           state[s] # "absent" /\ CredsOf(s)' # CredsOf(s) =>
             \E h \in Handler : /\ handler[h].at \in {"storing", "growing", "grown"}
                                /\ handler[h].sess = s]_storeVars
  BY CredsIsolated DEF SessionsInv
<1> QED
  BY <1>1, SessionsInductive, PTL DEF StoreSpec, CloneIsolated

-----------------------------------------------------------------------------
(* Results of the shared scanners.                                         *)

(* Where the jobs of each kind of scanner may be. *)
NiosPlaces == {"counted", "features", "flags"}
WapiPlaces == {"targeted", "connected", "reported"}
ADPlaces   == {"stored", "adMetrics"}
Places == {"idle", "scanning", "metrics", "done"} \cup NiosPlaces \cup WapiPlaces \cup ADPlaces

Results == (Job \cup {NoJob}) \X (Job \cup {NoJob})

ScannersTyped ==
  /\ running \subseteq Sess
  /\ overlapped \in BOOLEAN
  /\ pc \in [Job -> Places]
  /\ metrics \in [{"nios", "wapi", "ad"} -> Results]
  /\ fetched \in [Job -> Results]
  /\ features \in Results /\ flags \in Results
  /\ target \in Job \cup {NoJob}
  /\ account \in Job \cup {NoJob}
  /\ sessNios \in [Sess -> Results] /\ sessGrid \in [Sess -> Results]
  /\ sessFlags \in [Sess -> Results] /\ sessAD \in [Sess -> Results]
  /\ since \in [Job -> SUBSET Job]
  /\ failed \subseteq Job

(* A job is at the places of its scanner, in a session that is running,    *)
(* and a session scans NIOS from a backup or over WAPI.                    *)
JobsPlaced ==
  \A j \in Job :
    /\ pc[j] \in NiosPlaces => j[2] = "nios"
    /\ pc[j] \in WapiPlaces => j[2] = "wapi"
    /\ pc[j] \in ADPlaces => j[2] \in {"ad", "ad2"}
    /\ pc[j] = "metrics" => j[2] \in {"nios", "wapi"}
    /\ pc[j] \notin {"idle", "done"} => j[1] \in running
    /\ j \in failed => pc[j] = "done"
    /\ \A k \in Job :
         j[1] = k[1] /\ j[2] = "nios" /\ k[2] = "wapi" => pc[j] = "idle" \/ pc[k] = "idle"

(* As long as scans do not overlap, one session runs at a time.            *)
OneRuns == ~ overlapped => \A s, t \in running : s = t

(* A job has stored something from its store on.  Since then the scanner   *)
(* has what the job or a later one stored, of the same session when scans  *)
(* do not overlap.                                                         *)
StoredOwnOf(j) ==
    /\ pc[j] \in {"idle", "scanning"} \cup WapiPlaces \cup {"counted"} => since[j] = {}
    /\ pc[j] \in {"metrics", "features", "flags", "stored"} => since[j] # {}
    /\ since[j] # {} =>
         LET x == metrics[ScannerOf(j)]
         IN  /\ x # Nothing =>
                  /\ x[1] \in since[j]
                  /\ ~ overlapped /\ j[1] \in running => x[1][1] = j[1] /\ x[2][1] = j[1]
             /\ j[2] \in {"ad", "ad2"} => x # Nothing
             /\ j[2] = "nios" =>
                  /\ features[1] \in since[j]
                  /\ ~ overlapped /\ j[1] \in running => features = <<j, j>>

StoredOwn == \A j \in Job : StoredOwnOf(j)

(* What a WAPI job connects to is of its session when scans do not overlap.  *)
Connected ==
  ~ overlapped => \A j \in Job :
    /\ pc[j] \in {"targeted", "connected"} => target[1] = j[1]
    /\ pc[j] = "reported" => fetched[j][1][1] = j[1]

(* Jobs that have attached the metrics of their scanner. *)
HasAttached(j) == Succeeded(j) \/ pc[j] \in {"features", "flags"}

(* OwnResults, from the step on in which a job attaches each result.       *)
OwnOf(j) ==
  since[j] # {} =>
    /\ HasAttached(j) /\ Attached(j) # Nothing =>
         /\ Attached(j)[1] \in since[j]
         /\ ~ overlapped => Attached(j)[1][1] = j[1] /\ Attached(j)[2][1] = j[1]
    /\ j[2] = "nios" /\ (Succeeded(j) \/ pc[j] = "flags") =>
         /\ sessGrid[j[1]][1] \in since[j]
         /\ ~ overlapped => sessGrid[j[1]] = <<j, j>>

OwnOnceAttached == \A j \in Job : OwnOf(j)

ScannersInv ==
  /\ ScannersTyped /\ JobsPlaced /\ OneRuns /\ StoredOwn /\ Connected /\ OwnOnceAttached
  /\ FailureAttachesNothing

LEMMA JobParts == \A j \in Job : j[1] \in Sess /\ j[2] \in Kind /\ j = <<j[1], j[2]>>
  BY DEF Job

LEMMA OneNiosJob ==
  ASSUME JobsPlaced, NEW j \in Job, NEW k \in Job, j # k, j[1] = k[1],
         j[2] \in {"nios", "wapi"}, k[2] \in {"nios", "wapi"}
  PROVE  pc[j] = "idle" \/ pc[k] = "idle"
<1>1. j[2] # k[2]
  BY JobParts
<1> QED
  BY <1>1 DEF JobsPlaced

LEMMA ScannersTypedStep ==
  ScannersTyped /\ JobsPlaced /\ [SharedNext]_sharedVars => ScannersTyped'
<1> SUFFICES ASSUME ScannersTyped /\ JobsPlaced, [SharedNext]_sharedVars
             PROVE  ScannersTyped'
  OBVIOUS
<1> USE SharedAssumption DEF ScannersTyped, Results, Places, NiosPlaces, WapiPlaces, ADPlaces,
      ScannerOf, JobsPlaced, Nothing, runVars, scannerVars,
      sessionVars
<1>1. ASSUME NEW s \in Sess, NEW kinds \in ScanRequests, StartRun(s, kinds)
      PROVE  ScannersTyped'
  BY <1>1, JobParts DEF StartRun, ScanRequests
<1>2. ASSUME NEW s \in Sess, EndRun(s) PROVE ScannersTyped'
  BY <1>2, JobParts DEF EndRun
<1>3. ASSUME NEW j \in Job, Fail(j) PROVE ScannersTyped'
  BY <1>3, JobParts DEF Fail, Goto
<1>4. ASSUME NEW j \in Job, NEW some \in BOOLEAN, NiosCount(j, some)
      PROVE  ScannersTyped'
  BY <1>4, JobParts DEF NiosCount, Goto
<1>5. ASSUME NEW j \in Job, NEW result \in {<<j, j>>, Nothing},
             NiosStore(j, result)
      PROVE  ScannersTyped'
  BY <1>5, JobParts DEF NiosStore, Store, Goto
<1>6. ASSUME NEW j \in Job, AttachMetrics(j) PROVE ScannersTyped'
  <2>1. pc' = [pc EXCEPT ![j] = IF j[2] = "nios" THEN "features" ELSE "done"]
    BY <1>6 DEF AttachMetrics, Goto
  <2>2. pc' \in [Job -> Places]
    BY <2>1
  <2>3. j[1] \in Sess /\ metrics[j[2]] \in Results
    BY <1>6, JobParts DEF AttachMetrics
  <2>4. sessNios' \in {sessNios, [sessNios EXCEPT ![j[1]] = metrics[j[2]]]}
    BY <1>6 DEF AttachMetrics
  <2>5. sessNios' \in [Sess -> Results]
    <3> HIDE DEF Results, Places
    <3> QED
      BY <2>3, <2>4
  <2> QED
    BY <1>6, <2>2, <2>5 DEF AttachMetrics
<1>7. ASSUME NEW j \in Job, AttachFeatures(j) PROVE ScannersTyped'
  BY <1>7, JobParts DEF AttachFeatures, Goto
<1>8. ASSUME NEW j \in Job, AttachFlags(j) PROVE ScannersTyped'
  <2> HIDE DEF Results
  <2>1. sessFlags' \in [Sess -> Results]
    BY <1>8, JobParts DEF AttachFlags
  <2> QED
    BY <1>8, <2>1 DEF AttachFlags, Goto
<1>9. ASSUME NEW j \in Job, WapiTarget(j) PROVE ScannersTyped'
  BY <1>9, JobParts DEF WapiTarget, Goto
<1>10. ASSUME NEW j \in Job, WapiAccount(j) PROVE ScannersTyped'
  BY <1>10, JobParts DEF WapiAccount, Goto
<1>11. ASSUME NEW j \in Job, WapiFetch(j) PROVE ScannersTyped'
  BY <1>11, JobParts DEF WapiFetch, Goto
<1>12. ASSUME NEW j \in Job, NEW empty \in BOOLEAN, WapiStore(j, empty)
       PROVE  ScannersTyped'
  BY <1>12, JobParts DEF WapiStore, Store, Goto
<1>13. ASSUME NEW j \in Job, ADStore(j) PROVE ScannersTyped'
  BY <1>13, JobParts DEF ADStore, Store, Goto
<1>14. ASSUME NEW j \in Job, ADReturn(j) PROVE ScannersTyped'
  BY <1>14, JobParts DEF ADReturn, Goto
<1>15. ASSUME NEW j \in Job, AttachAD(j) PROVE ScannersTyped'
  <2> HIDE DEF Results
  <2>1. sessAD' \in [Sess -> Results]
    BY <1>15, JobParts DEF AttachAD
  <2> QED
    BY <1>15, <2>1 DEF AttachAD, Goto
<1>16. CASE UNCHANGED sharedVars
  BY <1>16 DEF sharedVars
<1> HIDE DEF ScannersTyped, Results, Places, NiosPlaces, WapiPlaces, ADPlaces,
      ScannerOf, JobsPlaced, Nothing
<1> QED
  BY <1>1, <1>2, <1>3, <1>4, <1>5, <1>6, <1>7, <1>8, <1>9, <1>10, <1>11, <1>12, <1>13, <1>14,
     <1>15, <1>16 DEF SharedNext, NiosStep, WapiStep, ADStep

LEMMA JobsPlacedStep ==
  ScannersTyped /\ JobsPlaced /\ [SharedNext]_sharedVars => JobsPlaced'
<1> SUFFICES ASSUME ScannersTyped /\ JobsPlaced, [SharedNext]_sharedVars PROVE JobsPlaced'
  OBVIOUS
<1> USE DEF ScannersTyped, Places, NiosPlaces, WapiPlaces, ADPlaces, JobsPlaced, runVars,
      scannerVars, sessionVars
<1>1. ASSUME NEW s \in Sess, NEW kinds \in ScanRequests, StartRun(s, kinds)
      PROVE  JobsPlaced'
  BY <1>1, JobParts DEF StartRun, ScanRequests
<1>2. ASSUME NEW s \in Sess, EndRun(s) PROVE JobsPlaced'
  BY <1>2, JobParts DEF EndRun
<1>3. ASSUME NEW j \in Job, Fail(j) PROVE JobsPlaced'
  BY <1>3, JobParts DEF Fail, Goto
<1>4. ASSUME NEW j \in Job, NEW some \in BOOLEAN, NiosCount(j, some)
      PROVE  JobsPlaced'
  BY <1>4, JobParts DEF NiosCount, Goto
<1>5. ASSUME NEW j \in Job, NEW result \in {<<j, j>>, Nothing},
             NiosStore(j, result)
      PROVE  JobsPlaced'
  BY <1>5, JobParts DEF NiosStore, Store, Goto
<1>6. ASSUME NEW j \in Job, AttachMetrics(j) PROVE JobsPlaced'
  BY <1>6, JobParts DEF AttachMetrics, Goto
<1>7. ASSUME NEW j \in Job, AttachFeatures(j) PROVE JobsPlaced'
  BY <1>7, JobParts DEF AttachFeatures, Goto
<1>8. ASSUME NEW j \in Job, AttachFlags(j) PROVE JobsPlaced'
  BY <1>8, JobParts DEF AttachFlags, Goto
<1>9. ASSUME NEW j \in Job, WapiTarget(j) PROVE JobsPlaced'
  BY <1>9, JobParts DEF WapiTarget, Goto
<1>10. ASSUME NEW j \in Job, WapiAccount(j) PROVE JobsPlaced'
  BY <1>10, JobParts DEF WapiAccount, Goto
<1>11. ASSUME NEW j \in Job, WapiFetch(j) PROVE JobsPlaced'
  BY <1>11, JobParts DEF WapiFetch, Goto
<1>12. ASSUME NEW j \in Job, NEW empty \in BOOLEAN, WapiStore(j, empty)
       PROVE  JobsPlaced'
  BY <1>12, JobParts DEF WapiStore, Store, Goto
<1>13. ASSUME NEW j \in Job, ADStore(j) PROVE JobsPlaced'
  BY <1>13, JobParts DEF ADStore, Store, Goto
<1>14. ASSUME NEW j \in Job, ADReturn(j) PROVE JobsPlaced'
  BY <1>14, JobParts DEF ADReturn, Goto
<1>15. ASSUME NEW j \in Job, AttachAD(j) PROVE JobsPlaced'
  BY <1>15, JobParts DEF AttachAD, Goto
<1>16. CASE UNCHANGED sharedVars
  BY <1>16 DEF sharedVars
<1> HIDE DEF ScannersTyped, Places, NiosPlaces, WapiPlaces, ADPlaces, JobsPlaced
<1> QED
  BY <1>1, <1>2, <1>3, <1>4, <1>5, <1>6, <1>7, <1>8, <1>9, <1>10, <1>11, <1>12, <1>13, <1>14,
     <1>15, <1>16 DEF SharedNext, NiosStep, WapiStep, ADStep

LEMMA OneRunsStep == ScannersTyped /\ OneRuns /\ [SharedNext]_sharedVars => OneRuns'
<1> SUFFICES ASSUME ScannersTyped /\ OneRuns, [SharedNext]_sharedVars PROVE OneRuns'
  OBVIOUS
<1> USE DEF ScannersTyped, OneRuns, runVars, scannerVars, sessionVars
<1>1. ASSUME NEW s \in Sess, NEW kinds \in ScanRequests, StartRun(s, kinds)
      PROVE  OneRuns'
  BY <1>1, JobParts DEF StartRun, ScanRequests
<1>2. ASSUME NEW s \in Sess, EndRun(s) PROVE OneRuns'
  BY <1>2, JobParts DEF EndRun
<1>3. ASSUME NEW j \in Job, Fail(j) PROVE OneRuns'
  BY <1>3, JobParts DEF Fail, Goto
<1>4. ASSUME NEW j \in Job, NEW some \in BOOLEAN, NiosCount(j, some)
      PROVE  OneRuns'
  BY <1>4, JobParts DEF NiosCount, Goto
<1>5. ASSUME NEW j \in Job, NEW result \in {<<j, j>>, Nothing},
             NiosStore(j, result)
      PROVE  OneRuns'
  BY <1>5, JobParts DEF NiosStore, Store, Goto
<1>6. ASSUME NEW j \in Job, AttachMetrics(j) PROVE OneRuns'
  BY <1>6, JobParts DEF AttachMetrics, Goto
<1>7. ASSUME NEW j \in Job, AttachFeatures(j) PROVE OneRuns'
  BY <1>7, JobParts DEF AttachFeatures, Goto
<1>8. ASSUME NEW j \in Job, AttachFlags(j) PROVE OneRuns'
  BY <1>8, JobParts DEF AttachFlags, Goto
<1>9. ASSUME NEW j \in Job, WapiTarget(j) PROVE OneRuns'
  BY <1>9, JobParts DEF WapiTarget, Goto
<1>10. ASSUME NEW j \in Job, WapiAccount(j) PROVE OneRuns'
  BY <1>10, JobParts DEF WapiAccount, Goto
<1>11. ASSUME NEW j \in Job, WapiFetch(j) PROVE OneRuns'
  BY <1>11, JobParts DEF WapiFetch, Goto
<1>12. ASSUME NEW j \in Job, NEW empty \in BOOLEAN, WapiStore(j, empty)
       PROVE  OneRuns'
  BY <1>12, JobParts DEF WapiStore, Store, Goto
<1>13. ASSUME NEW j \in Job, ADStore(j) PROVE OneRuns'
  BY <1>13, JobParts DEF ADStore, Store, Goto
<1>14. ASSUME NEW j \in Job, ADReturn(j) PROVE OneRuns'
  BY <1>14, JobParts DEF ADReturn, Goto
<1>15. ASSUME NEW j \in Job, AttachAD(j) PROVE OneRuns'
  BY <1>15, JobParts DEF AttachAD, Goto
<1>16. CASE UNCHANGED sharedVars
  BY <1>16 DEF sharedVars
<1> HIDE DEF ScannersTyped, OneRuns
<1> QED
  BY <1>1, <1>2, <1>3, <1>4, <1>5, <1>6, <1>7, <1>8, <1>9, <1>10, <1>11, <1>12, <1>13, <1>14,
     <1>15, <1>16 DEF SharedNext, NiosStep, WapiStep, ADStep

LEMMA ConnectedStep ==
  ScannersTyped /\ JobsPlaced /\ OneRuns /\ Connected /\ [SharedNext]_sharedVars
    => Connected'
<1> SUFFICES ASSUME ScannersTyped /\ JobsPlaced /\ OneRuns /\ Connected,
                    [SharedNext]_sharedVars
             PROVE  Connected'
  OBVIOUS
<1> USE DEF ScannersTyped, JobsPlaced, OneRuns, Connected, NiosPlaces, WapiPlaces, ADPlaces,
      runVars, scannerVars, sessionVars
<1>1. ASSUME NEW s \in Sess, NEW kinds \in ScanRequests, StartRun(s, kinds)
      PROVE  Connected'
  BY <1>1, JobParts DEF StartRun, ScanRequests
<1>2. ASSUME NEW s \in Sess, EndRun(s) PROVE Connected'
  BY <1>2, JobParts DEF EndRun
<1>3. ASSUME NEW j \in Job, Fail(j) PROVE Connected'
  BY <1>3, JobParts DEF Fail, Goto
<1>4. ASSUME NEW j \in Job, NEW some \in BOOLEAN, NiosCount(j, some)
      PROVE  Connected'
  BY <1>4, JobParts DEF NiosCount, Goto
<1>5. ASSUME NEW j \in Job, NEW result \in {<<j, j>>, Nothing},
             NiosStore(j, result)
      PROVE  Connected'
  BY <1>5, JobParts DEF NiosStore, Store, Goto
<1>6. ASSUME NEW j \in Job, AttachMetrics(j) PROVE Connected'
  BY <1>6, JobParts DEF AttachMetrics, Goto
<1>7. ASSUME NEW j \in Job, AttachFeatures(j) PROVE Connected'
  BY <1>7, JobParts DEF AttachFeatures, Goto
<1>8. ASSUME NEW j \in Job, AttachFlags(j) PROVE Connected'
  BY <1>8, JobParts DEF AttachFlags, Goto
<1>9. ASSUME NEW j \in Job, WapiTarget(j) PROVE Connected'
  BY <1>9, JobParts DEF WapiTarget, Goto
<1>10. ASSUME NEW j \in Job, WapiAccount(j) PROVE Connected'
  BY <1>10, JobParts DEF WapiAccount, Goto
<1>11. ASSUME NEW j \in Job, WapiFetch(j) PROVE Connected'
  BY <1>11, JobParts DEF WapiFetch, Goto
<1>12. ASSUME NEW j \in Job, NEW empty \in BOOLEAN, WapiStore(j, empty)
       PROVE  Connected'
  BY <1>12, JobParts DEF WapiStore, Store, Goto
<1>13. ASSUME NEW j \in Job, ADStore(j) PROVE Connected'
  BY <1>13, JobParts DEF ADStore, Store, Goto
<1>14. ASSUME NEW j \in Job, ADReturn(j) PROVE Connected'
  BY <1>14, JobParts DEF ADReturn, Goto
<1>15. ASSUME NEW j \in Job, AttachAD(j) PROVE Connected'
  BY <1>15, JobParts DEF AttachAD, Goto
<1>16. CASE UNCHANGED sharedVars
  BY <1>16 DEF sharedVars
<1> HIDE DEF ScannersTyped, JobsPlaced, OneRuns, Connected, NiosPlaces, WapiPlaces, ADPlaces
<1> QED
  BY <1>1, <1>2, <1>3, <1>4, <1>5, <1>6, <1>7, <1>8, <1>9, <1>10, <1>11, <1>12, <1>13, <1>14,
     <1>15, <1>16 DEF SharedNext, NiosStep, WapiStep, ADStep

LEMMA FailureStep ==
  ScannersTyped /\ JobsPlaced /\ FailureAttachesNothing
    /\ [SharedNext]_sharedVars => FailureAttachesNothing'
<1> SUFFICES ASSUME ScannersTyped /\ JobsPlaced /\ FailureAttachesNothing,
                    [SharedNext]_sharedVars
             PROVE  FailureAttachesNothing'
  OBVIOUS
<1> USE SharedAssumption DEF ScannersTyped, JobsPlaced, FailureAttachesNothing,
      Succeeded, ScannerOf, NiosPlaces, WapiPlaces, ADPlaces, runVars,
      scannerVars, sessionVars
<1>1. ASSUME NEW s \in Sess, NEW kinds \in ScanRequests, StartRun(s, kinds)
      PROVE  FailureAttachesNothing'
  BY <1>1, JobParts DEF StartRun, ScanRequests
<1>2. ASSUME NEW s \in Sess, EndRun(s) PROVE FailureAttachesNothing'
  BY <1>2, JobParts DEF EndRun
<1>3. ASSUME NEW j \in Job, Fail(j) PROVE FailureAttachesNothing'
  BY <1>3, JobParts, SMTT(20) DEF Fail, Goto
<1>4. ASSUME NEW j \in Job, NEW some \in BOOLEAN, NiosCount(j, some)
      PROVE  FailureAttachesNothing'
  BY <1>4, JobParts DEF NiosCount, Goto
<1>5. ASSUME NEW j \in Job, NEW result \in {<<j, j>>, Nothing},
             NiosStore(j, result)
      PROVE  FailureAttachesNothing'
  <2>1. /\ pc' = [pc EXCEPT ![j] = "metrics"] /\ pc[j] = "counted"
        /\ UNCHANGED <<sessAD, sessNios, failed>>
    BY <1>5 DEF NiosStore, Goto
  <2> QED
    BY <2>1
<1>6. ASSUME NEW j \in Job, AttachMetrics(j)
      PROVE  FailureAttachesNothing'
  BY <1>6, JobParts DEF AttachMetrics, Goto
<1>7. ASSUME NEW j \in Job, AttachFeatures(j)
      PROVE  FailureAttachesNothing'
  BY <1>7, JobParts DEF AttachFeatures, Goto
<1>8. ASSUME NEW j \in Job, AttachFlags(j)
      PROVE  FailureAttachesNothing'
  BY <1>8, JobParts DEF AttachFlags, Goto
<1>9. ASSUME NEW j \in Job, WapiTarget(j) PROVE FailureAttachesNothing'
  BY <1>9, JobParts DEF WapiTarget, Goto
<1>10. ASSUME NEW j \in Job, WapiAccount(j)
       PROVE  FailureAttachesNothing'
  BY <1>10, JobParts DEF WapiAccount, Goto
<1>11. ASSUME NEW j \in Job, WapiFetch(j) PROVE FailureAttachesNothing'
  BY <1>11, JobParts DEF WapiFetch, Goto
<1>12. ASSUME NEW j \in Job, NEW empty \in BOOLEAN, WapiStore(j, empty)
       PROVE  FailureAttachesNothing'
  BY <1>12, JobParts DEF WapiStore, Store, Goto
<1>13. ASSUME NEW j \in Job, ADStore(j) PROVE FailureAttachesNothing'
  BY <1>13, JobParts DEF ADStore, Store, Goto
<1>14. ASSUME NEW j \in Job, ADReturn(j) PROVE FailureAttachesNothing'
  <2>1. /\ pc' = [pc EXCEPT ![j] = "adMetrics"] /\ pc[j] \in {"scanning", "stored"}
        /\ j[2] \in {"ad", "ad2"} /\ UNCHANGED <<sessAD, sessNios, failed>>
    BY <1>14 DEF ADReturn, Goto
  <2>2. \A k \in Job : k # j => pc'[k] = pc[k]
    BY <2>1
  <2>3. \A k \in Job : Succeeded(k) => Succeeded(k)'
    BY <2>1, <2>2
  <2> QED
    BY <2>1, <2>2, <2>3
<1>15. ASSUME NEW j \in Job, AttachAD(j) PROVE FailureAttachesNothing'
  BY <1>15, JobParts DEF AttachAD, Goto
<1>16. CASE UNCHANGED sharedVars
  BY <1>16 DEF sharedVars
<1> HIDE DEF ScannersTyped, JobsPlaced, FailureAttachesNothing,
      Succeeded, ScannerOf, NiosPlaces, WapiPlaces, ADPlaces
<1> QED
  BY <1>1, <1>2, <1>3, <1>4, <1>5, <1>6, <1>7, <1>8, <1>9, <1>10, <1>11, <1>12, <1>13, <1>14,
     <1>15, <1>16 DEF SharedNext, NiosStep, WapiStep, ADStep

LEMMA FreshStep ==
  ScannersTyped /\ JobsPlaced /\ OneRuns /\ Connected /\ StoredOwn
    /\ [SharedNext]_sharedVars => StoredOwn'
<1> SUFFICES ASSUME ScannersTyped /\ JobsPlaced /\ OneRuns /\ Connected /\ StoredOwn,
                    [SharedNext]_sharedVars
             PROVE  StoredOwn'
  OBVIOUS
<1> USE SharedAssumption DEF ScannersTyped, JobsPlaced, OneRuns, Connected, StoredOwn, StoredOwnOf,
      ScannerOf, Nothing, NoJob, NiosPlaces, WapiPlaces, ADPlaces,
      runVars, scannerVars, sessionVars
<1>1. ASSUME NEW s \in Sess, NEW kinds \in ScanRequests, StartRun(s, kinds)
      PROVE  StoredOwn'
  BY <1>1, JobParts DEF StartRun, ScanRequests
<1>2. ASSUME NEW s \in Sess, EndRun(s) PROVE StoredOwn'
  BY <1>2, JobParts DEF EndRun
<1>3. ASSUME NEW j \in Job, Fail(j) PROVE StoredOwn'
  BY <1>3, JobParts DEF Fail, Goto
<1>4. ASSUME NEW j \in Job, NEW some \in BOOLEAN, NiosCount(j, some)
      PROVE  StoredOwn'
  BY <1>4, JobParts DEF NiosCount, Goto
<1>5. ASSUME NEW j \in Job, NEW result \in {<<j, j>>, Nothing},
             NiosStore(j, result)
      PROVE  StoredOwn'
  <2> SUFFICES ASSUME NEW k \in Job PROVE StoredOwnOf(k)'
    BY DEF StoredOwn
  <2>1. /\ pc[j] = "counted" /\ j[2] = "nios" /\ pc' = [pc EXCEPT ![j] = "metrics"]
        /\ metrics' = [metrics EXCEPT !["nios"] = result] /\ features' = <<j, j>>
        /\ UNCHANGED <<running, overlapped>>
    BY <1>5 DEF NiosStore, Goto, Store
  <2>2. since'[k] = IF k = j \/ (since[k] # {} /\ ScannerOf(k) = "nios")
                    THEN since[k] \cup {j} ELSE since[k]
    BY <1>5, <2>1 DEF NiosStore, Store
  <2>3. CASE ScannerOf(k) # "nios"
    BY <2>1, <2>2, <2>3, JobParts
  <2>4. CASE ScannerOf(k) = "nios"
    <3>1. k[2] = "nios" /\ metrics'["nios"] = result
      BY <2>1, <2>4
    <3>2. ~ overlapped /\ k[1] \in running => k = j
      <4>1. ~ overlapped /\ k[1] \in running => k[1] = j[1]
        BY <2>1
      <4>2. k = <<k[1], "nios">> /\ j = <<j[1], "nios">>
        BY <2>1, <3>1, JobParts
      <4> QED
        BY <4>1, <4>2
    <3>3. since'[k] # {} => j \in since'[k]
      BY <2>2, <2>4
    <3>4. result # Nothing => result = <<j, j>>
      OBVIOUS
    <3> QED
      BY <2>1, <2>2, <2>4, <3>1, <3>2, <3>3, <3>4
  <2> QED
    BY <2>3, <2>4
<1>6. ASSUME NEW j \in Job, AttachMetrics(j) PROVE StoredOwn'
  BY <1>6, JobParts DEF AttachMetrics, Goto
<1>7. ASSUME NEW j \in Job, AttachFeatures(j) PROVE StoredOwn'
  BY <1>7, JobParts DEF AttachFeatures, Goto
<1>8. ASSUME NEW j \in Job, AttachFlags(j) PROVE StoredOwn'
  BY <1>8, JobParts DEF AttachFlags, Goto
<1>9. ASSUME NEW j \in Job, WapiTarget(j) PROVE StoredOwn'
  BY <1>9, JobParts DEF WapiTarget, Goto
<1>10. ASSUME NEW j \in Job, WapiAccount(j) PROVE StoredOwn'
  BY <1>10, JobParts DEF WapiAccount, Goto
<1>11. ASSUME NEW j \in Job, WapiFetch(j) PROVE StoredOwn'
  BY <1>11, JobParts DEF WapiFetch, Goto
<1>12. ASSUME NEW j \in Job, NEW empty \in BOOLEAN, WapiStore(j, empty)
       PROVE  StoredOwn'
  BY <1>12, JobParts DEF WapiStore, Store, Goto
<1>13. ASSUME NEW j \in Job, ADStore(j) PROVE StoredOwn'
  <2> SUFFICES ASSUME NEW k \in Job PROVE StoredOwnOf(k)'
    BY DEF StoredOwn
  <2>1. /\ pc[j] = "scanning" /\ j[2] \in {"ad", "ad2"} /\ pc' = [pc EXCEPT ![j] = "stored"]
        /\ metrics' = [metrics EXCEPT !["ad"] = <<j, j>>]
        /\ UNCHANGED <<running, overlapped, features>>
    BY <1>13 DEF ADStore, Goto, Store
  <2>2. since'[k] = IF k = j \/ (since[k] # {} /\ ScannerOf(k) = "ad")
                    THEN since[k] \cup {j} ELSE since[k]
    BY <1>13, <2>1 DEF ADStore, Store
  <2>3. CASE ScannerOf(k) # "ad"
    BY <2>1, <2>2, <2>3, JobParts
  <2>4. CASE ScannerOf(k) = "ad"
    <3>1. k[2] # "nios" /\ metrics'["ad"] = <<j, j>> /\ <<j, j>> # Nothing
      BY <2>1, <2>4, JobParts
    <3>2. ~ overlapped /\ k[1] \in running => k[1] = j[1]
      BY <2>1, JobParts, SMTT(20)
    <3>3. since'[k] # {} => j \in since'[k]
      BY <2>2, <2>4
    <3> QED
      BY <2>1, <2>2, <2>4, <3>1, <3>2, <3>3
  <2> QED
    BY <2>3, <2>4
<1>14. ASSUME NEW j \in Job, ADReturn(j) PROVE StoredOwn'
  BY <1>14, JobParts DEF ADReturn, Goto
<1>15. ASSUME NEW j \in Job, AttachAD(j) PROVE StoredOwn'
  BY <1>15, JobParts DEF AttachAD, Goto
<1>16. CASE UNCHANGED sharedVars
  BY <1>16 DEF sharedVars
<1> HIDE DEF ScannersTyped, JobsPlaced, OneRuns, Connected, StoredOwn, StoredOwnOf,
      ScannerOf, Nothing, NoJob, NiosPlaces, WapiPlaces, ADPlaces
<1> QED
  BY <1>1, <1>2, <1>3, <1>4, <1>5, <1>6, <1>7, <1>8, <1>9, <1>10, <1>11, <1>12, <1>13, <1>14,
     <1>15, <1>16 DEF SharedNext, NiosStep, WapiStep, ADStep

LEMMA OwnStep ==
  ScannersTyped /\ JobsPlaced /\ OneRuns /\ StoredOwn
    /\ FailureAttachesNothing /\ OwnOnceAttached /\ [SharedNext]_sharedVars
    => OwnOnceAttached'
<1> SUFFICES ASSUME ScannersTyped /\ JobsPlaced /\ OneRuns /\ StoredOwn
                    /\ FailureAttachesNothing /\ OwnOnceAttached,
                    [SharedNext]_sharedVars
             PROVE  OwnOnceAttached'
  OBVIOUS
<1> USE SharedAssumption DEF ScannersTyped, JobsPlaced, OneRuns, StoredOwn, StoredOwnOf,
      OwnOnceAttached,
      OwnOf, HasAttached, Attached, FailureAttachesNothing, Succeeded,
      ScannerOf, Nothing, NoJob, NiosPlaces, WapiPlaces, ADPlaces,
      runVars, scannerVars, sessionVars
<1>1. ASSUME NEW s \in Sess, NEW kinds \in ScanRequests, StartRun(s, kinds)
      PROVE  OwnOnceAttached'
  BY <1>1, JobParts DEF StartRun, ScanRequests
<1>2. ASSUME NEW s \in Sess, EndRun(s) PROVE OwnOnceAttached'
  BY <1>2, JobParts DEF EndRun
<1>3. ASSUME NEW j \in Job, Fail(j) PROVE OwnOnceAttached'
  BY <1>3, JobParts DEF Fail, Goto
<1>4. ASSUME NEW j \in Job, NEW some \in BOOLEAN, NiosCount(j, some)
      PROVE  OwnOnceAttached'
  BY <1>4, JobParts DEF NiosCount, Goto
<1>5. ASSUME NEW j \in Job, NEW result \in {<<j, j>>, Nothing},
             NiosStore(j, result)
      PROVE  OwnOnceAttached'
  BY <1>5, JobParts, SMTT(30) DEF NiosStore, Store, Goto
<1>6. ASSUME NEW j \in Job, AttachMetrics(j) PROVE OwnOnceAttached'
  <2>1. /\ pc[j] = "metrics" /\ j[2] \in {"nios", "wapi"} /\ since' = since /\ failed' = failed
        /\ pc' = [pc EXCEPT ![j] = IF j[2] = "nios" THEN "features" ELSE "done"]
        /\ sessNios' = IF metrics[j[2]] # Nothing
                        THEN [sessNios EXCEPT ![j[1]] = metrics[j[2]]] ELSE sessNios
        /\ UNCHANGED <<overlapped, sessAD, sessGrid>>
    BY <1>6 DEF AttachMetrics, Goto
  <2> SUFFICES ASSUME NEW k \in Job PROVE OwnOf(k)'
    BY DEF OwnOnceAttached
  <2>2. CASE k # j
    <3>1. CASE ScannerOf(k) = "ad"
      BY <2>1, <2>2, <3>1, JobParts
    <3>2. CASE ScannerOf(k) # "ad" /\ k[1] = j[1]
      <4>1. k[2] \in {"nios", "wapi"}
        BY <3>2, JobParts
      <4>2. pc[k] = "idle"
        BY <2>1, <2>2, <3>2, <4>1, OneNiosJob
      <4> QED
        BY <2>1, <2>2, <3>2, <4>2, JobParts
    <3>3. CASE ScannerOf(k) # "ad" /\ k[1] # j[1]
      BY <2>1, <2>2, <3>3, JobParts
    <3> QED
      BY <3>1, <3>2, <3>3
  <2>3. CASE k = j
    <3>1. sessNios[j[1]] = Nothing
      <4> SUFFICES ASSUME NEW i \in Job, i[1] = j[1], i[2] \in {"nios", "wapi"},
                          pc[i] \in {"done", "features", "flags"}
                   PROVE  FALSE
        BY JobParts
      <4>1. i # j /\ pc[i] # "idle" /\ pc[j] # "idle"
        BY <2>1
      <4> QED
        BY <2>1, <4>1, OneNiosJob
    <3>2. metrics[j[2]] # Nothing =>
            /\ metrics[j[2]][1] \in since[j]
            /\ ~ overlapped => metrics[j[2]][1][1] = j[1] /\ metrics[j[2]][2][1] = j[1]
      BY <2>1, JobParts
    <3>3. sessNios'[j[1]] \in {Nothing, metrics[j[2]]}
      BY <2>1, <3>1, JobParts
    <3> QED
      BY <2>1, <2>3, <3>2, <3>3, SMTT(30)
  <2> QED
    BY <2>2, <2>3
<1>7. ASSUME NEW j \in Job, AttachFeatures(j) PROVE OwnOnceAttached'
  BY <1>7, JobParts DEF AttachFeatures, Goto
<1>8. ASSUME NEW j \in Job, AttachFlags(j) PROVE OwnOnceAttached'
  BY <1>8, JobParts DEF AttachFlags, Goto
<1>9. ASSUME NEW j \in Job, WapiTarget(j) PROVE OwnOnceAttached'
  BY <1>9, JobParts DEF WapiTarget, Goto
<1>10. ASSUME NEW j \in Job, WapiAccount(j) PROVE OwnOnceAttached'
  BY <1>10, JobParts DEF WapiAccount, Goto
<1>11. ASSUME NEW j \in Job, WapiFetch(j) PROVE OwnOnceAttached'
  BY <1>11, JobParts DEF WapiFetch, Goto
<1>12. ASSUME NEW j \in Job, NEW empty \in BOOLEAN, WapiStore(j, empty)
       PROVE  OwnOnceAttached'
  BY <1>12, JobParts, SMTT(30) DEF WapiStore, Store, Goto
<1>13. ASSUME NEW j \in Job, ADStore(j) PROVE OwnOnceAttached'
  BY <1>13, JobParts DEF ADStore, Store, Goto
<1>14. ASSUME NEW j \in Job, ADReturn(j) PROVE OwnOnceAttached'
  <2>1. /\ pc' = [pc EXCEPT ![j] = "adMetrics"] /\ pc[j] \in {"scanning", "stored"}
        /\ j[2] \in {"ad", "ad2"}
        /\ UNCHANGED <<overlapped, since, sessAD, sessNios, sessGrid, failed>>
    BY <1>14 DEF ADReturn, Goto
  <2>2. \A k \in Job : k # j => pc'[k] = pc[k]
    BY <2>1
  <2> SUFFICES ASSUME NEW k \in Job PROVE OwnOf(k)'
    BY DEF OwnOnceAttached
  <2>3. HasAttached(k)' => HasAttached(k)
    BY <2>1, <2>2 DEF HasAttached
  <2> QED
    BY <2>1, <2>3
<1>15. ASSUME NEW j \in Job, AttachAD(j) PROVE OwnOnceAttached'
  <2>1. /\ pc' = [pc EXCEPT ![j] = "done"] /\ pc[j] = "adMetrics" /\ j[2] \in {"ad", "ad2"}
        /\ sessAD' = IF metrics["ad"] # Nothing THEN [sessAD EXCEPT ![j[1]] = metrics["ad"]]
                      ELSE sessAD
        /\ UNCHANGED <<overlapped, since, sessNios, sessGrid, failed>>
    BY <1>15 DEF AttachAD, Goto
  <2>2. \A k \in Job : k # j => pc'[k] = pc[k]
    BY <2>1
  <2> SUFFICES ASSUME NEW k \in Job PROVE OwnOf(k)'
    BY DEF OwnOnceAttached
  <2>3. CASE ScannerOf(k) # "ad" \/ k[1] # j[1]
    <3>1. k # j
      BY <2>1, <2>3
    <3>2. HasAttached(k)' => HasAttached(k)
      BY <2>1, <2>2, <3>1
    <3>3. sessAD'[k[1]] = sessAD[k[1]] \/ ScannerOf(k) # "ad"
      BY <2>1, <2>3, JobParts
    <3> QED
      BY <2>1, <3>2, <3>3
  <2>4. CASE ScannerOf(k) = "ad" /\ k[1] = j[1]
    <3>1. sessAD'[k[1]] = IF metrics["ad"] # Nothing THEN metrics["ad"] ELSE sessAD[k[1]]
      BY <2>1, <2>4, JobParts
    <3> QED
      BY <2>1, <2>2, <2>4, <3>1, JobParts, SMTT(30)
  <2> QED
    BY <2>3, <2>4
<1>16. CASE UNCHANGED sharedVars
  <2>1. UNCHANGED <<pc, overlapped, since, sessNios, sessGrid, sessAD, failed>>
    BY <1>16 DEF sharedVars
  <2> SUFFICES ASSUME NEW k \in Job PROVE OwnOf(k)'
    BY DEF OwnOnceAttached
  <2> QED
    BY <2>1
<1> HIDE DEF ScannersTyped, JobsPlaced, OneRuns, StoredOwn, StoredOwnOf, OwnOnceAttached,
      OwnOf, HasAttached, Attached, FailureAttachesNothing, Succeeded,
      ScannerOf, Nothing, NoJob, NiosPlaces, WapiPlaces, ADPlaces
<1> QED
  BY <1>1, <1>2, <1>3, <1>4, <1>5, <1>6, <1>7, <1>8, <1>9, <1>10, <1>11, <1>12, <1>13, <1>14,
     <1>15, <1>16 DEF SharedNext, NiosStep, WapiStep, ADStep
LEMMA ScannersInvInit == SharedInit => ScannersInv
<1> SUFFICES ASSUME SharedInit PROVE ScannersInv
  OBVIOUS
<1> USE DEF SharedInit
<1>1. Nothing \in Results
  BY DEF Results, Nothing
<1>2. ScannersTyped
  BY <1>1 DEF ScannersTyped, Places
<1>3. JobsPlaced /\ OneRuns /\ StoredOwn /\ Connected
  BY DEF JobsPlaced, OneRuns, StoredOwn, StoredOwnOf, Connected, NiosPlaces, WapiPlaces, ADPlaces
<1>4. OwnOnceAttached /\ FailureAttachesNothing
  BY DEF OwnOnceAttached, OwnOf, FailureAttachesNothing
<1> QED
  BY <1>2, <1>3, <1>4 DEF ScannersInv

(* ScannersInv holds in every state, however the steps of the jobs of the  *)
(* sessions interleave.                                                    *)
THEOREM ScannersInductive == SharedSpec => []ScannersInv
<1>1. ScannersInv /\ [SharedNext]_sharedVars => ScannersInv'
  BY ScannersTypedStep, JobsPlacedStep, OneRunsStep, ConnectedStep, FailureStep,
     FreshStep, OwnStep DEF ScannersInv
<1> QED
  BY ScannersInvInit, <1>1, PTL DEF SharedSpec

(* A scan that failed has attached nothing to its session, whatever the    *)
(* jobs of other sessions stored in the fields it shares with them.        *)
THEOREM FailuresAttachNothing ==
  SharedSpec => []FailureAttachesNothing
<1>1. ScannersInv => FailureAttachesNothing
  BY DEF ScannersInv
<1> QED
  BY ScannersInductive, <1>1, PTL

(* A session has metrics no older than those its own job stored, and those *)
(* of its own systems when no two scans overlap.                           *)
THEOREM ResultsAreOwn == SharedSpec => []OwnResults
<1>1. ScannersInv => OwnResults
  BY DEF ScannersInv, OwnOnceAttached, OwnOf, HasAttached, OwnResults
<1> QED
  BY ScannersInductive, <1>1, PTL

-----------------------------------------------------------------------------
(* The broker.                                                             *)

(* The clients are the open channels, which are not closed yet, and while  *)
(* a publisher holds the read lock the channels it has still to serve are  *)
(* among them.                                                             *)
ClientsOpen ==
  /\ clients = {c \in Channel : status[c] = "open"}
  /\ closed => clients = {}
  /\ \A p \in holding : todo[p] \subseteq clients
  /\ \A c \in Channel : closings[c] = IF status[c] = "closed" THEN 1 ELSE 0

(* A reader stops at a channel that is closed and empty. *)
ReadersDone == \A c \in eof : status[c] = "closed" /\ buffer[c] = <<>>

(* A publisher that holds the read lock is at an event it has begun. *)
AtEvent == \A p \in holding : sent[p] \in 1 .. MaxEvents

BrokerInv == BrokerTypeOK /\ ClientsOpen /\ ReadersDone /\ AtEvent /\ Bounded

LEMMA BrokerInvInit == BrokerInit => BrokerInv
<1> SUFFICES ASSUME BrokerInit PROVE BrokerInv
  OBVIOUS
<1>1. BrokerTypeOK
  <2>1. buffer \in [Channel -> Seq(Event)] /\ got \in [Channel -> Seq(Event)]
    BY DEF BrokerInit
  <2>2. sent \in [Publisher -> 0 .. MaxEvents]
    BY BrokerAssumption DEF BrokerInit
  <2>3. closings \in [Channel -> Nat] /\ status \in [Channel -> {"unused", "open", "closed"}]
    BY DEF BrokerInit
  <2> QED
    BY <2>1, <2>2, <2>3 DEF BrokerInit, BrokerTypeOK
<1>2. Bounded
  BY BrokerAssumption DEF BrokerInit, Bounded
<1> QED
  BY <1>1, <1>2 DEF BrokerInit, BrokerInv, ClientsOpen, ReadersDone, AtEvent

LEMMA Appended == \A s \in Seq(Event), e \in Event : Append(s, e) \in Seq(Event)
  OBVIOUS

LEMMA BrokerInvStep == BrokerInv /\ [BrokerNext]_brokerVars => BrokerInv'
<1> SUFFICES ASSUME BrokerInv, [BrokerNext]_brokerVars PROVE BrokerInv'
  OBVIOUS
<1> USE BrokerAssumption
    DEF BrokerInv, BrokerTypeOK, ClientsOpen, ReadersDone, AtEvent, Bounded, pubVars, readerVars
<1>1. ASSUME NEW p \in Publisher, BeginPublish(p) PROVE BrokerInv'
  <2>1. sent' = [sent EXCEPT ![p] = @ + 1] /\ sent[p] + 1 \in 1 .. MaxEvents
    BY <1>1 DEF BeginPublish
  <2>2. sent' \in [Publisher -> 0 .. MaxEvents]
    BY <2>1
  <2>3. UNCHANGED <<clients, closed, status, closings, buffer, dropped, got, eof>>
    BY <1>1 DEF BeginPublish
  <2>4. CASE closed
    BY <1>1, <2>1, <2>2, <2>3, <2>4 DEF BeginPublish
  <2>5. CASE ~ closed
    <3>1. todo' = [todo EXCEPT ![p] = clients] /\ holding' = holding \cup {p}
      BY <1>1, <2>5 DEF BeginPublish
    <3>2. BrokerTypeOK'
      BY <2>2, <2>3, <3>1
    <3>3. ClientsOpen' /\ ReadersDone' /\ Bounded'
      BY <2>3, <3>1
    <3>4. AtEvent'
      BY <2>1, <3>1
    <3> QED
      BY <3>2, <3>3, <3>4
  <2> QED
    BY <2>4, <2>5
<1>2. ASSUME NEW p \in Publisher, NEW c \in Channel, SendOne(p, c) PROVE BrokerInv'
  <2>1. <<p, sent[p]>> \in Event /\ c \in clients /\ status[c] = "open"
    BY <1>2 DEF SendOne, Event
  <2>2. buffer' \in [Channel -> Seq(Event)] /\ dropped' \in [Channel -> SUBSET Event]
    <3>1. buffer[c] \in Seq(Event) /\ dropped[c] \in SUBSET Event
      OBVIOUS
    <3>2. Append(buffer[c], <<p, sent[p]>>) \in Seq(Event)
      BY <2>1, <3>1, Appended
    <3>3. dropped[c] \cup {<<p, sent[p]>>} \in SUBSET Event
      BY <2>1, <3>1
    <3>4. CASE /\ buffer' = [buffer EXCEPT ![c] = Append(@, <<p, sent[p]>>)]
               /\ dropped' = dropped
      BY <3>2, <3>4
    <3>5. CASE /\ dropped' = [dropped EXCEPT ![c] = @ \cup {<<p, sent[p]>>}]
               /\ buffer' = buffer
      BY <3>3, <3>5
    <3> QED
      BY <1>2, <3>4, <3>5 DEF SendOne
  <2>3. Bounded'
    <3> SUFFICES ASSUME NEW d \in Channel PROVE Len(buffer'[d]) <= Cap
      OBVIOUS
    <3>1. buffer[d] \in Seq(Event) /\ Len(buffer[d]) <= Cap
      OBVIOUS
    <3>2. CASE buffer'[d] = buffer[d]
      BY <3>1, <3>2
    <3>3. CASE Len(buffer[d]) < Cap /\ buffer'[d] = Append(buffer[d], <<p, sent[p]>>)
      <4> HIDE DEF BrokerTypeOK, ClientsOpen, ReadersDone, AtEvent, Bounded
      <4>1. Len(buffer'[d]) = Len(buffer[d]) + 1
        BY <2>1, <3>1, <3>3
      <4> QED
        BY <3>1, <3>3, <4>1
    <3>4. \/ buffer'[d] = buffer[d]
          \/ Len(buffer[d]) < Cap /\ buffer'[d] = Append(buffer[d], <<p, sent[p]>>)
      BY <1>2 DEF SendOne
    <3> QED
      BY <3>2, <3>3, <3>4
  <2>4. UNCHANGED <<clients, closed, status, closings, sent, holding, got, eof>>
    BY <1>2 DEF SendOne
  <2>5. todo' = [todo EXCEPT ![p] = @ \ {c}]
    BY <1>2 DEF SendOne
  <2>6. \A d \in eof : buffer'[d] = buffer[d]
    BY <1>2, <2>1 DEF SendOne
  <2>7. BrokerTypeOK'
    BY <2>2, <2>4, <2>5
  <2>8. ClientsOpen' /\ AtEvent'
    BY <2>4, <2>5
  <2>9. ReadersDone'
    BY <2>4, <2>6
  <2> QED
    BY <2>3, <2>7, <2>8, <2>9
<1>3. ASSUME NEW p \in Publisher, EndPublish(p) PROVE BrokerInv'
  BY <1>3 DEF EndPublish
<1>4. ASSUME NEW c \in Channel, Subscribe(c) PROVE BrokerInv'
  <2>1. UNCHANGED <<closed, buffer, dropped, sent, todo, holding, got, eof>>
    BY <1>4 DEF Subscribe
  <2>2. status[c] = "unused" /\ holding = {}
    BY <1>4 DEF Subscribe, NoReader
  <2>3. CASE closed
    <3>1. /\ status' = [status EXCEPT ![c] = "closed"]
          /\ closings' = [closings EXCEPT ![c] = @ + 1]
          /\ clients' = clients
      BY <1>4, <2>3 DEF Subscribe
    <3>2. BrokerTypeOK'
      BY <2>1, <3>1
    <3>3. ClientsOpen'
      BY <2>1, <2>2, <3>1
    <3> QED
      BY <2>1, <2>2, <3>1, <3>2, <3>3
  <2>4. CASE ~ closed
    <3>1. /\ status' = [status EXCEPT ![c] = "open"]
          /\ clients' = clients \cup {c}
          /\ closings' = closings
      BY <1>4, <2>4 DEF Subscribe
    <3>2. BrokerTypeOK'
      BY <2>1, <3>1
    <3>3. ClientsOpen'
      BY <2>1, <2>2, <2>4, <3>1
    <3> QED
      BY <2>1, <2>2, <3>1, <3>2, <3>3
  <2> QED
    BY <2>3, <2>4
<1>5. ASSUME NEW c \in Channel, Unsubscribe(c) PROVE BrokerInv'
  BY <1>5 DEF Unsubscribe, NoReader
<1>6. CASE Close
  BY <1>6 DEF Close, NoReader
<1>7. ASSUME NEW c \in Channel, ReadEvent(c) PROVE BrokerInv'
  <2>1. /\ buffer[c] \in Seq(Event) /\ buffer[c] # <<>>
        /\ Head(buffer[c]) \in Event /\ Tail(buffer[c]) \in Seq(Event)
        /\ Len(Tail(buffer[c])) = Len(buffer[c]) - 1
        /\ Len(buffer[c]) \in Nat
    BY <1>7 DEF ReadEvent
  <2>2. c \notin eof
    BY <2>1
  <2>3. /\ got' = [got EXCEPT ![c] = Append(@, Head(buffer[c]))]
        /\ buffer' = [buffer EXCEPT ![c] = Tail(@)]
        /\ UNCHANGED <<clients, closed, status, closings, dropped, sent, todo, holding, eof>>
    BY <1>7 DEF ReadEvent
  <2>4. got' \in [Channel -> Seq(Event)] /\ buffer' \in [Channel -> Seq(Event)]
    BY <2>1, <2>3
  <2>5. BrokerTypeOK'
    BY <2>3, <2>4
  <2>6. ClientsOpen' /\ AtEvent'
    BY <2>3
  <2>7. ReadersDone'
    BY <2>2, <2>3
  <2>8. \A d \in Channel : Len(buffer'[d]) <= Cap
    <3> SUFFICES ASSUME NEW d \in Channel PROVE Len(buffer'[d]) <= Cap
      OBVIOUS
    <3>1. CASE d = c
      <4>1. buffer'[d] = Tail(buffer[c])
        BY <2>3, <3>1
      <4>2. Len(buffer[c]) <= Cap
        OBVIOUS
      <4> QED
        BY <2>1, <4>1, <4>2
    <3>2. CASE d # c
      BY <2>3, <3>2
    <3> QED
      BY <3>1, <3>2
  <2> QED
    BY <2>5, <2>6, <2>7, <2>8
<1>8. ASSUME NEW c \in Channel, ReachEOF(c) PROVE BrokerInv'
  BY <1>8 DEF ReachEOF
<1>9. CASE UNCHANGED brokerVars
  BY <1>9 DEF brokerVars
<1> HIDE DEF BrokerInv, BrokerTypeOK, ClientsOpen, ReadersDone, AtEvent, Bounded, pubVars,
      readerVars
<1> QED
  BY <1>1, <1>2, <1>3, <1>4, <1>5, <1>6, <1>7, <1>8, <1>9
     DEF BrokerNext, PublishStep, ReadStep

THEOREM BrokerInductive == BrokerSpec => []BrokerInv
  BY BrokerInvInit, BrokerInvStep, PTL DEF BrokerSpec

(* Every field of the broker, its channels and its users stays in its      *)
(* type.                                                                   *)
THEOREM BrokerTypeCorrect == BrokerSpec => []BrokerTypeOK
<1>1. BrokerInv => BrokerTypeOK
  BY DEF BrokerInv
<1> QED
  BY BrokerInductive, <1>1, PTL

(* Whatever the interleaving of Publish, Subscribe, Unsubscribe and Close, *)
(* nobody sends on a closed channel or closes one twice.                   *)
THEOREM NeverPanics == BrokerSpec => []NoPanic
<1>1. BrokerInv => NoPanic
  BY DEF BrokerInv, ClientsOpen, NoPanic
<1> QED
  BY BrokerInductive, <1>1, PTL

(* No channel ever buffers more than its capacity.                         *)
THEOREM AlwaysBounded == BrokerSpec => []Bounded
<1>1. BrokerInv => Bounded
  BY DEF BrokerInv
<1> QED
  BY BrokerInductive, <1>1, PTL

(* Once a reader has seen the end of its stream, nothing more is sent to   *)
(* it.                                                                     *)
THEOREM NothingAfterEOF == BrokerSpec => EOFIsLast
<1>1. BrokerInv /\ BrokerInv' /\ [BrokerNext]_brokerVars
        => [\A c \in eof : got'[c] = got[c] /\ buffer'[c] = <<>>]_brokerVars
  <2> SUFFICES ASSUME BrokerInv, BrokerInv', BrokerNext, NEW c \in eof
               PROVE  got'[c] = got[c] /\ buffer'[c] = <<>>
    OBVIOUS
  <2>1. buffer[c] = <<>> /\ c \in Channel
    BY DEF BrokerInv, BrokerTypeOK, ReadersDone
  <2>2. c \in eof'
    BY DEF BrokerNext, PublishStep, ReadStep, BeginPublish, SendOne, EndPublish, Subscribe,
           Unsubscribe, Close, ReadEvent, ReachEOF, readerVars
  <2>3. buffer'[c] = <<>>
    BY <2>2 DEF BrokerInv, ReadersDone
  <2>4. got'[c] = got[c]
    BY <2>1 DEF BrokerInv, BrokerTypeOK, BrokerNext, PublishStep, ReadStep, BeginPublish, SendOne,
       EndPublish, Subscribe, Unsubscribe, Close, ReadEvent, ReachEOF, readerVars
  <2> QED
    BY <2>3, <2>4
<1> QED
  BY BrokerInductive, <1>1, PTL DEF BrokerSpec, EOFIsLast

-----------------------------------------------------------------------------
(* The order of what a channel gets (see InOrder).                         *)

(* What a publisher has begun to publish is behind it, and what it has yet *)
(* to send to a channel is newer than all that was sent or dropped there.  *)
Behind(c, e) ==
  /\ e[2] <= sent[e[1]]
  /\ e[1] \in holding /\ c \in todo[e[1]] => e[2] < sent[e[1]]

Numbered ==
  \A c \in Channel : /\ \A i \in DOMAIN Stream(c) : Behind(c, Stream(c)[i])
                     /\ \A e \in dropped[c] : Behind(c, e)

OrderInv == BrokerInv /\ Numbered /\ InOrder

(* An event at the end of the buffer is at the end of the stream, and a    *)
(* received one keeps its place in it.                                     *)
LEMMA StreamAppend ==
  ASSUME NEW g \in Seq(Event), NEW b \in Seq(Event), NEW e \in Event
  PROVE  /\ g \o Append(b, e) \in Seq(Event)
         /\ DOMAIN (g \o Append(b, e)) = (DOMAIN (g \o b)) \cup {Len(g \o b) + 1}
         /\ Len(g \o b) + 1 \notin DOMAIN (g \o b)
         /\ DOMAIN (g \o b) = 1 .. Len(g \o b) /\ Len(g \o b) \in Nat
         /\ \A i \in DOMAIN (g \o b) : (g \o Append(b, e))[i] = (g \o b)[i]
         /\ (g \o Append(b, e))[Len(g \o b) + 1] = e
<1>1. /\ Append(b, e) \in Seq(Event) /\ Len(Append(b, e)) = Len(b) + 1
      /\ \A i \in 1 .. Len(b) : Append(b, e)[i] = b[i]
      /\ Append(b, e)[Len(b) + 1] = e
  OBVIOUS
<1> HIDE DEF Event
<1>2. /\ g \o b \in Seq(Event) /\ Len(g \o b) = Len(g) + Len(b)
      /\ DOMAIN (g \o b) = 1 .. Len(g) + Len(b)
      /\ \A i \in 1 .. Len(g) + Len(b) : (g \o b)[i] = IF i <= Len(g) THEN g[i] ELSE b[i - Len(g)]
  OBVIOUS
<1> DEFINE a == Append(b, e)
<1> HIDE DEF a
<1>3. /\ g \o a \in Seq(Event) /\ Len(g \o a) = Len(g) + Len(a)
      /\ DOMAIN (g \o a) = 1 .. Len(g) + Len(a)
      /\ \A i \in 1 .. Len(g) + Len(a) : (g \o a)[i] = IF i <= Len(g) THEN g[i] ELSE a[i - Len(g)]
  BY <1>1 DEF a
<1>4. /\ Len(a) = Len(b) + 1 /\ \A i \in 1 .. Len(b) : a[i] = b[i]
      /\ a[Len(b) + 1] = e /\ Len(b) \in Nat /\ Len(g) \in Nat
  BY <1>1 DEF a
<1>5. ASSUME NEW i \in 1 .. Len(g) + Len(b) PROVE (g \o a)[i] = (g \o b)[i]
  BY <1>2, <1>3, <1>4
<1>6. (g \o a)[Len(g) + Len(b) + 1] = e
  BY <1>3, <1>4
<1>7. DOMAIN (g \o a) = (DOMAIN (g \o b)) \cup {Len(g \o b) + 1}
  <2> DEFINE n == Len(g) + Len(b)
  <2>1. n \in Nat /\ Len(g) + Len(a) = n + 1
    BY <1>4
  <2>2. DOMAIN (g \o a) = 1 .. n + 1 /\ DOMAIN (g \o b) = 1 .. n /\ Len(g \o b) = n
    BY <1>2, <1>3, <2>1
  <2> HIDE DEF n
  <2> QED
    BY <2>1, <2>2
<1>8. Len(g \o b) + 1 \notin DOMAIN (g \o b) /\ Len(g \o b) \in Nat
  BY <1>2, <1>4
<1> QED
  BY <1>2, <1>3, <1>5, <1>6, <1>7, <1>8 DEF a

LEMMA StreamShift ==
  ASSUME NEW g \in Seq(Event), NEW b \in Seq(Event), b # <<>>
  PROVE  Append(g, Head(b)) \o Tail(b) = g \o b
  OBVIOUS

LEMMA OrderStep == OrderInv /\ [BrokerNext]_brokerVars => OrderInv'
<1> SUFFICES ASSUME OrderInv, [BrokerNext]_brokerVars PROVE OrderInv'
  OBVIOUS
<1>1. BrokerInv /\ BrokerInv' /\ Numbered /\ InOrder /\ BrokerTypeOK
  BY BrokerInvStep DEF OrderInv, BrokerInv
<1>t. /\ \A c \in Channel : got[c] \in Seq(Event) /\ buffer[c] \in Seq(Event)
      /\ \A c \in Channel : Stream(c) \in Seq(Event) /\ dropped[c] \subseteq Event
      /\ sent \in [Publisher -> 0 .. MaxEvents] /\ todo \in [Publisher -> SUBSET Channel]
      /\ holding \subseteq Publisher /\ MaxEvents \in Nat
  BY <1>1, BrokerAssumption DEF BrokerTypeOK, Stream
<1>e. \A c \in Channel : \A i \in DOMAIN Stream(c) : Stream(c)[i] \in Event
  BY <1>t
<1>n. \A e \in Event : e[1] \in Publisher /\ e[2] \in Nat
  BY DEF Event
<1>2. ASSUME \A c \in Channel : Stream(c)' = Stream(c), dropped' = dropped,
             \A c \in Channel, e \in Event : Behind(c, e) => Behind(c, e)'
      PROVE  Numbered' /\ InOrder'
  <2>1. Numbered'
    BY <1>1, <1>2, <1>e, <1>t DEF Numbered
  <2>2. InOrder'
    BY <1>1, <1>2 DEF InOrder
  <2> QED
    BY <2>1, <2>2
<1>3. ASSUME NEW p \in Publisher, BeginPublish(p) PROVE Numbered' /\ InOrder'
  <2>1. \A c \in Channel : Stream(c)' = Stream(c)
    BY <1>3 DEF BeginPublish, Stream, readerVars
  <2>2. \A c \in Channel, e \in Event : Behind(c, e) => Behind(c, e)'
    BY <1>3, <1>t, <1>n DEF BeginPublish, Behind
  <2>3. dropped' = dropped
    BY <1>3 DEF BeginPublish
  <2> QED
    BY <1>2, <2>1, <2>2, <2>3
<1>4. ASSUME NEW p \in Publisher, NEW c \in Channel, SendOne(p, c) PROVE Numbered' /\ InOrder'
  <2>0. PICK now : now = <<p, sent[p]>>
    OBVIOUS
  <2>1. p \in holding /\ c \in todo[p] /\ sent' = sent /\ holding' = holding /\ got' = got
    BY <1>4 DEF SendOne, readerVars
  <2>2. now \in Event /\ now[1] = p /\ now[2] = sent[p]
    BY <2>0, <1>1, <1>t, <2>1 DEF Event, BrokerInv, AtEvent
  <2>3. todo' = [todo EXCEPT ![p] = @ \ {c}]
    BY <1>4 DEF SendOne
  <2>4. \A d \in Channel, e \in Event : Behind(d, e) => Behind(d, e)'
    BY <2>1, <2>3, <1>t, <1>n DEF Behind
  <2>5. Behind(c, now)'
    BY <2>1, <2>2, <2>3, <1>t DEF Behind
  <2>6. \A e \in Event : Behind(c, e) /\ e[1] = p => e[2] < now[2]
    BY <2>1, <2>2 DEF Behind
  <2>7. CASE /\ buffer' = [buffer EXCEPT ![c] = Append(@, now)]
             /\ dropped' = dropped
    <3> DEFINE s == Stream(c)
               n == Len(s) + 1
    <3>1. \A d \in Channel \ {c} : Stream(d)' = Stream(d)
      BY <2>1, <2>7, <1>1 DEF Stream, BrokerTypeOK
    <3>2. Stream(c)' = got[c] \o Append(buffer[c], now)
      BY <2>1, <2>7, <1>1 DEF Stream, BrokerTypeOK
    <3>3. /\ DOMAIN Stream(c)' = (DOMAIN s) \cup {n} /\ n \notin DOMAIN s
          /\ DOMAIN s = 1 .. Len(s) /\ Len(s) \in Nat
          /\ \A i \in DOMAIN s : Stream(c)'[i] = s[i]
          /\ Stream(c)'[n] = now
      <4>1. got[c] \in Seq(Event) /\ buffer[c] \in Seq(Event) /\ s = got[c] \o buffer[c]
        BY <1>t DEF Stream
      <4> DEFINE z == got[c] \o Append(buffer[c], now)
      <4>2. /\ DOMAIN z = (DOMAIN s) \cup {Len(s) + 1} /\ Len(s) + 1 \notin DOMAIN s
            /\ DOMAIN s = 1 .. Len(s) /\ Len(s) \in Nat
            /\ \A i \in DOMAIN s : z[i] = s[i]
            /\ z[Len(s) + 1] = now
        <5> DEFINE g == got[c]
                   b == buffer[c]
        <5>1. g \in Seq(Event) /\ b \in Seq(Event) /\ s = g \o b /\ z = g \o Append(b, now)
          BY <4>1
        <5> HIDE DEF s, z, g, b
        <5>2. /\ DOMAIN (g \o Append(b, now)) = (DOMAIN (g \o b)) \cup {Len(g \o b) + 1}
              /\ Len(g \o b) + 1 \notin DOMAIN (g \o b)
              /\ DOMAIN (g \o b) = 1 .. Len(g \o b) /\ Len(g \o b) \in Nat
              /\ \A i \in DOMAIN (g \o b) : (g \o Append(b, now))[i] = (g \o b)[i]
              /\ (g \o Append(b, now))[Len(g \o b) + 1] = now
          BY <5>1, <2>2, StreamAppend, SMT
        <5> QED
          BY <5>1, <5>2, Zenon
      <4> HIDE DEF s, z
      <4>3. Stream(c)' = z
        BY <3>2 DEF z
      <4> QED
        BY <4>2, <4>3
    <3>4. Numbered'
      <4>1. ASSUME NEW d \in Channel, NEW i, i \in DOMAIN Stream(d)'
            PROVE  Behind(d, Stream(d)[i])'
        <5>1. CASE d # c
          BY <5>1, <4>1, <3>1, <2>4, <1>1, <1>e DEF Numbered
        <5>2. CASE d = c /\ i \in DOMAIN s
          <6>1. Stream(c)'[i] = s[i] /\ s[i] \in Event /\ Behind(c, s[i])
            BY <5>2, <3>3, <1>1, <1>e DEF Numbered
          <6> QED
            BY <6>1, <5>2, <2>4
        <5>3. CASE d = c /\ i = n
          BY <5>3, <3>3, <2>5
        <5> QED
          BY <5>1, <5>2, <5>3, <4>1, <3>3
      <4>2. ASSUME NEW d \in Channel, NEW e, e \in dropped'[d] PROVE Behind(d, e)'
        BY <4>2, <2>4, <2>7, <1>1, <1>t DEF Numbered
      <4> QED
        BY <4>1, <4>2 DEF Numbered
    <3>5. \A i \in DOMAIN s : s[i] \in Event /\ Behind(c, s[i])
      BY <1>1, <1>e DEF Numbered
    <3>6. \A e \in dropped[c] : e # now
      BY <2>2, <2>6, <1>1, <1>t, <1>n DEF Numbered
    <3> HIDE DEF s, n
    <3>7. \A i, j \in DOMAIN s : i < j /\ s[i][1] = s[j][1] => s[i][2] < s[j][2]
      BY <1>1 DEF InOrder, s
    <3>8. \A i, j \in DOMAIN Stream(c)' :
            i < j /\ Stream(c)'[i][1] = Stream(c)'[j][1] => Stream(c)'[i][2] < Stream(c)'[j][2]
      <4> SUFFICES ASSUME NEW i, NEW j, i \in DOMAIN Stream(c)', j \in DOMAIN Stream(c)', i < j,
                          Stream(c)'[i][1] = Stream(c)'[j][1]
                   PROVE  Stream(c)'[i][2] < Stream(c)'[j][2]
        OBVIOUS
      <4>1. i \in DOMAIN s /\ (j \in DOMAIN s \/ j = n)
        BY <3>3 DEF n
      <4>2. CASE j \in DOMAIN s
        BY <4>1, <4>2, <3>3, <3>7
      <4>3. CASE j = n
        BY <4>1, <4>3, <3>3, <3>5, <2>2, <2>6
      <4> QED
        BY <4>1, <4>2, <4>3
    <3>9. \A i \in DOMAIN Stream(c)' : Stream(c)'[i] \notin dropped'[c]
      BY <3>3, <3>6, <2>7, <1>1 DEF InOrder, s
    <3>10. InOrder'
      BY <3>1, <3>8, <3>9, <2>7, <1>1 DEF InOrder
    <3> QED
      BY <3>4, <3>10
  <2>8. CASE /\ dropped' = [dropped EXCEPT ![c] = @ \cup {now}]
             /\ buffer' = buffer
    <3>1. \A d \in Channel : Stream(d)' = Stream(d)
      BY <2>1, <2>8 DEF Stream
    <3>2. \A d \in Channel : dropped'[d] = IF d = c THEN dropped[c] \cup {now} ELSE dropped[d]
      BY <2>8, <1>1 DEF BrokerTypeOK
    <3>3. Numbered'
      <4>1. ASSUME NEW d \in Channel, NEW i, i \in DOMAIN Stream(d)'
            PROVE  Behind(d, Stream(d)[i])'
        BY <4>1, <3>1, <2>4, <1>1, <1>e DEF Numbered
      <4>2. ASSUME NEW d \in Channel, NEW e, e \in dropped'[d] PROVE Behind(d, e)'
        <5>1. (e = now /\ d = c) \/ e \in dropped[d]
          BY <4>2, <3>2
        <5>2. CASE e \in dropped[d]
          BY <5>2, <2>4, <1>1, <1>t DEF Numbered
        <5> QED
          BY <5>1, <5>2, <2>5
      <4> QED
        BY <4>1, <4>2 DEF Numbered
    <3>4. \A i \in DOMAIN Stream(c) : Stream(c)[i] # now
      BY <2>2, <2>6, <1>1, <1>e, <1>n DEF Numbered
    <3>5. InOrder'
      BY <3>1, <3>2, <3>4, <1>1 DEF InOrder
    <3> QED
      BY <3>3, <3>5
  <2> QED
    BY <1>4, <2>0, <2>7, <2>8 DEF SendOne
<1>5. ASSUME NEW p \in Publisher, EndPublish(p) PROVE Numbered' /\ InOrder'
  <2>1. \A c \in Channel : Stream(c)' = Stream(c)
    BY <1>5 DEF EndPublish, Stream, readerVars
  <2>2. \A c \in Channel, e \in Event : Behind(c, e) => Behind(c, e)'
    BY <1>5 DEF EndPublish, Behind
  <2>3. dropped' = dropped
    BY <1>5 DEF EndPublish
  <2> QED
    BY <1>2, <2>1, <2>2, <2>3
<1>6. ASSUME NEW c \in Channel, ReadEvent(c) PROVE Numbered' /\ InOrder'
  <2>1. /\ buffer[c] # <<>> /\ got' = [got EXCEPT ![c] = Append(@, Head(buffer[c]))]
        /\ buffer' = [buffer EXCEPT ![c] = Tail(@)]
        /\ UNCHANGED <<dropped, sent, todo, holding>>
    BY <1>6 DEF ReadEvent, pubVars
  <2>2. ASSUME NEW d \in Channel PROVE Stream(d)' = Stream(d)
    <3>1. CASE d = c
      <4>1. got'[c] = Append(got[c], Head(buffer[c])) /\ buffer'[c] = Tail(buffer[c])
        BY <2>1, <1>1 DEF BrokerTypeOK
      <4>2. Append(got[c], Head(buffer[c])) \o Tail(buffer[c]) = got[c] \o buffer[c]
        BY <2>1, <1>t, StreamShift
      <4> QED
        BY <4>1, <4>2, <3>1 DEF Stream
    <3>2. CASE d # c
      BY <3>2, <2>1, <1>1 DEF Stream, BrokerTypeOK
    <3> QED
      BY <3>1, <3>2
  <2> QED
    BY <2>1, <2>2, <1>2 DEF Behind
<1>7. ASSUME UNCHANGED <<got, buffer, dropped, sent, todo, holding>> PROVE Numbered' /\ InOrder'
  <2>1. \A c \in Channel : Stream(c)' = Stream(c)
    BY <1>7 DEF Stream
  <2> QED
    BY <2>1, <1>2, <1>7 DEF Behind
<1>8. ASSUME NEW c \in Channel, Subscribe(c) \/ Unsubscribe(c) \/ ReachEOF(c)
      PROVE  Numbered' /\ InOrder'
  BY <1>7, <1>8 DEF Subscribe, Unsubscribe, ReachEOF, pubVars, readerVars
<1>9. ASSUME Close \/ UNCHANGED brokerVars PROVE Numbered' /\ InOrder'
  BY <1>7, <1>9 DEF Close, brokerVars, pubVars, readerVars
<1> QED
  BY <1>1, <1>3, <1>4, <1>5, <1>6, <1>8, <1>9 DEF OrderInv, BrokerNext, PublishStep, ReadStep

(* A channel has the events of each publisher in the order they were       *)
(* published, none twice, and none that was dropped for it: a publisher    *)
(* serves a channel once for each event, and begins one after the other.   *)
THEOREM StreamsInOrder == BrokerSpec => []InOrder
<1>1. BrokerInit => OrderInv
  <2> SUFFICES ASSUME BrokerInit PROVE OrderInv
    OBVIOUS
  <2>1. \A c \in Channel : Stream(c) = <<>> /\ dropped[c] = {}
    BY DEF BrokerInit, Stream
  <2> QED
    BY <2>1, BrokerInvInit DEF OrderInv, Numbered, InOrder
<1>2. OrderInv => InOrder
  BY DEF OrderInv
<1> QED
  BY <1>1, <1>2, OrderStep, PTL DEF BrokerSpec
=============================================================================
