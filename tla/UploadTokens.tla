---------------------------- MODULE UploadTokens ----------------------------
(***************************************************************************)
(* Uploaded files and the tokens that stand for them (server/scan.go).  A  *)
(* NIOS or EfficientIP backup is kept in a temporary file, NIOS query      *)
(* rates in memory; the browser gets a token and names it when it starts a *)
(* scan, which takes the entry out of the token's map.  The NIOS scanner   *)
(* removes the file when it is done; that of an EfficientIP backup stays.  *)
(* A background loop removes what nobody has scanned: NIOS entries only,   *)
(* EfficientIP tokens do not expire.                                       *)
(*                                                                         *)
(* An upload stands for its token: the clock reading, or the random bytes, *)
(* a token is made of are taken to be unique.                              *)
(***************************************************************************)
EXTENDS Naturals, FiniteSets

CONSTANTS NIOS,         \* uploads of NIOS backups
          QPS,          \* uploads of query rates
          EfficientIP,  \* uploads of EfficientIP backups
          None,         \* no upload
          Scan,         \* start requests the server accepts
          TTL           \* niosTokenTTL, in steps of the clock

Upload == NIOS \cup QPS \cup EfficientIP

ASSUME UploadAssumption ==
  /\ NIOS \cap QPS = {} /\ NIOS \cap EfficientIP = {} /\ QPS \cap EfficientIP = {}
  /\ None \notin Upload
  /\ TTL \in Nat

VARIABLES
  upload,   \* how far the handler of each upload is
  file,     \* uploads whose temporary file exists
  tokens,   \* uploads with an entry in niosBackupTokens, niosQPSTokens or
            \* efficientipBackupTokens
  age,      \* how old each of these entries is, up to TTL + 1
  cleaner,  \* what the cleanup loop does: "waiting", "ranging", "removing", "deleting"
  stale,    \* entries that had expired at the tick it works on
  toVisit,  \* entries its Range has yet to visit
  victim,   \* the one it is removing
  scan,     \* how far each start request is
  wanted,   \* tokens of the request that are not resolved yet
  granted,  \* entries the request took
  late      \* uploads whose token was taken when it had expired

uploadVars  == <<upload, age>>
cleanerVars == <<cleaner, stale, toVisit, victim>>
scanVars    == <<scan, wanted, granted, late>>
tokenVars == <<uploadVars, file, tokens, cleanerVars, scanVars>>

TokensInit ==
  /\ upload = [u \in Upload |-> "none"]
  /\ file = {}
  /\ tokens = {}
  /\ age = [u \in Upload |-> 0]
  /\ cleaner = "waiting"
  /\ stale = {}
  /\ toVisit = {}
  /\ victim = None
  /\ scan = [r \in Scan |-> "idle"]
  /\ wanted = [r \in Scan |-> {}]
  /\ granted = [r \in Scan |-> {}]
  /\ late = {}

-----------------------------------------------------------------------------
(* The upload handlers.                                                    *)

Receive(u) ==
  /\ upload[u] = "none"
  /\ upload' = [upload EXCEPT ![u] = "receiving"]
  /\ file' = file \cup ({u} \ QPS)
  /\ UNCHANGED <<age, tokens, cleanerVars, scanVars>>

(* Slip: an error path leaves the temporary file. *)
RefuseKeeping(u) ==
  /\ upload[u] = "receiving"
  /\ upload' = [upload EXCEPT ![u] = "refused"]
  /\ UNCHANGED <<age, file, tokens, cleanerVars, scanVars>>

(* The file cannot be written or parsed: every such path removes it. *)
Refuse(u) ==
  /\ upload[u] = "receiving"
  /\ upload' = [upload EXCEPT ![u] = "refused"]
  /\ file' = file \ {u}
  /\ UNCHANGED <<age, tokens, cleanerVars, scanVars>>

Register(u) ==
  /\ upload[u] = "receiving"
  /\ upload' = [upload EXCEPT ![u] = "registered"]
  /\ tokens' = tokens \cup {u}
  /\ UNCHANGED <<age, file, cleanerVars, scanVars>>

TimePasses ==
  /\ age' = [u \in Upload |->
       IF u \in tokens /\ age[u] <= TTL THEN age[u] + 1 ELSE age[u]]
  /\ UNCHANGED <<upload, file, tokens, cleanerVars, scanVars>>

-----------------------------------------------------------------------------
(* HandleStartScan: toOrchestratorProviders resolves the tokens one by one *)
(* with LoadAndDelete; the session was accepted before.                    *)

RequestScan(r, asked) ==
  /\ scan[r] = "idle"
  /\ scan' = [scan EXCEPT ![r] = "resolving"]
  /\ wanted' = [wanted EXCEPT ![r] = asked]
  /\ UNCHANGED <<uploadVars, file, tokens, cleanerVars, granted, late>>

(* The expiry is not looked at: an expired entry is good until it is       *)
(* removed.  A token that is not in the map leaves the path empty.         *)
Resolve(r, u) ==
  /\ scan[r] = "resolving" /\ u \in wanted[r]
  /\ wanted' = [wanted EXCEPT ![r] = @ \ {u}]
  /\ IF u \in tokens
     THEN /\ tokens' = tokens \ {u}
          /\ age' = [age EXCEPT ![u] = 0]
          /\ granted' = [granted EXCEPT ![r] = @ \cup {u}]
          /\ late' = IF age[u] > TTL THEN late \cup {u} ELSE late
     ELSE UNCHANGED <<tokens, age, granted, late>>
  /\ UNCHANGED <<upload, file, cleanerVars, scan>>

Launch(r) ==
  /\ scan[r] = "resolving" /\ wanted[r] = {}
  /\ scan' = [scan EXCEPT ![r] = "running"]
  /\ UNCHANGED <<uploadVars, file, tokens, cleanerVars, wanted, granted, late>>

(* Slip: no deferred removal. *)
EndScanKeeping(r) ==
  /\ scan[r] = "running"
  /\ scan' = [scan EXCEPT ![r] = "ended"]
  /\ UNCHANGED <<uploadVars, file, tokens, cleanerVars, wanted, granted, late>>

(* The NIOS scanner removes its file when it returns, with rows or an      *)
(* error.  The scanner of EfficientIP backups would, but is not run: the   *)
(* request for the orchestrator is given no Mode, so selectScannerKey      *)
(* picks the live scanner, which does not look at the file.                *)
EndScan(r) ==
  /\ scan[r] = "running"
  /\ scan' = [scan EXCEPT ![r] = "ended"]
  /\ file' = file \ (granted[r] \cap NIOS)
  /\ UNCHANGED <<uploadVars, tokens, cleanerVars, wanted, granted, late>>

-----------------------------------------------------------------------------
(* The cleanup loop.  The time is read once per tick, the entries are      *)
(* visited one by one while handlers store and take others.                *)

Tick ==
  /\ cleaner = "waiting"
  /\ cleaner' = "ranging"
  /\ stale' = {u \in tokens : age[u] > TTL}
  /\ toVisit' = tokens \ EfficientIP
  /\ UNCHANGED <<uploadVars, file, tokens, victim, scanVars>>

(* Slip: every entry is taken for an expired one. *)
VisitAll(u) ==
  /\ cleaner = "ranging" /\ u \in toVisit
  /\ toVisit' = toVisit \ {u}
  /\ IF u \in tokens
     THEN cleaner' = "removing" /\ victim' = u
     ELSE UNCHANGED <<cleaner, victim>>
  /\ UNCHANGED <<uploadVars, file, tokens, stale, scanVars>>

Visit(u) ==
  /\ cleaner = "ranging" /\ u \in toVisit
  /\ toVisit' = toVisit \ {u}
  /\ IF u \in tokens \cap stale
     THEN cleaner' = "removing" /\ victim' = u
     ELSE UNCHANGED <<cleaner, victim>>
  /\ UNCHANGED <<uploadVars, file, tokens, stale, scanVars>>

RemoveFile ==
  /\ cleaner = "removing"
  /\ cleaner' = "deleting"
  /\ file' = file \ {victim}
  /\ UNCHANGED <<uploadVars, tokens, stale, toVisit, victim, scanVars>>

DeleteEntry ==
  /\ cleaner = "deleting"
  /\ cleaner' = "ranging"
  /\ tokens' = tokens \ {victim}
  /\ age' = [age EXCEPT ![victim] = 0]
  /\ victim' = None
  /\ UNCHANGED <<upload, file, stale, toVisit, scanVars>>

EndRange ==
  /\ cleaner = "ranging" /\ toVisit = {}
  /\ cleaner' = "waiting"
  /\ stale' = {}
  /\ UNCHANGED <<uploadVars, file, tokens, toVisit, victim, scanVars>>

-----------------------------------------------------------------------------
HandlerStep(u) == Refuse(u) \/ Register(u)

(* The browser names tokens it was given, one backup and one set of query  *)
(* rates of a grid at most.                                                *)
Requests == {asked \in SUBSET {u \in Upload : upload[u] = "registered"} :
  \A kind \in {NIOS, QPS, EfficientIP} : Cardinality(asked \cap kind) <= 1}

ScanStep(r) ==
  \/ \E u \in Upload : Resolve(r, u)
  \/ Launch(r)
  \/ EndScan(r)

CleanerStep ==
  \/ Tick
  \/ \E u \in Upload : Visit(u)
  \/ RemoveFile \/ DeleteEntry \/ EndRange

TokensNext ==
  \/ \E u \in Upload : Receive(u) \/ HandlerStep(u)
  \/ TimePasses
  \/ \E r \in Scan : \/ \E asked \in Requests : RequestScan(r, asked)
                     \/ ScanStep(r)
  \/ CleanerStep

(* Handlers and scans that were begun end, the ticker ticks and time goes  *)
(* on.  Nobody has to start a scan.                                        *)
Fairness ==
  /\ \A u \in Upload : WF_tokenVars(HandlerStep(u))
  /\ \A r \in Scan : WF_tokenVars(ScanStep(r))
  /\ WF_tokenVars(TimePasses)
  /\ WF_tokenVars(CleanerStep)

TokensSpec     == TokensInit /\ [][TokensNext]_tokenVars
FairSpec == TokensSpec /\ Fairness

-----------------------------------------------------------------------------
(* Properties.                                                             *)

TypeOK ==
  /\ upload \in [Upload -> {"none", "receiving", "refused", "registered"}]
  /\ file \subseteq Upload \ QPS
  /\ tokens \subseteq Upload
  /\ age \in [Upload -> 0 .. TTL + 1]
  /\ cleaner \in {"waiting", "ranging", "removing", "deleting"}
  /\ stale \subseteq Upload
  /\ toVisit \subseteq Upload
  /\ victim \in Upload \cup {None}
  /\ scan \in [Scan -> {"idle", "resolving", "running", "ended"}]
  /\ wanted \in [Scan -> SUBSET Upload]
  /\ granted \in [Scan -> SUBSET Upload]
  /\ late \subseteq Upload

(* A scan whose token was taken in time has its file for as long as it     *)
(* runs: neither the cleanup loop nor another scan removes it.             *)
FileThere ==
  \A r \in Scan : scan[r] \in {"resolving", "running"} =>
    (granted[r] \ QPS) \ late \subseteq file

(* Two scans never share an upload, although browsers may send a token     *)
(* twice.                                                                  *)
TakenOnce ==
  \A r, q \in Scan : r # q => granted[r] \cap granted[q] = {}

(* Every temporary file has an owner: a handler that is not done, an entry *)
(* of a token map, or a scan; an EfficientIP backup has none any more when *)
(* a scan that was given its token has ended, although the comment on      *)
(* BackupScanner.Scan promises that the file is removed.                   *)
Owned ==
  \A u \in file :
    \/ upload[u] = "receiving"
    \/ u \in tokens
    \/ \E r \in Scan : u \in granted[r] /\ (u \in NIOS => scan[r] # "ended")

(* niosTokenTTL's comment: the file of "a user who uploads but never       *)
(* clicks Scan within this window" is removed.  So is that of any other.   *)
Removed == \A u \in NIOS : u \in file ~> u \notin file
=============================================================================
