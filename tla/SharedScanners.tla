--------------------------- MODULE SharedScanners ---------------------------
(***************************************************************************)
(* The scanners that keep results in their own fields (main.go makes one   *)
(* of each for the whole server: nios.Scanner, nios.WAPIScanner and        *)
(* ad.Scanner), and the jobs of all sessions that use them.                *)
(*                                                                         *)
(* Scan stores metrics in the scanner's fields, and after it has returned  *)
(* attachNiosResults and attachADResults (internal/orchestrator) read them *)
(* from there into the session.  In between another job of the scanner may *)
(* store its own: the job of another session, or of another forest.  The   *)
(* WAPI scanner keeps what it connects to, too, in its fields.             *)
(*                                                                         *)
(* What a field holds is represented by <<by, of>>: the job that stored it *)
(* and the job whose system it describes.                                  *)
(***************************************************************************)
EXTENDS FiniteSets, Naturals

CONSTANTS Sess,
          NoSess,   \* neither a session nor a job
          Kind,     \* providers of the requests the runs may have
          MaxJobs   \* bound on the jobs of a session

ASSUME SharedAssumption ==
  /\ NoSess \notin Sess
  /\ Kind \subseteq {"nios", "wapi", "ad", "ad2"}
  /\ MaxJobs \in Nat

(* "ad2" is the request expandADForests makes for a second forest.         *)
Job   == Sess \X Kind
NoJob == <<NoSess, "none">>
ScannerOf(j) == IF j[2] = "ad2" THEN "ad" ELSE j[2]

(* A run asks for a provider once, and NIOS is scanned from a backup or    *)
(* over WAPI (selectScannerKey).                                           *)
ScanRequests == {kinds \in SUBSET Kind :
  /\ Cardinality(kinds) \in 1 .. MaxJobs
  /\ "ad2" \in kinds => "ad" \in kinds
  /\ ~ {"nios", "wapi"} \subseteq kinds}

Nothing == <<NoJob, NoJob>>

VARIABLES
  running,    \* sessions whose scan is running
  overlapped, \* whether two scans ran at the same time
  pc,         \* where each job is
  metrics,    \* Scanner.metrics of NIOS, WAPIScanner.metrics, adServerMetricsJSON
  features,   \* Scanner.gridFeatures and gridLicenses
  flags,      \* Scanner.migrationFlags
  target,     \* WAPIScanner.baseURL
  account,    \* WAPIScanner.username and password
  fetched,    \* the target and the account a WAPI job fetched its report with
  sessNios,   \* Session.NiosServerMetricsJSON
  sessGrid,   \* Session.NiosGridFeaturesJSON and NiosGridLicensesJSON
  sessFlags,  \* Session.NiosMigrationFlagsJSON
  sessAD,     \* Session.ADServerMetricsJSON
  since,      \* the jobs that stored metrics since each job did, itself included
  failed      \* jobs whose Scan returned an error

scannerVars == <<metrics, features, flags, target, account>>
sessionVars == <<sessNios, sessGrid, sessFlags, sessAD>>
runVars == <<running, overlapped>>
sharedVars == <<runVars, pc, scannerVars, fetched, sessionVars, since, failed>>

SharedInit ==
  /\ running = {}
  /\ overlapped = FALSE
  /\ pc = [j \in Job |-> "idle"]
  /\ metrics = [scanner \in {"nios", "wapi", "ad"} |-> Nothing]
  /\ features = Nothing
  /\ flags = Nothing
  /\ target = NoJob
  /\ account = NoJob
  /\ fetched = [j \in Job |-> Nothing]
  /\ sessNios = [s \in Sess |-> Nothing]
  /\ sessGrid = [s \in Sess |-> Nothing]
  /\ sessFlags = [s \in Sess |-> Nothing]
  /\ sessAD = [s \in Sess |-> Nothing]
  /\ since = [j \in Job |-> {}]
  /\ failed = {}

-----------------------------------------------------------------------------
(* Orchestrator.Run of a session: its jobs are goroutines.                 *)

StartRun(s, kinds) ==
  /\ \A j \in Job : j[1] = s => pc[j] = "idle"
  /\ overlapped' = (overlapped \/ running # {})
  /\ running' = running \cup {s}
  /\ pc' = [j \in Job |-> IF j[1] = s /\ j[2] \in kinds THEN "scanning" ELSE pc[j]]
  /\ UNCHANGED <<scannerVars, fetched, sessionVars, since, failed>>

EndRun(s) ==
  /\ s \in running
  /\ \A j \in Job : j[1] = s => pc[j] \in {"idle", "done"}
  /\ running' = running \ {s}
  /\ UNCHANGED <<overlapped, pc, scannerVars, fetched, sessionVars, since, failed>>

Goto(j, where) == pc' = [pc EXCEPT ![j] = where]

(* A store into the metrics of a scanner, under its lock. *)
Store(j, result) ==
  /\ metrics' = [metrics EXCEPT ![ScannerOf(j)] = result]
  /\ since' = [k \in Job |->
       IF k = j \/ (since[k] # {} /\ ScannerOf(k) = ScannerOf(j))
       THEN since[k] \cup {j} ELSE since[k]]

(* Scan returns an error: runProvider attaches nothing.                    *)
Fail(j) ==
  /\ pc[j] \in {"connected", "stored"} \cup (IF j[2] = "wapi" THEN {} ELSE {"scanning"})
  /\ Goto(j, "done")
  /\ failed' = failed \cup {j}
  /\ UNCHANGED <<runVars, scannerVars, fetched, sessionVars, since>>

-----------------------------------------------------------------------------
(* nios.Scanner.Scan: migration flags are stored when the backup has some, *)
(* and are never reset.                                                    *)

NiosCount(j, some) ==
  /\ j[2] = "nios"
  /\ pc[j] = "scanning"
  /\ Goto(j, "counted")
  /\ IF some THEN flags' = <<j, j>> ELSE UNCHANGED flags
  /\ UNCHANGED <<runVars, metrics, features, target, account, fetched, sessionVars, since, failed>>

(* Slip: what an earlier scan stored is kept. *)
NiosStoreOnce(j, result) ==
  /\ j[2] = "nios"
  /\ pc[j] = "counted"
  /\ Goto(j, "metrics")
  /\ IF metrics["nios"] = Nothing
     THEN Store(j, result) /\ features' = <<j, j>>
     ELSE since' = [since EXCEPT ![j] = {j}] /\ UNCHANGED <<metrics, features>>
  /\ UNCHANGED <<runVars, flags, target, account, fetched, sessionVars, failed>>

NiosStore(j, result) ==
  /\ j[2] = "nios"
  /\ pc[j] = "counted"
  /\ Goto(j, "metrics")
  /\ Store(j, result)
  /\ features' = <<j, j>>
  /\ UNCHANGED <<runVars, flags, target, account, fetched, sessionVars, failed>>

(* attachNiosResults of a backup scan: the getters take the lock one by    *)
(* one, and so do the setters of the session.                              *)
AttachMetrics(j) ==
  /\ j[2] \in {"nios", "wapi"}
  /\ pc[j] = "metrics"
  /\ IF metrics[j[2]] # Nothing
     THEN sessNios' = [sessNios EXCEPT ![j[1]] = metrics[j[2]]]
     ELSE UNCHANGED sessNios
  /\ Goto(j, IF j[2] = "nios" THEN "features" ELSE "done")
  /\ UNCHANGED <<runVars, scannerVars, fetched, sessGrid, sessFlags, sessAD, since, failed>>

AttachFeatures(j) ==
  /\ pc[j] = "features"
  /\ sessGrid' = [sessGrid EXCEPT ![j[1]] = features]
  /\ Goto(j, "flags")
  /\ UNCHANGED <<runVars, scannerVars, fetched, sessNios, sessFlags, sessAD, since, failed>>

AttachFlags(j) ==
  /\ pc[j] = "flags"
  /\ IF flags # Nothing THEN sessFlags' = [sessFlags EXCEPT ![j[1]] = flags]
                        ELSE UNCHANGED sessFlags
  /\ Goto(j, "done")
  /\ UNCHANGED <<runVars, scannerVars, fetched, sessNios, sessGrid, sessAD, since, failed>>

-----------------------------------------------------------------------------
(* nios.WAPIScanner.Scan: the request's URL and account go into fields     *)
(* that no lock protects, and are read back for each call to the grid.     *)

WapiTarget(j) ==
  /\ j[2] = "wapi"
  /\ pc[j] = "scanning"
  /\ target' = j
  /\ Goto(j, "targeted")
  /\ UNCHANGED <<runVars, metrics, features, flags, account, fetched, sessionVars, since, failed>>

WapiAccount(j) ==
  /\ pc[j] = "targeted"
  /\ account' = j
  /\ Goto(j, "connected")
  /\ UNCHANGED <<runVars, metrics, features, flags, target, fetched, sessionVars, since, failed>>

(* fetchCapacityReport: a grid answers if it accepts the account.          *)
WapiFetch(j) ==
  /\ pc[j] = "connected"
  /\ fetched' = [fetched EXCEPT ![j] = <<target, account>>]
  /\ Goto(j, "reported")
  /\ UNCHANGED <<runVars, scannerVars, sessionVars, since, failed>>

WapiStore(j, empty) ==
  /\ pc[j] = "reported"
  /\ Store(j, IF empty THEN Nothing ELSE <<j, fetched[j][1]>>)
  /\ Goto(j, "metrics")
  /\ UNCHANGED <<runVars, features, flags, target, account, fetched, sessionVars, failed>>

-----------------------------------------------------------------------------
(* ad.Scanner.Scan stores the metrics of the domain controllers it reached *)
(* and may fail after that, when they returned no rows.  When the filter   *)
(* leaves none of them, there are rows of Entra ID and nothing is stored.  *)

ADStore(j) ==
  /\ j[2] \in {"ad", "ad2"}
  /\ pc[j] = "scanning"
  /\ Store(j, <<j, j>>)
  /\ Goto(j, "stored")
  /\ UNCHANGED <<runVars, features, flags, target, account, fetched, sessionVars, failed>>

ADReturn(j) ==
  /\ j[2] \in {"ad", "ad2"}
  /\ pc[j] \in {"scanning", "stored"}
  /\ Goto(j, "adMetrics")
  /\ UNCHANGED <<runVars, scannerVars, fetched, sessionVars, since, failed>>

(* Slip: a failed scan attaches what it stored. *)
AttachADAlways(j) ==
  /\ pc[j] \in {"adMetrics", "done"}
  /\ ScannerOf(j) = "ad"
  /\ IF metrics["ad"] # Nothing THEN sessAD' = [sessAD EXCEPT ![j[1]] = metrics["ad"]]
                                ELSE UNCHANGED sessAD
  /\ Goto(j, "done")
  /\ UNCHANGED <<runVars, scannerVars, fetched, sessNios, sessGrid, sessFlags, since, failed>>

AttachAD(j) ==
  /\ pc[j] = "adMetrics"
  /\ IF metrics["ad"] # Nothing THEN sessAD' = [sessAD EXCEPT ![j[1]] = metrics["ad"]]
                                ELSE UNCHANGED sessAD
  /\ Goto(j, "done")
  /\ UNCHANGED <<runVars, scannerVars, fetched, sessNios, sessGrid, sessFlags, since, failed>>

-----------------------------------------------------------------------------
NiosStep(j) ==
  \/ \E some \in BOOLEAN : NiosCount(j, some)
  \/ \E result \in {<<j, j>>, Nothing} : NiosStore(j, result)
  \/ AttachMetrics(j) \/ AttachFeatures(j) \/ AttachFlags(j)

WapiStep(j) ==
  \/ WapiTarget(j) \/ WapiAccount(j) \/ WapiFetch(j)
  \/ \E empty \in BOOLEAN : WapiStore(j, empty)

ADStep(j) == ADStore(j) \/ ADReturn(j) \/ AttachAD(j)

SharedNext ==
  \/ \E s \in Sess, kinds \in ScanRequests : StartRun(s, kinds)
  \/ \E s \in Sess : EndRun(s)
  \/ \E j \in Job : NiosStep(j) \/ WapiStep(j) \/ ADStep(j) \/ Fail(j)

SharedSpec == SharedInit /\ [][SharedNext]_sharedVars

-----------------------------------------------------------------------------
(* Properties.                                                             *)

Succeeded(j) == pc[j] = "done" /\ j \notin failed

(* The metrics a session has after a job of it succeeded. *)
Attached(j) == IF ScannerOf(j) = "ad" THEN sessAD[j[1]] ELSE sessNios[j[1]]

(* A session shows metrics of a kind only when a scan of it succeeded: one *)
(* that stored its metrics and failed then attaches nothing.               *)
FailureAttachesNothing ==
  \A s \in Sess :
    /\ sessAD[s] # Nothing =>
         \E j \in Job : j[1] = s /\ ScannerOf(j) = "ad" /\ Succeeded(j)
    /\ sessNios[s] # Nothing =>
         \E j \in Job : /\ j[1] = s /\ j[2] \in {"nios", "wapi"}
                        /\ Succeeded(j) \/ pc[j] \in {"features", "flags"}

(* A job whose scan stored metrics leaves its session with those, or with  *)
(* ones stored later: never with what an earlier scan left in the scanner, *)
(* however the jobs of the sessions interleave; and sessions that scan one *)
(* after the other get their own results, of the grids and forests they    *)
(* asked for.                                                              *)
OwnResults ==
  \A j \in Job : Succeeded(j) /\ since[j] # {} =>
    /\ Attached(j) # Nothing =>
         /\ Attached(j)[1] \in since[j]
         /\ ~ overlapped => Attached(j)[1][1] = j[1] /\ Attached(j)[2][1] = j[1]
    /\ j[2] = "nios" =>
         /\ sessGrid[j[1]][1] \in since[j]
         /\ ~ overlapped => sessGrid[j[1]] = <<j, j>>

=============================================================================
