--------------------------- MODULE CheckpointScan ---------------------------
(***************************************************************************)
(* A scan over many units that survives an interruption: scanOrg of the    *)
(* AWS scanner (units are accounts), scanAllSubscriptions of the Azure one *)
(* and scanAllProjects of the GCP one, which are the same but for their    *)
(* units, over internal/checkpoint and cloudutil.Semaphore.                *)
(*                                                                         *)
(* The units are scanned by goroutines, a semaphore lets Workers of them   *)
(* run at a time, and each whose scan returns without an error is added to *)
(* the checkpoint, whose file is written beside it and renamed.  That says *)
(* little: most requests that fail inside a unit's scan are only published *)
(* as events, and the scan of a GCP project has no error to return.  The   *)
(* process may end at any moment; a later scan with the same checkpoint    *)
(* path resumes.  Rows are represented by the unit they come from.         *)
(***************************************************************************)
EXTENDS Naturals, FiniteSets

CONSTANTS Unit,      \* accounts, subscriptions or projects
          NoUnit,    \* nobody holds the lock of the Checkpoint
          Workers,   \* capacity of the semaphore
          MaxScans   \* bound on the scans of a behaviour

ASSUME CheckpointAssumption ==
  /\ IsFiniteSet(Unit)
  /\ NoUnit \notin Unit
  /\ Workers \in Nat \ {0}
  /\ MaxScans \in Nat

VARIABLES
  scan,       \* "none", "running" or "finished"
  scans,      \* how many were started
  units,      \* the units of the scan
  loaded,     \* its skip set: the units found in the checkpoint
  counted,    \* how often the rows of each unit are in its findings
  stage,         \* where the goroutine of each unit is
  sem,        \* units that hold a slot of the semaphore
  outcome,    \* how the scan of each unit ended: "whole", "partial" when
              \* requests failed inside it, "failed" when it says so
  cpUnits,    \* the CompletedUnits of its Checkpoint
  lock,       \* unit whose AddUnit holds the Checkpoint's mutex
  file,       \* the checkpoint file: "absent", "whole" or "unreadable"
  fileUnits,  \* the units in it
  tmp,        \* the temporary file: "absent", "partial" or "whole"
  tmpUnits,   \* the units in it
  returned,   \* units whose scan returned without an error since the
              \* checkpoint file was last deleted
  recorded    \* units the file listed since a scan last finished

scanVars  == <<scan, scans, units, loaded>>
fileVars  == <<file, fileUnits>>
tmpVars   == <<tmp, tmpUnits>>
addVars   == <<cpUnits, lock>>
histVars  == <<returned, recorded>>
fanOutVars == <<scanVars, counted, stage, sem, outcome, addVars, fileVars, tmpVars, histVars>>

(* cp # nil: only scans of several units are worth a checkpoint. *)
Checkpointed == Cardinality(units) > 1

(* Load: no file is a fresh start, and so is one that cannot be read. *)
Load == IF file = "whole" THEN fileUnits ELSE {}

(* A path without a file, or with one of another version.                  *)
FanOutInit ==
  /\ scan = "none"
  /\ scans = 0
  /\ units = {}
  /\ loaded = {}
  /\ counted = [u \in Unit |-> 0]
  /\ stage = [u \in Unit |-> "idle"]
  /\ sem = {}
  /\ outcome = [u \in Unit |-> "none"]
  /\ cpUnits = {}
  /\ lock = NoUnit
  /\ file \in {"absent", "unreadable"}
  /\ fileUnits = {}
  /\ tmp = "absent"
  /\ tmpUnits = {}
  /\ returned = {}
  /\ recorded = {}

-----------------------------------------------------------------------------
(* The start of a scan: what the checkpoint holds is skipped and its rows  *)
(* are findings already; New makes a Checkpoint without units.             *)

(* Slip: the rows of the checkpoint are kept, its units are not skipped. *)
StartWithoutSkips(selected) ==
  /\ scan # "running"
  /\ scans < MaxScans
  /\ scan' = "running"
  /\ scans' = scans + 1
  /\ units' = selected
  /\ loaded' = {}
  /\ counted' = [u \in Unit |->
       IF Cardinality(selected) > 1 /\ u \in Load THEN 1 ELSE 0]
  /\ stage' = [u \in Unit |-> IF u \in selected THEN "waiting" ELSE "idle"]
  /\ outcome' = [u \in Unit |-> "none"]
  /\ UNCHANGED <<sem, addVars, fileVars, tmpVars, histVars>>

Start(selected) ==
  /\ scan # "running"
  /\ scans < MaxScans
  /\ scan' = "running"
  /\ scans' = scans + 1
  /\ units' = selected
  /\ loaded' = IF Cardinality(selected) > 1 THEN Load ELSE {}
  /\ counted' = [u \in Unit |-> IF u \in loaded' THEN 1 ELSE 0]
  /\ stage' = [u \in Unit |-> IF u \in selected THEN "waiting" ELSE "idle"]
  /\ outcome' = [u \in Unit |-> "none"]
  /\ UNCHANGED <<sem, addVars, fileVars, tmpVars, histVars>>

-----------------------------------------------------------------------------
(* The goroutine of a unit.                                                *)

Goto(u, where) == stage' = [stage EXCEPT ![u] = where]

(* Its deferred Release. *)
Leave(u) == Goto(u, "done") /\ sem' = sem \ {u}

(* A context that is never cancelled: Acquire waits for a slot.            *)
Acquire(u) ==
  /\ stage[u] = "waiting"
  /\ Cardinality(sem) < Workers
  /\ sem' = sem \cup {u}
  /\ Goto(u, IF u \in loaded THEN "skipping" ELSE "scanning")
  /\ UNCHANGED <<scanVars, counted, outcome, addVars, fileVars, tmpVars, histVars>>

(* Slip: the early return keeps the slot. *)
SkipHolding(u) ==
  /\ stage[u] = "skipping"
  /\ Goto(u, "done")
  /\ UNCHANGED <<scanVars, counted, sem, outcome, addVars, fileVars, tmpVars, histVars>>

Skip(u) ==
  /\ stage[u] = "skipping"
  /\ Leave(u)
  /\ UNCHANGED <<scanVars, counted, outcome, addVars, fileVars, tmpVars, histVars>>

(* AWS only: the role of the account cannot be assumed, nothing is scanned. *)
NoAccess(u) ==
  /\ stage[u] = "scanning"
  /\ outcome' = [outcome EXCEPT ![u] = "failed"]
  /\ Leave(u)
  /\ UNCHANGED <<scanVars, counted, addVars, fileVars, tmpVars, histVars>>

(* Slip: a unit whose scan failed counts as completed. *)
AddFailed(u) ==
  /\ stage[u] = "scanning"
  /\ counted' = [counted EXCEPT ![u] = @ + 1]
  /\ outcome' = [outcome EXCEPT ![u] = "failed"]
  /\ IF Checkpointed THEN Goto(u, "adding") /\ UNCHANGED sem ELSE Leave(u)
  /\ UNCHANGED <<scanVars, addVars, fileVars, tmpVars, histVars>>

(* AWS and Azure: the scan of the unit returns an error with its rows.     *)
ScanFails(u) ==
  /\ stage[u] = "scanning"
  /\ counted' = [counted EXCEPT ![u] = @ + 1]
  /\ outcome' = [outcome EXCEPT ![u] = "failed"]
  /\ Leave(u)
  /\ UNCHANGED <<scanVars, addVars, fileVars, tmpVars, histVars>>

(* It returns rows only, whatever went wrong inside: a request that failed *)
(* leaves a row out, or one that counts nothing.                           *)
ScanReturns(u) ==
  /\ stage[u] = "scanning"
  /\ counted' = [counted EXCEPT ![u] = @ + 1]
  /\ \E how \in {"whole", "partial"} : outcome' = [outcome EXCEPT ![u] = how]
  /\ returned' = returned \cup {u}
  /\ IF Checkpointed THEN Goto(u, "adding") /\ UNCHANGED sem ELSE Leave(u)
  /\ UNCHANGED <<scanVars, addVars, fileVars, tmpVars, recorded>>

-----------------------------------------------------------------------------
(* AddUnit and atomicSave, under the mutex of the Checkpoint.              *)

Unlock(u) == lock' = NoUnit /\ Leave(u)

(* Slip: the file itself is written. *)
OpenFile(u) ==
  /\ stage[u] = "adding"
  /\ lock = NoUnit
  /\ lock' = u
  /\ cpUnits' = cpUnits \cup {u}
  /\ file' = "unreadable"
  /\ Goto(u, "writing")
  /\ UNCHANGED <<scanVars, counted, sem, outcome, fileUnits, tmpVars, histVars>>

(* The unit is appended and the temporary file opened, which empties it. *)
Open(u) ==
  /\ stage[u] = "adding"
  /\ lock = NoUnit
  /\ lock' = u
  /\ cpUnits' = cpUnits \cup {u}
  /\ tmp' = "partial"
  /\ tmpUnits' = {}
  /\ Goto(u, "writing")
  /\ UNCHANGED <<scanVars, counted, sem, outcome, fileVars, histVars>>

Write(u) ==
  /\ stage[u] = "writing"
  /\ tmp' = "whole"
  /\ tmpUnits' = cpUnits
  /\ Goto(u, "renaming")
  /\ UNCHANGED <<scanVars, counted, sem, outcome, addVars, fileVars, histVars>>

(* Either call of atomicSave fails: a checkpoint_error event, no more. *)
SaveFails(u) ==
  /\ stage[u] \in {"writing", "renaming"}
  /\ Unlock(u)
  /\ UNCHANGED <<scanVars, counted, outcome, cpUnits, fileVars, tmpVars, histVars>>

Rename(u) ==
  /\ stage[u] = "renaming"
  /\ file' = tmp
  /\ fileUnits' = tmpUnits
  /\ tmp' = "absent"
  /\ tmpUnits' = {}
  /\ recorded' = recorded \cup tmpUnits
  /\ Unlock(u)
  /\ UNCHANGED <<scanVars, counted, outcome, cpUnits, returned>>

-----------------------------------------------------------------------------
(* wg.Wait returns: the checkpoint is deleted; an error of that is ignored. *)
Finish ==
  /\ scan = "running"
  /\ \A u \in units : stage[u] = "done"
  /\ scan' = "finished"
  /\ cpUnits' = {}
  /\ \/ Checkpointed /\ file' = "absent" /\ fileUnits' = {} /\ returned' = {}
     \/ UNCHANGED <<fileVars, returned>>
  /\ recorded' = {}
  /\ UNCHANGED <<scans, units, loaded, counted, stage, sem, outcome, lock, tmpVars>>

(* The process ends: only the files are left. *)
Interrupt ==
  /\ scan = "running"
  /\ scan' = "none"
  /\ units' = {}
  /\ loaded' = {}
  /\ counted' = [u \in Unit |-> 0]
  /\ stage' = [u \in Unit |-> "idle"]
  /\ sem' = {}
  /\ outcome' = [u \in Unit |-> "none"]
  /\ cpUnits' = {}
  /\ lock' = NoUnit
  /\ UNCHANGED <<scans, fileVars, tmpVars, histVars>>

UnitStep(u) ==
  \/ Acquire(u) \/ Skip(u) \/ NoAccess(u) \/ ScanFails(u) \/ ScanReturns(u)
  \/ Open(u) \/ Write(u) \/ SaveFails(u) \/ Rename(u)

FanOutNext ==
  \/ \E selected \in SUBSET Unit \ {{}} : Start(selected)
  \/ \E u \in Unit : UnitStep(u)
  \/ Finish
  \/ Interrupt

(* Goroutines run on, calls to a provider and to the file system return,   *)
(* and a semaphore or a mutex that is free again goes to one that waits.   *)
FanOutFairness == WF_fanOutVars(Finish) /\ \A u \in Unit : WF_fanOutVars(UnitStep(u))

FanOutSpec     == FanOutInit /\ [][FanOutNext]_fanOutVars
FanOutFairSpec == FanOutSpec /\ FanOutFairness

-----------------------------------------------------------------------------
(* Properties.                                                             *)

FanOutTypeOK ==
  /\ scan \in {"none", "running", "finished"}
  /\ scans \in 0 .. MaxScans
  /\ units \subseteq Unit
  /\ loaded \subseteq Unit
  /\ counted \in [Unit -> Nat]
  /\ stage \in [Unit -> {"idle", "waiting", "skipping", "scanning", "adding",
                      "writing", "renaming", "done"}]
  /\ sem \subseteq Unit
  /\ outcome \in [Unit -> {"none", "whole", "partial", "failed"}]
  /\ cpUnits \subseteq Unit
  /\ lock \in Unit \cup {NoUnit}
  /\ file \in {"absent", "whole", "unreadable"}
  /\ fileUnits \subseteq Unit
  /\ tmp \in {"absent", "partial", "whole"}
  /\ tmpUnits \subseteq Unit
  /\ returned \subseteq Unit
  /\ recorded \subseteq Unit

(* The rows of a unit are never in the findings twice, however often the   *)
(* scan was interrupted and resumed, and at the end they are there for     *)
(* every unit whose scan returned without an error, now or earlier.        *)
CountedOnce ==
  /\ \A u \in Unit : counted[u] <= 1
  /\ scan = "finished" =>
       \A u \in units :
         u \in loaded \/ outcome[u] \in {"whole", "partial"} => counted[u] = 1

(* A resumed scan skips no unit whose scan was interrupted or returned an  *)
(* error, and none because of a scan that had ended before the checkpoint  *)
(* file was last deleted.  The comment at AddUnit says more, that a unit   *)
(* is saved after each successful project: one of which requests failed    *)
(* unseen is saved, and skipped, all the same.                             *)
SkipsOnlyCompleted == scan = "running" => loaded \subseteq returned

(* A scan that ran to its end gave every selected unit an outcome, unless  *)
(* the checkpoint had one: none is forgotten.                              *)
AllAccounted ==
  scan = "finished" =>
    /\ sem = {}
    /\ \A u \in units : u \in loaded \/ outcome[u] # "none"

(* Saves of concurrent units and an interruption at any point of one leave *)
(* the file as one complete save wrote it.                                 *)
Promise == INSTANCE CheckpointFile WITH
  scanning <- scan = "running",
  mem      <- cpUnits \ {lock},
  disk     <- Load

FileSpec == Promise!Spec

(* A scan ends, by itself or interrupted, with the slots it has. *)
ScanEnds == scan = "running" ~> scan # "running"
=============================================================================
