--------------------------- MODULE CheckpointFile ---------------------------
(***************************************************************************)
(* What internal/checkpoint promises a scan over several units: a reader   *)
(* of the file finds what one complete save wrote, or nothing.  The file   *)
(* changes in one step, when a unit is added, and it is only removed when  *)
(* a scan ends by itself.                                                  *)
(***************************************************************************)
CONSTANT Unit

VARIABLES
  scanning,  \* whether a scan is in progress
  mem,       \* units the scan's Checkpoint has accumulated
  disk       \* units a Load of the file would find

vars == <<scanning, mem, disk>>

Init == scanning = FALSE /\ mem = {} /\ disk = {}

Begin ==
  /\ scanning = FALSE
  /\ scanning' = TRUE
  /\ UNCHANGED <<mem, disk>>

(* AddUnit: the save may fail, and then the file is the one it was. *)
Add(u) ==
  /\ scanning
  /\ u \notin mem
  /\ mem' = mem \cup {u}
  /\ disk' \in {disk, mem'}
  /\ UNCHANGED scanning

(* The process ends at any moment; the file stays. *)
Interrupted ==
  /\ scanning
  /\ scanning' = FALSE
  /\ mem' = {}
  /\ UNCHANGED disk

(* The scan is over, its file removed if that succeeds. *)
End ==
  /\ scanning
  /\ scanning' = FALSE
  /\ mem' = {}
  /\ disk' \in {disk, {}}

Next == Begin \/ Interrupted \/ End \/ \E u \in Unit : Add(u)

Spec == Init /\ [][Next]_vars
=============================================================================
