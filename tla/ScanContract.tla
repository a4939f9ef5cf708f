---------------------------- MODULE ScanContract ----------------------------
(***************************************************************************)
(* What the server promises to a client about the scan of a session, with  *)
(* none of the handlers, goroutines, events or stores that implement it.   *)
(*                                                                         *)
(* A scan is started once for a set of jobs.  Some time later it completes *)
(* with an outcome for each job: its findings were kept, or it is listed   *)
(* among the errors.  The failure of one job costs no other job its        *)
(* findings, and the published outcome never changes afterwards.           *)
(*                                                                         *)
(* The fields of a session are not synchronised.  When two goroutines meet *)
(* on them nothing is promised any more: the contract is void.             *)
(***************************************************************************)

CONSTANTS Job       \* everything a scan may be asked to run

VARIABLES phase,    \* what GET .../status can tell the client, or "void"
          asked,    \* the jobs the accepted request stands for
          result    \* what GET .../results returns, once the phase is "complete"

vars == <<phase, asked, result>>

NoResult == [ok |-> {}, failed |-> {}]

Init ==
  /\ phase = "created"
  /\ asked = {}
  /\ result = NoResult

(* The request is accepted: the jobs of the scan are fixed. *)
Start(jobs) ==
  /\ phase = "created"
  /\ phase' = "scanning"
  /\ asked' = jobs
  /\ UNCHANGED result

(* The scan ends.  Every job is accounted for, on exactly one side. *)
Complete(failed) ==
  /\ phase = "scanning"
  /\ failed \subseteq asked
  /\ phase' = "complete"
  /\ result' = [ok |-> asked \ failed, failed |-> failed]
  /\ UNCHANGED asked

(* Two requests have both found the session created, or the complete state *)
(* can be seen before what it stands for.  Neither happens once the scan   *)
(* has completed.                                                          *)
Void ==
  /\ phase \in {"created", "scanning"}
  /\ phase' = "void"
  /\ asked' = {}
  /\ result' = NoResult

Next ==
  \/ \E jobs \in SUBSET Job : Start(jobs)
  \/ \E failed \in SUBSET Job : Complete(failed)
  \/ Void

Spec == Init /\ [][Next]_vars
=============================================================================
