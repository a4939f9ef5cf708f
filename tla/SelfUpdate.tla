----------------------------- MODULE SelfUpdate -----------------------------
(***************************************************************************)
(* The update of the program by itself: pages ask the server for an        *)
(* update, have it installed and restart the server (use-backend.ts, the   *)
(* buttons of wizard.tsx); the server downloads the new executable, moves  *)
(* the one it runs from out of the way and replaces itself (update.go).    *)
(* Nothing keeps two requests apart: the pages of two tabs, or a page that *)
(* gave up waiting and was reloaded, may have updates under way together.  *)
(*                                                                         *)
(* Left out: installations in Docker or by Homebrew, for which the server  *)
(* touches no file of its own, and the hour for which it remembers what    *)
(* the latest release is.                                                  *)
(***************************************************************************)
EXTENDS Naturals

CONSTANTS
  Tabs,          \* pages in the browser
  Requests,      \* requests to update; the bound on their number
  None,          \* no request
  MaxPolls,      \* attempts to reach the server after a restart: 30
  MaxProcesses   \* processes, the first one included: a bound

ASSUME SelfUpdateAssumption == MaxPolls \in Nat \ {0} /\ MaxProcesses \in Nat /\ None \notin Requests

VARIABLES
  exec,     \* the version of the executable at execPath, or Missing
  old,      \* the version of execPath.old, or Missing
  temp,     \* the temporary file of each request
  server,   \* "up", "starting" or "down"
  running,  \* the version of the process
  exiting,  \* a goroutine of HandleRestart sleeps
  process,  \* the number of the process
  pc,       \* where HandleSelfUpdate is with each request
  born,     \* the process each request was sent to
  tab,      \* what each page has
  mishaps   \* what went wrong so far, up to two: not in the code

vars == <<exec, old, temp, server, running, exiting, process, pc, born, tab, mishaps>>
disk == <<exec, old, temp>>
host == <<server, running, exiting, process>>

Missing == 0
Latest == 2  \* the version of the latest release

Locations ==
  {"unsent", "received", "checked", "downloading", "downloaded", "cleared", "backed",
   "installed", "restoring", "discarding", "refused", "answered", "dead"}

(* between the removal of the previous backup and the end of the renames *)
Replacing == {"cleared", "backed", "restoring"}

Running(r) == pc[r] \notin {"unsent", "answered", "dead"}

NewTab == [status |-> "idle", offered |-> FALSE, checked |-> FALSE,
           awaits |-> None, polls |-> 0]

Init ==
  /\ exec = 1
  /\ old = Missing
  /\ temp = [r \in Requests |-> "none"]
  /\ server = "up"
  /\ running = 1
  /\ exiting = FALSE
  /\ process = 1
  /\ pc = [r \in Requests |-> "unsent"]
  /\ born = [r \in Requests |-> 0]
  /\ tab = [t \in Tabs |-> NewTab]
  /\ mishaps = 0

Mishap == mishaps' = IF mishaps = 2 THEN 2 ELSE mishaps + 1

-----------------------------------------------------------------------------
(* HandleSelfUpdate.                                                       *)

Step(r, from, to) == pc[r] = from /\ pc' = [pc EXCEPT ![r] = to]

(* No release is known, none is newer, it has no file for this platform,   *)
(* the directory is not writable: the early returns before the download.   *)
RefuseUpdate(r) ==
  /\ \/ Step(r, "received", "refused")
     \/ Step(r, "checked", "refused")
  /\ UNCHANGED <<disk, host, born, tab, mishaps>>

(* A newer release, and an executable that is where it was started from. *)
CheckUpdate(r) ==
  /\ running < Latest
  /\ exec # Missing
  /\ Step(r, "received", "checked")
  /\ UNCHANGED <<disk, host, born, tab, mishaps>>

CreateTemp(r) ==
  /\ Step(r, "checked", "downloading")
  /\ temp' = [temp EXCEPT ![r] = "part"]
  /\ UNCHANGED <<exec, old, host, born, tab, mishaps>>

(* Downloaded, written and made executable, or cleaned up. *)
Download(r) ==
  /\ \/ Step(r, "downloading", "downloaded") /\ temp' = [temp EXCEPT ![r] = "whole"]
     \/ Step(r, "downloading", "refused") /\ temp' = [temp EXCEPT ![r] = "none"]
  /\ UNCHANGED <<exec, old, host, born, tab, mishaps>>

RemoveOld(r) ==
  /\ Step(r, "downloaded", "cleared")
  /\ old' = Missing
  /\ IF \E q \in Requests : pc[q] \in Replacing THEN Mishap ELSE UNCHANGED mishaps
  /\ UNCHANGED <<exec, temp, host, born, tab>>

BackupFails(r) ==
  /\ Step(r, "cleared", "refused")
  /\ temp' = [temp EXCEPT ![r] = "none"]
  /\ IF exec = Missing THEN UNCHANGED mishaps ELSE Mishap
  /\ UNCHANGED <<exec, old, host, born, tab>>

(* Slip: the backup is removed when it was made, not before. *)
BackupThenRemove(r) ==
  /\ exec # Missing
  /\ Step(r, "cleared", "backed")
  /\ old' = Missing
  /\ exec' = Missing
  /\ UNCHANGED <<temp, host, born, tab, mishaps>>

Backup(r) ==
  /\ exec # Missing
  /\ Step(r, "cleared", "backed")
  /\ old' = exec
  /\ exec' = Missing
  /\ UNCHANGED <<temp, host, born, tab, mishaps>>

Install(r) ==
  /\ Step(r, "backed", "installed")
  /\ exec' = Latest
  /\ temp' = [temp EXCEPT ![r] = "none"]
  /\ UNCHANGED <<old, host, born, tab, mishaps>>

InstallFails(r) ==
  /\ Step(r, "backed", "restoring")
  /\ Mishap
  /\ UNCHANGED <<disk, host, born, tab>>

(* The result of this rename is not looked at. *)
Restore(r) ==
  /\ Step(r, "restoring", "discarding")
  /\ \/ old # Missing /\ exec' = old /\ old' = Missing /\ UNCHANGED mishaps
     \/ UNCHANGED <<exec, old>> /\ (IF old = Missing THEN UNCHANGED mishaps ELSE Mishap)
  /\ UNCHANGED <<temp, host, born, tab>>

Discard(r) ==
  /\ Step(r, "discarding", "refused")
  /\ temp' = [temp EXCEPT ![r] = "none"]
  /\ UNCHANGED <<exec, old, host, born, tab, mishaps>>

(* The answer, which a page that gave up does not get. *)
Answer(r) ==
  /\ pc[r] \in {"installed", "refused"}
  /\ pc' = [pc EXCEPT ![r] = "answered"]
  /\ tab' = [t \in Tabs |->
       IF tab[t].awaits # r THEN tab[t]
       ELSE [tab[t] EXCEPT !.status = IF pc[r] = "installed" THEN "done" ELSE "error",
                           !.awaits = None]]
  /\ UNCHANGED <<disk, host, born, mishaps>>

HandlerStep(r) ==
  \/ RefuseUpdate(r) \/ CheckUpdate(r) \/ CreateTemp(r) \/ Download(r) \/ RemoveOld(r)
  \/ BackupFails(r) \/ Backup(r) \/ Install(r) \/ InstallFails(r) \/ Restore(r)
  \/ Discard(r) \/ Answer(r)

-----------------------------------------------------------------------------
(* The process.                                                            *)

HandlersDie == pc' = [r \in Requests |-> IF Running(r) THEN "dead" ELSE pc[r]]

Become(v) ==
  /\ process < MaxProcesses
  /\ server' = "starting"
  /\ running' = v
  /\ process' = process + 1

(* The goroutine of HandleRestart replaces the process or, where that      *)
(* fails, ends it; either way with the requests it was serving.            *)
Reexec ==
  /\ exiting
  /\ exiting' = FALSE
  /\ \/ exec # Missing /\ Become(exec)
     \/ server' = "down" /\ UNCHANGED <<running, process>>
  /\ HandlersDie
  /\ UNCHANGED <<disk, born, tab, mishaps>>

Listen ==
  /\ server = "starting"
  /\ server' = "up"
  /\ UNCHANGED <<disk, running, exiting, process, pc, born, tab, mishaps>>

Crash ==
  /\ server # "down"
  /\ server' = "down"
  /\ exiting' = FALSE
  /\ HandlersDie
  /\ Mishap
  /\ UNCHANGED <<disk, running, process, born, tab>>

Relaunch ==
  /\ server = "down"
  /\ exec # Missing
  /\ Become(exec)
  /\ UNCHANGED <<disk, exiting, pc, born, tab, mishaps>>

-----------------------------------------------------------------------------
(* The pages.                                                              *)

(* The first time the server answers the page asks for an update. *)
Connected(t) ==
  /\ server = "up"
  /\ ~tab[t].checked
  /\ tab' = [tab EXCEPT ![t] = [@ EXCEPT !.checked = TRUE, !.status = "checking"]]
  /\ UNCHANGED <<disk, host, pc, born, mishaps>>

(* HandleCheckUpdate, which offers nothing when it cannot reach GitHub *)
Checked(t) ==
  /\ tab[t].status = "checking"
  /\ \/ server = "up" /\ \E o \in {FALSE, running < Latest} :
          tab' = [tab EXCEPT ![t] = [@ EXCEPT !.status = "idle", !.offered = o]]
     \/ tab' = [tab EXCEPT ![t].status = "error"]
  /\ UNCHANGED <<disk, host, pc, born, mishaps>>

ApplyUpdate(t, r) ==
  /\ tab[t].offered
  /\ tab[t].status = "idle"
  /\ server = "up"
  /\ Step(r, "unsent", "received")
  /\ born' = [born EXCEPT ![r] = process]
  /\ tab' = [tab EXCEPT ![t] = [@ EXCEPT !.status = "updating", !.awaits = r]]
  /\ UNCHANGED <<disk, host, mishaps>>

(* After two minutes, or when the server is gone. *)
UpdateAbandoned(t) ==
  /\ tab[t].status = "updating"
  /\ tab' = [tab EXCEPT ![t] = [@ EXCEPT !.status = "error", !.awaits = None]]
  /\ UNCHANGED <<disk, host, pc, born, mishaps>>

RestartAfterUpdate(t) ==
  /\ tab[t].status = "done"
  /\ tab' = [tab EXCEPT ![t] = [@ EXCEPT !.status = "restarting", !.polls = 0]]
  /\ exiting' = (exiting \/ server = "up")
  /\ UNCHANGED <<disk, server, running, process, pc, born, mishaps>>

(* Slip: the last attempt is repeated. *)
PollFailsOn(t) ==
  /\ tab[t].status = "restarting"
  /\ tab' = [tab EXCEPT ![t].polls = IF @ + 1 < MaxPolls THEN @ + 1 ELSE @]
  /\ UNCHANGED <<disk, host, pc, born, mishaps>>

PollFails(t) ==
  /\ tab[t].status = "restarting"
  /\ LET attempt == tab[t].polls + 1 IN
       tab' = [tab EXCEPT ![t] = IF attempt < MaxPolls THEN [@ EXCEPT !.polls = attempt]
                                 ELSE [@ EXCEPT !.status = "error"]]
  /\ UNCHANGED <<disk, host, pc, born, mishaps>>

(* Whichever process answers, the page is loaded again. *)
PollAnswered(t) ==
  /\ tab[t].status = "restarting"
  /\ server = "up"
  /\ tab' = [tab EXCEPT ![t] = NewTab]
  /\ UNCHANGED <<disk, host, pc, born, mishaps>>

Reload(t) ==
  /\ server = "up"
  /\ tab[t] # NewTab
  /\ tab' = [tab EXCEPT ![t] = NewTab]
  /\ UNCHANGED <<disk, host, pc, born, mishaps>>

Poll(t) == PollFails(t) \/ PollAnswered(t)

TabStep(t) ==
  \/ Connected(t) \/ Checked(t) \/ UpdateAbandoned(t) \/ RestartAfterUpdate(t) \/ Poll(t) \/ Reload(t)
  \/ \E r \in Requests : ApplyUpdate(t, r)

Next ==
  \/ \E r \in Requests : HandlerStep(r)
  \/ \E t \in Tabs : TabStep(t)
  \/ Reexec \/ Listen \/ Crash \/ Relaunch

(* Handlers and timers run on; nobody has to press a button, and nothing   *)
(* has to fail.                                                            *)
Fairness == \A t \in Tabs : WF_vars(Poll(t))

Spec == Init /\ [][Next]_vars /\ Fairness

-----------------------------------------------------------------------------

TabType ==
  [status : {"idle", "checking", "updating", "done", "restarting", "error"},
   offered : BOOLEAN, checked : BOOLEAN, awaits : Requests \cup {None}, polls : 0..MaxPolls]

TypeOK ==
  /\ exec \in 0..Latest /\ old \in 0..Latest
  /\ temp \in [Requests -> {"none", "part", "whole"}]
  /\ server \in {"up", "starting", "down"}
  /\ running \in 1..Latest
  /\ exiting \in BOOLEAN
  /\ process \in Nat
  /\ pc \in [Requests -> Locations]
  /\ born \in [Requests -> Nat]
  /\ tab \in [Tabs -> TabType]
  /\ mishaps \in 0..2

(* One thing that goes wrong, a rename that fails, an interruption or a    *)
(* second update in the middle of the first, never leaves the disk without *)
(* the program: it is at its place, in the backup or in a download.        *)
CopyKept ==
  mishaps <= 1 =>
    exec # Missing \/ old # Missing \/ \E r \in Requests : temp[r] = "whole"

(* A temporary file without its request is from a process that ended. *)
TempsOwned ==
  \A r \in Requests : temp[r] # "none" =>
    Running(r) \/ (pc[r] = "dead" /\ (born[r] < process \/ server = "down"))

(* A page that waits for the restart is loaded again or shows an error.    *)
RestartEnds == \A t \in Tabs : tab[t].status = "restarting" ~> tab[t].status # "restarting"
=============================================================================
