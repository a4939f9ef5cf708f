----------------------------- MODULE Disk_proofs -----------------------------
(***************************************************************************)
(* Theorems about what is kept on disk while processes are interrupted:    *)
(* the program that updates itself, for any pages and any number of        *)
(* requests, restarts and attempts, and the checkpoint of a fan-out, for   *)
(* any set of units, workers, scans and interruptions.                     *)
(*                                                                         *)
(* The two have constants, variables and a specification of their own      *)
(* (Spec, FanOutSpec), and no theorem mentions both.                       *)
(***************************************************************************)
EXTENDS SelfUpdate, CheckpointScan, TLAPS

USE DEF Missing, Latest

Status == {"idle", "checking", "updating", "done", "restarting", "error"}

(* The page's fields that are changed one or two at a time.                *)
LEMMA TabChange ==
  ASSUME NEW x \in TabType, NEW s \in Status
  PROVE  /\ [x EXCEPT !.status = s] \in TabType
         /\ [x EXCEPT !.checked = TRUE, !.status = s] \in TabType
         /\ \A b \in BOOLEAN : [x EXCEPT !.status = s, !.offered = b] \in TabType
         /\ \A r \in Requests \cup {None} : [x EXCEPT !.status = s, !.awaits = r] \in TabType
         /\ \A n \in 0..MaxPolls : [x EXCEPT !.status = s, !.polls = n] \in TabType
  BY DEF TabType, Status

LEMMA PollsChange ==
  ASSUME NEW x \in TabType, NEW n \in 0..MaxPolls
  PROVE  [x EXCEPT !.polls = n] \in TabType
  BY DEF TabType

LEMMA NewTabType == NewTab \in TabType
<1>1. 0 \in 0..MaxPolls
  BY SelfUpdateAssumption
<1> QED
  BY <1>1 DEF NewTab, TabType

LEMMA TypeInit == Init => TypeOK
<1> SUFFICES ASSUME Init PROVE TypeOK
  OBVIOUS
<1>1. tab \in [Tabs -> TabType]
  BY NewTabType DEF Init
<1>2. pc \in [Requests -> Locations] /\ temp \in [Requests -> {"none", "part", "whole"}]
      /\ born \in [Requests -> Nat]
  BY DEF Init, Locations
<1>3. /\ exec \in 0..Latest /\ old \in 0..Latest /\ server \in {"up", "starting", "down"}
      /\ running \in 1..Latest /\ process \in Nat /\ mishaps \in 0..2
  BY DEF Init
<1>4. exiting \in BOOLEAN
  BY DEF Init
<1> QED
  BY <1>1, <1>2, <1>3, <1>4 DEF TypeOK

LEMMA TypeStep == TypeOK /\ [Next]_vars => TypeOK'
<1> SUFFICES ASSUME TypeOK, [Next]_vars PROVE TypeOK'
  OBVIOUS
<1> USE DEF TypeOK, disk, host, Mishap
<1>1. ASSUME NEW r \in Requests,
             \/ RefuseUpdate(r) \/ CheckUpdate(r) \/ CreateTemp(r) \/ Download(r) \/ Discard(r)
      PROVE TypeOK'
  BY <1>1 DEF RefuseUpdate, CheckUpdate, CreateTemp, Download, Discard, Step, Locations
<1>2. ASSUME NEW r \in Requests,
             RemoveOld(r) \/ BackupFails(r) \/ Backup(r) \/ Install(r) \/ InstallFails(r) \/ Restore(r)
      PROVE TypeOK'
  BY <1>2 DEF RemoveOld, BackupFails, Backup, Install, InstallFails, Restore, Step, Locations
<1>3. ASSUME NEW r \in Requests, Answer(r) PROVE TypeOK'
  <2>1. \A t \in Tabs : tab'[t] \in TabType
    <3> SUFFICES ASSUME NEW t \in Tabs PROVE tab'[t] \in TabType
      OBVIOUS
    <3>1. tab'[t] = IF tab[t].awaits # r THEN tab[t]
                    ELSE [tab[t] EXCEPT !.status = IF pc[r] = "installed" THEN "done" ELSE "error",
                                        !.awaits = None]
      BY <1>3 DEF Answer
    <3>2. [tab[t] EXCEPT !.status = "done", !.awaits = None] \in TabType
      BY TabChange DEF Status
    <3>3. [tab[t] EXCEPT !.status = "error", !.awaits = None] \in TabType
      BY TabChange DEF Status
    <3> QED
      BY <3>1, <3>2, <3>3
  <2> QED
    BY <1>3, <2>1 DEF Answer, Locations
<1>4. HandlersDie => pc' \in [Requests -> Locations]
  BY DEF HandlersDie, Locations
<1>5. CASE Reexec \/ Crash
  <2>1. pc' \in [Requests -> Locations] /\ UNCHANGED <<exec, old, temp, born, tab>>
    BY <1>4, <1>5 DEF Reexec, Crash
  <2>2. exiting' \in BOOLEAN
    BY <1>5 DEF Reexec, Crash
  <2>3. /\ server' \in {"up", "starting", "down"} /\ running' \in 1..Latest
        /\ process' \in Nat /\ mishaps' \in 0..2
    <3>1. CASE Crash
      BY <3>1 DEF Crash
    <3>2. CASE Reexec
      <4>1. \/ exec # Missing /\ server' = "starting" /\ running' = exec /\ process' = process + 1
            \/ server' = "down" /\ UNCHANGED <<running, process>>
        BY <3>2 DEF Reexec, Become
      <4>2. mishaps' = mishaps
        BY <3>2 DEF Reexec
      <4> QED
        BY <4>1, <4>2
    <3> QED
      BY <1>5, <3>1, <3>2
  <2> QED
    BY <2>1, <2>2, <2>3
<1>6. CASE Listen \/ Relaunch
  BY <1>6 DEF Listen, Relaunch, Become
<1>7. ASSUME NEW t \in Tabs, Connected(t) \/ Checked(t) \/ UpdateAbandoned(t) \/ RestartAfterUpdate(t)
      PROVE TypeOK'
  <2>0. tab[t] \in TabType /\ (running < Latest) \in BOOLEAN /\ 0 \in 0..MaxPolls
    BY SelfUpdateAssumption
  <2>1. PICK x : x \in TabType /\ tab' = [tab EXCEPT ![t] = x]
    <3>1. CASE Connected(t)
      <4>1. [tab[t] EXCEPT !.checked = TRUE, !.status = "checking"] \in TabType
        BY <2>0, TabChange DEF Status
      <4> QED
        BY <3>1, <4>1 DEF Connected
    <3>2. CASE Checked(t)
      <4>1. \A o \in BOOLEAN : [tab[t] EXCEPT !.status = "idle", !.offered = o] \in TabType
        BY <2>0, TabChange DEF Status
      <4>2. [tab[t] EXCEPT !.status = "error"] \in TabType
        BY <2>0, TabChange DEF Status
      <4>3. \/ \E o \in BOOLEAN : tab' = [tab EXCEPT ![t] = [tab[t] EXCEPT !.status = "idle", !.offered = o]]
            \/ tab' = [tab EXCEPT ![t] = [tab[t] EXCEPT !.status = "error"]]
        BY <2>0, <3>2 DEF Checked
      <4> QED
        BY <4>1, <4>2, <4>3
    <3>3. CASE UpdateAbandoned(t)
      <4>1. [tab[t] EXCEPT !.status = "error", !.awaits = None] \in TabType
        BY <2>0, TabChange DEF Status
      <4> QED
        BY <3>3, <4>1 DEF UpdateAbandoned
    <3>4. CASE RestartAfterUpdate(t)
      <4>1. [tab[t] EXCEPT !.status = "restarting", !.polls = 0] \in TabType
        BY <2>0, TabChange DEF Status
      <4> QED
        BY <3>4, <4>1 DEF RestartAfterUpdate
    <3> QED
      BY <1>7, <3>1, <3>2, <3>3, <3>4
  <2> QED
    BY <1>7, <2>1 DEF Connected, Checked, UpdateAbandoned, RestartAfterUpdate
<1>8. ASSUME NEW t \in Tabs, PollFails(t) PROVE TypeOK'
  <2>1. tab[t] \in TabType /\ tab[t].polls \in Nat /\ MaxPolls \in Nat
    BY SelfUpdateAssumption DEF TabType
  <2>2. CASE tab[t].polls + 1 < MaxPolls
    <3>1. tab[t].polls + 1 \in 0..MaxPolls
      BY <2>1, <2>2
    <3>2. [tab[t] EXCEPT !.polls = tab[t].polls + 1] \in TabType
      BY <2>1, <3>1, PollsChange
    <3> QED
      BY <1>8, <2>2, <3>2 DEF PollFails
  <2>3. CASE ~(tab[t].polls + 1 < MaxPolls)
    <3>1. [tab[t] EXCEPT !.status = "error"] \in TabType
      BY <2>1, TabChange DEF Status
    <3> QED
      BY <1>8, <2>3, <3>1 DEF PollFails
  <2> QED
    BY <2>2, <2>3
<1>9. ASSUME NEW t \in Tabs, PollAnswered(t) \/ Reload(t) PROVE TypeOK'
  BY <1>9, NewTabType DEF PollAnswered, Reload
<1>10. ASSUME NEW t \in Tabs, NEW r \in Requests, ApplyUpdate(t, r) PROVE TypeOK'
  <2>1. [tab[t] EXCEPT !.status = "updating", !.awaits = r] \in TabType
    BY TabChange DEF Status
  <2> QED
    BY <1>10, <2>1 DEF ApplyUpdate, Step, Locations
<1>11. CASE UNCHANGED vars
  BY <1>11 DEF vars
<1> QED
  BY <1>1, <1>2, <1>3, <1>5, <1>6, <1>7, <1>8, <1>9, <1>10, <1>11
  DEF Next, HandlerStep, TabStep, Poll

(* Every variable of the update keeps its type (HandleSelfUpdate,          *)
(* HandleRestart and the pages).                                           *)
THEOREM TypeCorrect == Spec => []TypeOK
  BY TypeInit, TypeStep, PTL DEF Spec

-----------------------------------------------------------------------------
(* A request that has the new executable has it whole, and one that does   *)
(* not has none; requests are served by a process that listens.            *)
Requesting ==
  /\ \A r \in Requests :
       /\ pc[r] \in {"downloaded", "cleared", "backed", "restoring", "discarding"} => temp[r] = "whole"
       /\ pc[r] \in {"unsent", "received", "checked", "downloading"} => temp[r] # "whole"
  /\ server # "up" => \A r \in Requests : ~Running(r)

Moving(r) == pc[r] \in {"backed", "restoring"}

(* The executable is away while one request moves it, or for good when     *)
(* that request was ended.                                                 *)
Away ==
  \/ \E r \in Requests : Moving(r)
  \/ server = "down" /\ (old # Missing \/ \E r \in Requests : pc[r] = "dead" /\ temp[r] = "whole")

AtMostOneMishap ==
  /\ \A r, q \in Requests : Moving(r) /\ Moving(q) => r = q
  /\ \A r \in Requests : Moving(r) => exec = Missing
  /\ exec = Missing => Away
  /\ \A r \in Requests : pc[r] = "restoring" =>
       old # Missing /\ \A q \in Requests : pc[q] \in Replacing => q = r

NoMishap ==
  /\ \A r, q \in Requests : pc[r] \in Replacing /\ pc[q] \in Replacing => r = q
  /\ \A r \in Requests : pc[r] # "restoring" /\ (pc[r] = "backed" => old # Missing)

CopyInv ==
  /\ TypeOK
  /\ Requesting
  /\ mishaps <= 1 => AtMostOneMishap
  /\ mishaps = 0 => NoMishap

LEMMA RequestingStep == TypeOK /\ Requesting /\ [Next]_vars => Requesting'
<1> SUFFICES ASSUME TypeOK, Requesting, [Next]_vars PROVE Requesting'
  OBVIOUS
<1>0. pc \in [Requests -> Locations] /\ temp \in [Requests -> {"none", "part", "whole"}]
  BY DEF TypeOK
<1> USE <1>0 DEF Requesting, disk, host, Running
<1>1. ASSUME NEW r \in Requests, RefuseUpdate(r) \/ CheckUpdate(r) \/ CreateTemp(r) PROVE Requesting'
  <2>1. CASE UNCHANGED temp /\ pc[r] \in {"received", "checked"} /\ pc' = [pc EXCEPT ![r] = "refused"]
    BY <1>1, <2>1 DEF RefuseUpdate, CheckUpdate, CreateTemp
  <2>2. CASE CheckUpdate(r)
    <3>1. temp[r] # "whole"
      BY <2>2 DEF CheckUpdate, Step
    <3> QED
      BY <2>2, <3>1 DEF CheckUpdate, Step
  <2>3. CASE CreateTemp(r)
    BY <2>3 DEF CreateTemp, Step
  <2> QED
    BY <1>1, <2>1, <2>2, <2>3 DEF RefuseUpdate, Step
<1>9. ASSUME NEW r \in Requests, Download(r) \/ Discard(r) PROVE Requesting'
  BY <1>9 DEF Download, Discard, Step
<1>2. ASSUME NEW r \in Requests,
             RemoveOld(r) \/ BackupFails(r) \/ Backup(r) \/ Install(r) \/ InstallFails(r) \/ Restore(r)
      PROVE Requesting'
  BY <1>2 DEF RemoveOld, BackupFails, Backup, Install, InstallFails, Restore, Step
<1>3. ASSUME NEW r \in Requests, Answer(r) PROVE Requesting'
  BY <1>3 DEF Answer
<1>4. CASE Reexec \/ Crash
  <2>1. HandlersDie /\ temp' = temp
    BY <1>4 DEF Reexec, Crash
  <2>2. \A r \in Requests : pc'[r] \in {"unsent", "answered", "dead"} /\ (pc'[r] = "unsent" => pc[r] = "unsent")
    BY <2>1 DEF HandlersDie
  <2> QED
    BY <2>1, <2>2
<1>5. CASE Listen \/ Relaunch
  BY <1>5 DEF Listen, Relaunch, Become
<1>6. ASSUME NEW t \in Tabs,
             \/ Connected(t) \/ Checked(t) \/ UpdateAbandoned(t) \/ RestartAfterUpdate(t)
             \/ PollFails(t) \/ PollAnswered(t) \/ Reload(t)
      PROVE Requesting'
  BY <1>6 DEF Connected, Checked, UpdateAbandoned, RestartAfterUpdate, PollFails, PollAnswered, Reload
<1>7. ASSUME NEW t \in Tabs, NEW r \in Requests, ApplyUpdate(t, r) PROVE Requesting'
  BY <1>7 DEF ApplyUpdate, Step
<1>8. CASE UNCHANGED vars
  BY <1>8 DEF vars
<1> QED
  BY <1>1, <1>2, <1>3, <1>4, <1>5, <1>6, <1>7, <1>8, <1>9 DEF Next, HandlerStep, TabStep, Poll

LEMMA CopyStep == CopyInv /\ [Next]_vars => CopyInv'
<1> SUFFICES ASSUME CopyInv, [Next]_vars
             PROVE (mishaps <= 1 => AtMostOneMishap)' /\ (mishaps = 0 => NoMishap)'
  BY TypeStep, RequestingStep DEF CopyInv
<1>0. /\ TypeOK /\ TypeOK' /\ Requesting /\ mishaps \in {0, 1, 2}
      /\ mishaps <= 1 => AtMostOneMishap
      /\ mishaps = 0 => NoMishap
  BY TypeStep DEF CopyInv, TypeOK
<1> DEFINE Goal == (mishaps <= 1 => AtMostOneMishap)' /\ (mishaps = 0 => NoMishap)'
<1>1. pc \in [Requests -> Locations] /\ temp \in [Requests -> {"none", "part", "whole"}]
  BY <1>0 DEF TypeOK
<1>2. Mishap => mishaps' \in {1, 2} /\ (mishaps' <= 1 => mishaps = 0)
  BY <1>0 DEF Mishap
<1> USE <1>0, <1>1 DEF AtMostOneMishap, NoMishap, Away, Moving, Replacing, Requesting, Running, disk, host
<1>3. ASSUME NEW r \in Requests, RefuseUpdate(r) \/ CheckUpdate(r) \/ CreateTemp(r) \/ Download(r)
      PROVE Goal
  BY <1>3 DEF RefuseUpdate, CheckUpdate, CreateTemp, Download, Step
<1>4. ASSUME NEW r \in Requests, RemoveOld(r) PROVE Goal
  <2>1. /\ pc[r] = "downloaded" /\ pc' = [pc EXCEPT ![r] = "cleared"] /\ old' = Missing
        /\ UNCHANGED <<exec, temp, server>>
    BY <1>4 DEF RemoveOld, Step
  <2>2. CASE \E q \in Requests : pc[q] \in Replacing
    <3>1. Mishap
      BY <1>4, <2>2 DEF RemoveOld
    <3>2. mishaps' # 0 /\ (mishaps' <= 1 => mishaps = 0)
      BY <1>2, <3>1
    <3> QED
      BY <2>1, <3>2
  <2>3. CASE \A q \in Requests : pc[q] \notin Replacing
    BY <1>4, <2>1, <2>3 DEF RemoveOld
  <2> QED
    BY <2>2, <2>3
<1>5. ASSUME NEW r \in Requests, BackupFails(r) PROVE Goal
  <2>1. /\ pc[r] = "cleared" /\ pc' = [pc EXCEPT ![r] = "refused"] /\ temp' = [temp EXCEPT ![r] = "none"]
        /\ UNCHANGED <<exec, old, server>> /\ (mishaps' = mishaps \/ (mishaps' # 0 /\ (mishaps' <= 1 => mishaps = 0)))
    BY <1>2, <1>5 DEF BackupFails, Step
  <2> QED
    BY <2>1 DEF TypeOK
<1>6. ASSUME NEW r \in Requests, Backup(r) PROVE Goal
  BY <1>6 DEF Backup, Step
<1>7. ASSUME NEW r \in Requests, Install(r) PROVE Goal
  BY <1>7 DEF Install, Step
<1>8. ASSUME NEW r \in Requests, InstallFails(r) PROVE Goal
  <2>1. /\ pc[r] = "backed" /\ pc' = [pc EXCEPT ![r] = "restoring"] /\ UNCHANGED <<exec, old, temp, server>>
    BY <1>8 DEF InstallFails, Step
  <2>2. mishaps' # 0 /\ (mishaps' <= 1 => mishaps = 0)
    BY <1>2, <1>8 DEF InstallFails
  <2> QED
    BY <2>1, <2>2
<1>9. ASSUME NEW r \in Requests, Restore(r) PROVE Goal
  <2>1. pc[r] = "restoring" /\ pc' = [pc EXCEPT ![r] = "discarding"] /\ UNCHANGED <<temp, server>>
    BY <1>9 DEF Restore, Step
  <2>2. mishaps # 0 /\ mishaps' # 0
    BY <1>2, <1>9, <2>1 DEF Restore
  <2>3. CASE old # Missing /\ exec' = old /\ old' = Missing /\ UNCHANGED mishaps
    BY <2>1, <2>2, <2>3
  <2>4. CASE UNCHANGED <<exec, old>> /\ (IF old = Missing THEN UNCHANGED mishaps ELSE Mishap)
    <3>1. mishaps' = 2
      <4>1. old = Missing => mishaps = 2
        BY <2>1, <2>2
      <4>2. old # Missing => mishaps' = 2
        BY <1>2, <2>2, <2>4
      <4> QED
        BY <2>4, <4>1, <4>2
    <3> QED
      BY <2>2, <3>1
  <2> QED
    BY <1>9, <2>3, <2>4 DEF Restore
<1>10. ASSUME NEW r \in Requests, Discard(r) PROVE Goal
  <2>1. /\ pc[r] = "discarding" /\ pc' = [pc EXCEPT ![r] = "refused"] /\ temp' = [temp EXCEPT ![r] = "none"]
        /\ UNCHANGED <<exec, old, server, mishaps>>
    BY <1>10 DEF Discard, Step
  <2>2. Away => Away'
    BY <2>1
  <2>3. \A q \in Requests : pc'[q] = pc[q] \/ pc'[q] = "refused"
    BY <2>1
  <2> QED
    BY <2>1, <2>2, <2>3
<1>11. ASSUME NEW r \in Requests, Answer(r) PROVE Goal
  <2>1. /\ pc[r] \in {"installed", "refused"} /\ pc' = [pc EXCEPT ![r] = "answered"]
        /\ UNCHANGED <<exec, old, temp, server, mishaps>>
    BY <1>11 DEF Answer
  <2> QED
    BY <2>1
<1>12. CASE Reexec \/ Crash
  <2>1. HandlersDie /\ UNCHANGED <<exec, old, temp>> /\ (mishaps' <= 1 => mishaps <= 1)
        /\ (server' = "down" \/ exec # Missing)
    BY <1>2, <1>12 DEF Reexec, Crash
  <2>2. \A r \in Requests : pc'[r] = IF Running(r) THEN "dead" ELSE pc[r]
    BY <2>1 DEF HandlersDie
  <2>3. \A r \in Requests : pc'[r] \in {"unsent", "answered", "dead"} /\ (Moving(r) => pc'[r] = "dead")
    BY <2>2
  <2>4. mishaps' <= 1 /\ exec' = Missing => Away'
    <3>1. SUFFICES ASSUME mishaps' <= 1, exec' = Missing PROVE Away'
      OBVIOUS
    <3>2. mishaps <= 1 /\ exec = Missing /\ server' = "down" /\ Away
      BY <2>1, <3>1
    <3>3. \A r \in Requests : pc[r] = "dead" => pc'[r] = "dead"
      BY <2>2
    <3> QED
      BY <2>1, <2>3, <3>2, <3>3
  <2> QED
    BY <2>3, <2>4
<1>13. CASE Listen \/ Relaunch
  BY <1>13 DEF Listen, Relaunch, Become
<1>14. ASSUME NEW t \in Tabs,
             \/ Connected(t) \/ Checked(t) \/ UpdateAbandoned(t) \/ RestartAfterUpdate(t)
             \/ PollFails(t) \/ PollAnswered(t) \/ Reload(t)
      PROVE Goal
  BY <1>14 DEF Connected, Checked, UpdateAbandoned, RestartAfterUpdate, PollFails, PollAnswered, Reload
<1>15. ASSUME NEW t \in Tabs, NEW r \in Requests, ApplyUpdate(t, r) PROVE Goal
  BY <1>15 DEF ApplyUpdate, Step
<1>16. CASE UNCHANGED vars
  BY <1>16 DEF vars
<1> QED
  BY <1>3, <1>4, <1>5, <1>6, <1>7, <1>8, <1>9, <1>10, <1>11, <1>12, <1>13, <1>14, <1>15, <1>16
  DEF Next, HandlerStep, TabStep, Poll

(* However many updates and restarts there are, one failure, interruption  *)
(* or overlap leaves a copy of the program (the two renames of             *)
(* HandleSelfUpdate).                                                      *)
THEOREM CopyIsKept == Spec => []CopyKept
<1>1. Init => CopyInv
  <2>1. Init => Requesting /\ AtMostOneMishap /\ NoMishap
    BY DEF Init, Requesting, AtMostOneMishap, NoMishap, Moving, Replacing, Running
  <2> QED
    BY <2>1, TypeInit DEF CopyInv
<1>2. CopyInv => CopyKept
  BY DEF CopyInv, AtMostOneMishap, Away, Moving, Requesting, CopyKept
<1> QED
  BY <1>1, <1>2, CopyStep, PTL DEF Spec

-----------------------------------------------------------------------------
(* Which process serves a request, or served it.                           *)
OwnerInv ==
  /\ TypeOK
  /\ server # "up" => \A r \in Requests : ~Running(r)
  /\ \A r \in Requests :
       /\ born[r] <= process
       /\ pc[r] \in {"unsent", "received", "checked", "installed", "refused", "answered"} => temp[r] = "none"
       /\ pc[r] = "dead" => born[r] < process \/ server = "down"

LEMMA OwnerStep == OwnerInv /\ [Next]_vars => OwnerInv'
<1> SUFFICES ASSUME OwnerInv, [Next]_vars PROVE OwnerInv'
  OBVIOUS
<1>0. TypeOK /\ TypeOK'
  BY TypeStep DEF OwnerInv
<1> USE <1>0 DEF OwnerInv, disk, host, Running
<1>1. /\ pc \in [Requests -> Locations] /\ temp \in [Requests -> {"none", "part", "whole"}]
      /\ process \in Nat /\ born \in [Requests -> Nat] /\ server \in {"up", "starting", "down"}
  BY DEF TypeOK
<1> USE <1>1
<1>2. ASSUME NEW r \in Requests,
             \/ RefuseUpdate(r) \/ CheckUpdate(r) \/ CreateTemp(r) \/ Download(r) \/ Discard(r)
      PROVE OwnerInv'
  BY <1>2 DEF RefuseUpdate, CheckUpdate, CreateTemp, Download, Discard, Step
<1>3. ASSUME NEW r \in Requests,
             RemoveOld(r) \/ BackupFails(r) \/ Backup(r) \/ Install(r) \/ InstallFails(r) \/ Restore(r)
      PROVE OwnerInv'
  BY <1>3 DEF RemoveOld, BackupFails, Backup, Install, InstallFails, Restore, Step
<1>4. ASSUME NEW r \in Requests, Answer(r) PROVE OwnerInv'
  BY <1>4 DEF Answer
<1>5. CASE Reexec \/ Crash
  <2>1. HandlersDie /\ temp' = temp /\ born' = born
        /\ ((server' = "down" /\ process' = process) \/ (server' = "starting" /\ process' = process + 1))
    BY <1>5 DEF Reexec, Crash, Become
  <2>2. \A r \in Requests : pc'[r] = IF Running(r) THEN "dead" ELSE pc[r]
    BY <2>1 DEF HandlersDie
  <2>3. \A r \in Requests : ~Running(r)'
    BY <2>2
  <2>4. \A r \in Requests : born[r] <= process' /\ (born[r] < process' \/ server' = "down")
    BY <2>1
  <2> QED
    BY <2>1, <2>2, <2>3, <2>4
<1>6. CASE Listen \/ Relaunch
  BY <1>6 DEF Listen, Relaunch, Become
<1>7. ASSUME NEW t \in Tabs,
             \/ Connected(t) \/ Checked(t) \/ UpdateAbandoned(t) \/ RestartAfterUpdate(t)
             \/ PollFails(t) \/ PollAnswered(t) \/ Reload(t)
      PROVE OwnerInv'
  BY <1>7 DEF Connected, Checked, UpdateAbandoned, RestartAfterUpdate, PollFails, PollAnswered, Reload
<1>8. ASSUME NEW t \in Tabs, NEW r \in Requests, ApplyUpdate(t, r) PROVE OwnerInv'
  BY <1>8 DEF ApplyUpdate, Step
<1>9. CASE UNCHANGED vars
  BY <1>9 DEF vars
<1> QED
  BY <1>2, <1>3, <1>4, <1>5, <1>6, <1>7, <1>8, <1>9 DEF Next, HandlerStep, TabStep, Poll

(* A handler that ends removes its temporary file (the error paths of      *)
(* HandleSelfUpdate): those without a request are of a process that ended. *)
THEOREM TempsAreOwned == Spec => []TempsOwned
<1>1. Init => OwnerInv
  BY TypeInit DEF Init, OwnerInv, Running
<1>2. OwnerInv => TempsOwned
  <2> SUFFICES ASSUME OwnerInv, NEW r \in Requests, temp[r] # "none", ~Running(r)
               PROVE pc[r] = "dead" /\ (born[r] < process \/ server = "down")
    BY DEF TempsOwned
  <2> QED
    BY DEF OwnerInv, Running
<1> QED
  BY <1>1, <1>2, OwnerStep, PTL DEF Spec

-----------------------------------------------------------------------------
(* The fan-out over units.                                                 *)

(* Between scans nothing volatile is left. *)
AtRest ==
  scan # "running" =>
    /\ cpUnits = {} /\ lock = NoUnit /\ sem = {}
    /\ \A u \in Unit : stage[u] \in {"idle", "done"}

(* Where a goroutine is tells whether it holds a slot and the mutex. *)
Place ==
  \A u \in Unit :
    /\ u \notin units <=> stage[u] = "idle"
    /\ u \in sem <=> stage[u] \in {"skipping", "scanning", "adding", "writing", "renaming"}
    /\ lock = u <=> stage[u] \in {"writing", "renaming"}

(* Rows are counted when the unit's scan ends, unless they were loaded. *)
Count ==
  \A u \in Unit :
    /\ counted[u] <= 1
    /\ u \in loaded \/ outcome[u] \in {"whole", "partial"} => counted[u] = 1
    /\ stage[u] = "waiting" /\ u \notin loaded => counted[u] = 0
    /\ stage[u] = "scanning" => counted[u] = 0 /\ u \notin loaded
    /\ stage[u] = "skipping" => u \in loaded
    /\ stage[u] \in {"adding", "writing", "renaming", "done"} =>
         u \in loaded \/ outcome[u] # "none"

(* What is kept, in memory or on disk, comes from scans that returned      *)
(* without an error since the file was last deleted.                       *)
Kept ==
  /\ cpUnits \cup fileUnits \subseteq returned
  /\ scan = "running" => loaded \subseteq returned
  /\ \A u \in Unit : stage[u] \in {"adding", "writing", "renaming"} => u \in returned

(* A unit is added once, and what is renamed is the whole Checkpoint. *)
Saving ==
  \A u \in Unit :
    /\ stage[u] \in {"waiting", "skipping", "scanning", "adding"} => u \notin cpUnits
    /\ stage[u] \in {"writing", "renaming"} => u \in cpUnits
    /\ stage[u] = "renaming" => tmp = "whole" /\ tmpUnits = cpUnits

FanOutInv == FanOutTypeOK /\ AtRest /\ Place /\ Count /\ Kept /\ Saving

LEMMA FanOutInvInit == FanOutInit => FanOutInv
  BY CheckpointAssumption
     DEF FanOutInit, FanOutInv, FanOutTypeOK, AtRest, Place, Count, Kept, Saving

(* No step of a goroutine happens while no scan is running. *)
LEMMA StepsWhileRunning ==
  ASSUME FanOutInv, NEW u \in Unit, UnitStep(u)
  PROVE  scan = "running" /\ u \in units
  BY DEF FanOutInv, AtRest, Place, UnitStep, Acquire, Skip, NoAccess, ScanFails, ScanReturns,
         Open, Write, SaveFails, Rename

LEMMA FanOutInvStep == FanOutInv /\ [FanOutNext]_fanOutVars => FanOutInv'
<1> SUFFICES ASSUME FanOutInv, [FanOutNext]_fanOutVars PROVE FanOutInv'
  OBVIOUS
<1> USE CheckpointAssumption DEF FanOutInv, scanVars, fileVars, tmpVars, addVars, histVars,
        Goto, Leave, Unlock
<1>1. ASSUME NEW selected \in SUBSET Unit, Start(selected) PROVE FanOutInv'
  <2>1. loaded' \subseteq fileUnits
    BY <1>1 DEF Start, Load
  <2>2. FanOutTypeOK'
    BY <1>1, <2>1 DEF Start, FanOutTypeOK
  <2>3. AtRest' /\ Place'
    BY <1>1 DEF Start, AtRest, Place, FanOutTypeOK
  <2>4. Count'
    BY <1>1 DEF Start, Count, FanOutTypeOK
  <2>5. Kept'
    BY <1>1, <2>1 DEF Start, Kept, FanOutTypeOK
  <2>6. Saving'
    BY <1>1 DEF Start, Saving, AtRest, FanOutTypeOK
  <2> QED
    BY <2>2, <2>3, <2>4, <2>5, <2>6
<1>2. ASSUME NEW u \in Unit, UnitStep(u) PROVE FanOutInv'
  <2> scan = "running" /\ u \in units
    BY <1>2, StepsWhileRunning
  <2>1. CASE Acquire(u)
    <3>1. FanOutTypeOK'
      BY <2>1 DEF Acquire, FanOutTypeOK
    <3>2. AtRest' /\ Place'
      BY <2>1 DEF Acquire, AtRest, Place, FanOutTypeOK
    <3>3. Count'
      BY <2>1 DEF Acquire, Count, FanOutTypeOK
    <3>4. Kept' /\ Saving'
      BY <2>1 DEF Acquire, Kept, Saving, FanOutTypeOK
    <3> QED
      BY <3>1, <3>2, <3>3, <3>4
  <2>2. CASE Skip(u)
    <3>1. FanOutTypeOK'
      BY <2>2 DEF Skip, FanOutTypeOK
    <3>2. AtRest' /\ Place'
      BY <2>2 DEF Skip, AtRest, Place, FanOutTypeOK
    <3>3. Count'
      BY <2>2 DEF Skip, Count, FanOutTypeOK
    <3>4. Kept' /\ Saving'
      BY <2>2 DEF Skip, Kept, Saving, FanOutTypeOK
    <3> QED
      BY <3>1, <3>2, <3>3, <3>4
  <2>3. CASE NoAccess(u)
    <3>1. FanOutTypeOK'
      BY <2>3 DEF NoAccess, FanOutTypeOK
    <3>2. AtRest' /\ Place'
      BY <2>3 DEF NoAccess, AtRest, Place, FanOutTypeOK
    <3>3. Count'
      BY <2>3 DEF NoAccess, Count, FanOutTypeOK
    <3>4. Kept' /\ Saving'
      BY <2>3 DEF NoAccess, Kept, Saving, FanOutTypeOK
    <3> QED
      BY <3>1, <3>2, <3>3, <3>4
  <2>4. CASE ScanFails(u)
    <3>1. FanOutTypeOK'
      BY <2>4 DEF ScanFails, FanOutTypeOK
    <3>2. AtRest' /\ Place'
      BY <2>4 DEF ScanFails, AtRest, Place, FanOutTypeOK
    <3>3. Count'
      BY <2>4 DEF ScanFails, Count, FanOutTypeOK
    <3>4. Kept' /\ Saving'
      BY <2>4 DEF ScanFails, Kept, Saving, FanOutTypeOK
    <3> QED
      BY <3>1, <3>2, <3>3, <3>4
  <2>5. CASE ScanReturns(u)
    <3>1. FanOutTypeOK'
      BY <2>5 DEF ScanReturns, FanOutTypeOK
    <3>2. AtRest' /\ Place'
      BY <2>5 DEF ScanReturns, AtRest, Place, FanOutTypeOK
    <3>3. Count'
      BY <2>5 DEF ScanReturns, Count, FanOutTypeOK
    <3>4. Kept' /\ Saving'
      BY <2>5 DEF ScanReturns, Kept, Saving, FanOutTypeOK
    <3> QED
      BY <3>1, <3>2, <3>3, <3>4
  <2>6. CASE Open(u)
    <3>1. FanOutTypeOK'
      BY <2>6 DEF Open, FanOutTypeOK
    <3>2. AtRest' /\ Place'
      BY <2>6 DEF Open, AtRest, Place, FanOutTypeOK
    <3>3. Count'
      BY <2>6 DEF Open, Count, FanOutTypeOK
    <3>4. Kept' /\ Saving'
      BY <2>6 DEF Open, Kept, Saving, Place, FanOutTypeOK
    <3> QED
      BY <3>1, <3>2, <3>3, <3>4
  <2>7. CASE Write(u)
    <3>1. FanOutTypeOK'
      BY <2>7 DEF Write, FanOutTypeOK
    <3>2. AtRest' /\ Place'
      BY <2>7 DEF Write, AtRest, Place, FanOutTypeOK
    <3>3. Count'
      BY <2>7 DEF Write, Count, FanOutTypeOK
    <3>4. Kept' /\ Saving'
      BY <2>7 DEF Write, Kept, Saving, FanOutTypeOK
    <3> QED
      BY <3>1, <3>2, <3>3, <3>4
  <2>8. CASE SaveFails(u)
    <3>1. FanOutTypeOK'
      BY <2>8 DEF SaveFails, FanOutTypeOK
    <3>2. AtRest' /\ Place'
      BY <2>8 DEF SaveFails, AtRest, Place, FanOutTypeOK
    <3>3. Count'
      BY <2>8 DEF SaveFails, Count, FanOutTypeOK
    <3>4. Kept' /\ Saving'
      BY <2>8 DEF SaveFails, Kept, Saving, FanOutTypeOK
    <3> QED
      BY <3>1, <3>2, <3>3, <3>4
  <2>9. CASE Rename(u)
    <3>1. tmp = "whole" /\ tmpUnits \subseteq returned
      BY <2>9 DEF Rename, Saving, Kept
    <3>2. FanOutTypeOK'
      BY <2>9, <3>1 DEF Rename, FanOutTypeOK
    <3>3. AtRest' /\ Place'
      BY <2>9 DEF Rename, AtRest, Place, FanOutTypeOK
    <3>4. Count'
      BY <2>9 DEF Rename, Count, FanOutTypeOK
    <3>5. Kept' /\ Saving'
      BY <2>9, <3>1 DEF Rename, Kept, Saving, Place, FanOutTypeOK
    <3> QED
      BY <3>2, <3>3, <3>4, <3>5
  <2> QED
    BY <1>2, <2>1, <2>2, <2>3, <2>4, <2>5, <2>6, <2>7, <2>8, <2>9 DEF UnitStep
<1>3. CASE Finish
  <2>1. \A u \in Unit : stage[u] \in {"idle", "done"}
    BY <1>3 DEF Finish, Place, FanOutTypeOK
  <2>2. sem = {} /\ lock = NoUnit
    BY <2>1 DEF Place, FanOutTypeOK
  <2>3. FanOutTypeOK'
    BY <1>3 DEF Finish, FanOutTypeOK
  <2>4. AtRest' /\ Place'
    BY <1>3, <2>1, <2>2 DEF Finish, AtRest, Place
  <2>5. Count' /\ Kept' /\ Saving'
    BY <1>3, <2>1 DEF Finish, Count, Kept, Saving
  <2> QED
    BY <2>3, <2>4, <2>5
<1>4. CASE Interrupt
  <2>1. FanOutTypeOK'
    BY <1>4 DEF Interrupt, FanOutTypeOK
  <2>2. AtRest' /\ Place'
    BY <1>4 DEF Interrupt, AtRest, Place
  <2>3. Count' /\ Kept' /\ Saving'
    BY <1>4 DEF Interrupt, Count, Kept, Saving
  <2> QED
    BY <2>1, <2>2, <2>3
<1>5. CASE UNCHANGED fanOutVars
  BY <1>5 DEF fanOutVars, FanOutTypeOK, AtRest, Place, Count, Kept, Saving
<1> HIDE DEF FanOutInv
<1> QED
  BY <1>1, <1>2, <1>3, <1>4, <1>5 DEF FanOutNext

THEOREM FanOutInductive == FanOutSpec => []FanOutInv
  BY FanOutInvInit, FanOutInvStep, PTL DEF FanOutSpec

(* Every variable of a scan, its checkpoint and its files keeps its type.  *)
THEOREM FanOutTypeCorrect == FanOutSpec => []FanOutTypeOK
<1>1. FanOutInv => FanOutTypeOK
  BY DEF FanOutInv
<1> QED
  BY FanOutInductive, <1>1, PTL

(* However scans are interrupted and resumed, the rows of a unit are       *)
(* counted once and those of a completed unit are counted.                 *)
THEOREM RowsOnce == FanOutSpec => []CountedOnce
<1>1. FanOutInv => CountedOnce
  BY DEF FanOutInv, FanOutTypeOK, Count, CountedOnce
<1> QED
  BY FanOutInductive, <1>1, PTL

(* No unit is skipped on resume unless its scan returned without an error  *)
(* since the checkpoint file was last deleted.                             *)
THEOREM NothingSkipped == FanOutSpec => []SkipsOnlyCompleted
<1>1. FanOutInv => SkipsOnlyCompleted
  BY DEF FanOutInv, Kept, SkipsOnlyCompleted
<1> QED
  BY FanOutInductive, <1>1, PTL

(* A scan that ends by itself has dealt with every unit and given every    *)
(* slot of the semaphore back.                                             *)
THEOREM NoneForgotten == FanOutSpec => []AllAccounted
<1>1. FanOutInv => AllAccounted
  BY DEF FanOutInv, FanOutTypeOK, AtRest, Place, Count, AllAccounted
<1> QED
  BY FanOutInductive, <1>1, PTL

-----------------------------------------------------------------------------
(* The implementation of CheckpointFile.                                   *)

LEMMA PromiseInit == FanOutInit => Promise!Init
  BY DEF FanOutInit, Load, Promise!Init

LEMMA PromiseStep == FanOutInv /\ [FanOutNext]_fanOutVars => [Promise!Next]_(Promise!vars)
<1> SUFFICES ASSUME FanOutInv, [FanOutNext]_fanOutVars PROVE [Promise!Next]_(Promise!vars)
  OBVIOUS
<1> USE CheckpointAssumption DEF scanVars, fileVars, tmpVars, addVars, histVars
<1>1. ASSUME NEW selected \in SUBSET Unit, Start(selected) PROVE Promise!Begin
  <2>1. cpUnits = {} /\ UNCHANGED <<cpUnits, lock, file, fileUnits>>
    BY <1>1 DEF Start, FanOutInv, AtRest
  <2>2. (cpUnits \ {lock})' = cpUnits \ {lock} /\ Load' = Load
    BY <2>1 DEF Load
  <2>3. (scan = "running") = FALSE /\ (scan' = "running") = TRUE
    BY <1>1 DEF Start
  <2> QED
    BY <2>2, <2>3 DEF Promise!Begin
<1>2. ASSUME NEW u \in Unit, UnitStep(u) PROVE [Promise!Next]_(Promise!vars)
  <2>1. scan = "running"
    BY <1>2, StepsWhileRunning
  <2>2. CASE Acquire(u) \/ Skip(u) \/ NoAccess(u) \/ ScanFails(u) \/ ScanReturns(u)
             \/ Write(u)
    BY <2>2 DEF Acquire, Skip, NoAccess, ScanFails, ScanReturns, Write, Load, Promise!vars
  <2>3. CASE Open(u)
    <3>1. u \notin cpUnits /\ NoUnit \notin cpUnits
      BY <2>3 DEF Open, FanOutInv, Saving, FanOutTypeOK
    <3>2. (cpUnits \ {lock})' = cpUnits \ {lock}
      BY <2>3, <3>1 DEF Open
    <3> QED
      BY <2>3, <3>2 DEF Open, Load, Promise!vars
  <2>4. CASE SaveFails(u)
    <3>1. lock = u /\ u \in cpUnits /\ NoUnit \notin cpUnits
      BY <2>4 DEF SaveFails, FanOutInv, Saving, Place, FanOutTypeOK
    <3>2. (cpUnits \ {lock})' = (cpUnits \ {lock}) \cup {u} /\ u \notin cpUnits \ {lock}
      BY <2>4, <3>1 DEF SaveFails, Unlock
    <3>3. Promise!Add(u)
      BY <2>1, <2>4, <3>2 DEF SaveFails, Load, Promise!Add
    <3> QED
      BY <3>3 DEF Promise!Next
  <2>5. CASE Rename(u)
    <3>1. /\ lock = u /\ u \in cpUnits /\ NoUnit \notin cpUnits
          /\ tmp = "whole" /\ tmpUnits = cpUnits
      BY <2>5 DEF Rename, FanOutInv, Saving, Place, FanOutTypeOK
    <3>2. (cpUnits \ {lock})' = (cpUnits \ {lock}) \cup {u} /\ u \notin cpUnits \ {lock}
      BY <2>5, <3>1 DEF Rename, Unlock
    <3>3. (cpUnits \ {lock})' = cpUnits /\ Load' = cpUnits
      BY <2>5, <3>1 DEF Rename, Unlock, Load
    <3>4. Promise!Add(u)
      BY <2>1, <2>5, <3>2, <3>3 DEF Rename, Promise!Add
    <3> QED
      BY <3>4 DEF Promise!Next
  <2> QED
    BY <1>2, <2>2, <2>3, <2>4, <2>5 DEF UnitStep
<1>3. CASE Finish
  BY <1>3 DEF Finish, Load, Promise!Next, Promise!End
<1>4. CASE Interrupt
  BY <1>4 DEF Interrupt, Load, Promise!Next, Promise!Interrupted
<1>5. CASE UNCHANGED fanOutVars
  BY <1>5 DEF fanOutVars, Load, Promise!vars
<1> QED
  BY <1>1, <1>2, <1>3, <1>4, <1>5 DEF FanOutNext, Promise!Next

(* Concurrent saves, failing ones and interruptions at any point leave the *)
(* checkpoint file as one complete save wrote it: the scan implements      *)
(* CheckpointFile.                                                         *)
THEOREM ImplementsPromise == FanOutSpec => FileSpec
  BY FanOutInductive, PromiseInit, PromiseStep, PTL DEF FanOutSpec, FileSpec, Promise!Spec
==============================================================================
