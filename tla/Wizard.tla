------------------------------- MODULE Wizard -------------------------------
(***************************************************************************)
(* How the wizard (wizard.tsx) starts scans, polls them and shows results. *)
(* Event handlers and the pieces of an async function between two awaits   *)
(* are atomic; requests are under way in between, and the user may go      *)
(* back, retry, restart or load a session meanwhile.                       *)
(*                                                                         *)
(* startScan is a closure: what it merges the results with is what it saw  *)
(* when the user clicked.  A finding is a pair of its provider and the     *)
(* attempt that found it, 0 for a session that was loaded.  Choosing and   *)
(* validating providers is one step here, demo mode and the estimator,     *)
(* which never reach the server, are left out.                             *)
(***************************************************************************)
EXTENDS Naturals

CONSTANTS Provider,    \* providers the user may select
          Snapshots,   \* session files the user may load: sets of providers
          MaxAttempts  \* bound on calls of startScan

ASSUME WizardAssumption == Snapshots \subseteq SUBSET Provider /\ MaxAttempts \in Nat

Attempt == 1 .. MaxAttempts
Finding == Provider \X (0 .. MaxAttempts)

Some == 0    \* any progress below 100
Full == 1    \* 100 percent

VARIABLES
  step,        \* currentStep: "choosing" for its first three values
  selected,    \* selectedProviders
  imported,    \* importedProviders
  findings,
  live,        \* liveScannedProviders
  aggregates,  \* the attempt backendTokenAggregates is from, 0 for null
  progress,    \* scanProgress
  error,       \* the attempt scanError is about, 0 when it is empty
  polling,     \* attempts whose poll interval runs: scanIntervalsRef
  attempt,     \* number of calls of startScan so far
  captured,    \* what the closure of each attempt saw
  request,     \* the start request of each attempt
  server,      \* the scan of each attempt on the server
  underWay,    \* answers to polls that are under way
  current,     \* history: the attempt the user waits for, 0 after a restart
  abandoned    \* history: attempts with requests under way when the user left

shown       == <<findings, live, aggregates>>
serverVars  == <<server>>
historyVars == <<current, abandoned>>
vars == <<step, selected, imported, shown, progress, error, polling, attempt,
          captured, request, serverVars, underWay, historyVars>>

Answer == {"partial", "complete", "results"}

Nothing == [findings |-> {}, imported |-> {}, selected |-> {}]

Init ==
  /\ step = "choosing"
  /\ selected = {} /\ imported = {}
  /\ findings = {} /\ live = {} /\ aggregates = 0
  /\ progress = Some /\ error = 0
  /\ polling = {}
  /\ attempt = 0
  /\ captured = [n \in Attempt |-> Nothing]
  /\ request = [n \in Attempt |-> "none"]
  /\ server = [n \in Attempt |-> "none"]
  /\ underWay = {}
  /\ current = 0 /\ abandoned = {}

(* Attempts an answer may still come for.                                  *)
Awaited == {n \in Attempt : request[n] = "sent" \/ \E s \in Answer : <<n, s>> \in underWay}

(* mergeFindings: rows of imported providers that were not scanned, then   *)
(* those of the scan.                                                      *)
MergeFindings(old, importedProviders, n, liveProviders) ==
  {f \in old : f[1] \in importedProviders \ liveProviders} \cup (liveProviders \X {n})

ClearScanIntervals == polling' = {}

-----------------------------------------------------------------------------
(* What the user does.                                                     *)

(* Only startScan reads the selection: after the last attempt it may rest. *)
ToggleProvider(p) ==
  /\ step = "choosing" /\ attempt < MaxAttempts
  /\ selected' = IF p \in selected THEN selected \ {p} ELSE selected \cup {p}
  /\ UNCHANGED <<step, imported, shown, progress, error, polling, attempt, captured,
                 request, serverVars, underWay, historyVars>>

(* Slip: the aggregates of the scan before stay. *)
StartScanKeeping ==
  /\ attempt < MaxAttempts
  /\ attempt' = attempt + 1
  /\ ClearScanIntervals
  /\ progress' = Some /\ error' = 0
  /\ findings' = {}
  /\ captured' = [captured EXCEPT ![attempt + 1] =
       [findings |-> findings, imported |-> imported, selected |-> selected]]
  /\ request' = [request EXCEPT ![attempt + 1] = "sent"]
  /\ current' = attempt + 1
  /\ abandoned' = abandoned \cup Awaited
  /\ UNCHANGED <<selected, imported, live, aggregates, serverVars, underWay>>

StartScan ==
  /\ attempt < MaxAttempts
  /\ attempt' = attempt + 1
  /\ ClearScanIntervals
  /\ progress' = Some /\ error' = 0
  /\ findings' = {} /\ aggregates' = 0
  /\ captured' = [captured EXCEPT ![attempt + 1] =
       [findings |-> findings, imported |-> imported, selected |-> selected]]
  /\ request' = [request EXCEPT ![attempt + 1] = "sent"]
  /\ current' = attempt + 1
  /\ abandoned' = abandoned \cup Awaited
  /\ UNCHANGED <<selected, imported, live, serverVars, underWay>>

StartFromSources ==
  /\ step = "choosing" /\ selected # {}
  /\ step' = "scanning"
  /\ StartScan

(* The page renders the error, and Retry with it, while the progress is    *)
(* below 100; at 100 it says "Scan Complete" whatever happened.            *)
ErrorShown == step = "scanning" /\ error # 0 /\ progress # Full

RetryScan ==
  /\ ErrorShown
  /\ step' = step
  /\ StartScan

(* View Results: only the progress is looked at.                           *)
ViewResults ==
  /\ step = "scanning" /\ progress = Full
  /\ step' = "results"
  /\ UNCHANGED <<selected, imported, shown, progress, error, polling, attempt, captured,
                 request, serverVars, underWay, historyVars>>

GoBack ==
  /\ step = "scanning"
  /\ step' = "choosing"
  /\ ClearScanIntervals
  /\ UNCHANGED <<selected, imported, shown, progress, error, attempt, captured,
                 request, serverVars, underWay, historyVars>>

(* The import into the sizer selects the estimator, which is no Provider   *)
(* here; going back from there leads to the choice of providers.           *)
ImportIntoSizer ==
  /\ step = "results" /\ findings # {}
  /\ step' = "choosing"
  /\ selected' = {}
  /\ UNCHANGED <<imported, shown, progress, error, polling, attempt, captured,
                 request, serverVars, underWay, historyVars>>

Restart ==
  /\ ClearScanIntervals
  /\ progress' = Some /\ error' = 0
  /\ aggregates' = 0 /\ live' = {}
  /\ current' = 0
  /\ abandoned' = abandoned \cup Awaited
  /\ UNCHANGED <<attempt, captured, request, serverVars, underWay>>

StartOver ==
  /\ step = "results"
  /\ step' = "choosing"
  /\ selected' = {} /\ imported' = {} /\ findings' = {}
  /\ Restart

(* A session file: the providers it selected, with a finding of each.      *)
RestoreSession(snapshot) ==
  /\ step = "choosing"
  /\ step' = "results"
  /\ selected' = snapshot /\ imported' = snapshot
  /\ findings' = snapshot \X {0}
  /\ Restart

-----------------------------------------------------------------------------
(* Answers to the start request.  The interval is made when the answer     *)
(* arrives, whatever the user has done meanwhile.                          *)

StartAccepted(n) ==
  /\ request[n] = "sent"
  /\ request' = [request EXCEPT ![n] = "accepted"]
  /\ server' = [server EXCEPT ![n] = "scanning"]
  /\ polling' = polling \cup {n}
  /\ UNCHANGED <<step, selected, imported, shown, progress, error, attempt, captured,
                 underWay, historyVars>>

(* Slip: the error is not shown. *)
StartFailsSilently(n) ==
  /\ request[n] = "sent"
  /\ request' = [request EXCEPT ![n] = "failed"]
  /\ UNCHANGED <<step, selected, imported, shown, progress, error, polling, attempt, captured,
                 serverVars, underWay, historyVars>>

StartFails(n) ==
  /\ request[n] = "sent"
  /\ request' = [request EXCEPT ![n] = "failed"]
  /\ error' = n
  /\ UNCHANGED <<step, selected, imported, shown, progress, polling, attempt, captured,
                 serverVars, underWay, historyVars>>

-----------------------------------------------------------------------------
(* The server, and the polls.  A poll is served when it is made: the       *)
(* server only reads.  Its answer may take longer than the interval, so    *)
(* that answers are delivered in any order.                                *)

ServerCompletes(n) ==
  /\ server[n] = "scanning"
  /\ server' = [server EXCEPT ![n] = "complete"]
  /\ UNCHANGED <<step, selected, imported, shown, progress, error, polling, attempt, captured,
                 request, underWay, historyVars>>

Tick(n) ==
  LET answer == <<n, IF server[n] = "complete" THEN "complete" ELSE "partial">> IN
  /\ n \in polling /\ answer \notin underWay
  /\ underWay' = underWay \cup {answer}
  /\ UNCHANGED <<step, selected, imported, shown, progress, error, polling, attempt, captured,
                 request, serverVars, historyVars>>

(* Every provider may be at 100 before the scan is complete.               *)
DeliverPartial(n) ==
  /\ <<n, "partial">> \in underWay
  /\ underWay' = underWay \ {<<n, "partial">>}
  /\ progress' \in {Some, Full}
  /\ UNCHANGED <<step, selected, imported, shown, error, polling, attempt, captured,
                 request, serverVars, historyVars>>

(* Slip: the interval goes on after the scan is complete. *)
DeliverAndPollOn(n) ==
  /\ <<n, "complete">> \in underWay
  /\ underWay' = (underWay \ {<<n, "complete">>}) \cup {<<n, "results">>}
  /\ progress' = Full
  /\ UNCHANGED <<step, selected, imported, shown, error, polling, attempt, captured,
                 request, serverVars, historyVars>>

DeliverComplete(n) ==
  /\ <<n, "complete">> \in underWay
  /\ underWay' = (underWay \ {<<n, "complete">>}) \cup {<<n, "results">>}
  /\ progress' = Full
  /\ polling' = polling \ {n}
  /\ UNCHANGED <<step, selected, imported, shown, error, attempt, captured,
                 request, serverVars, historyVars>>

DeliverResults(n) ==
  LET seen == captured[n] IN
  /\ <<n, "results">> \in underWay
  /\ underWay' = underWay \ {<<n, "results">>}
  /\ findings' = MergeFindings(seen.findings, seen.imported, n, seen.selected)
  /\ live' = seen.selected
  /\ aggregates' = n
  /\ progress' = Full
  /\ UNCHANGED <<step, selected, imported, error, polling, attempt, captured,
                 request, serverVars, historyVars>>

(* The connection is lost: this poll ends its interval, others that are    *)
(* under way go on.                                                        *)
PollFails(n, s) ==
  /\ <<n, s>> \in underWay
  /\ underWay' = underWay \ {<<n, s>>}
  /\ polling' = polling \ {n}
  /\ error' = n
  /\ UNCHANGED <<step, selected, imported, shown, progress, attempt, captured,
                 request, serverVars, historyVars>>

-----------------------------------------------------------------------------
User ==
  \/ \E p \in Provider : ToggleProvider(p)
  \/ StartFromSources \/ RetryScan \/ ViewResults \/ GoBack \/ ImportIntoSizer \/ StartOver
  \/ \E snapshot \in Snapshots : RestoreSession(snapshot)

StartAnswered(n) == StartAccepted(n) \/ StartFails(n)

Next ==
  \/ User
  \/ \E n \in Attempt :
       \/ StartAnswered(n) \/ ServerCompletes(n)
       \/ Tick(n)
       \/ DeliverPartial(n) \/ DeliverComplete(n) \/ DeliverResults(n)
       \/ \E s \in Answer : PollFails(n, s)

(* Requests to the local server are answered or fail, and intervals fire.  *)
(* A scan need not end: some calls to providers have no timeout.  The user *)
(* has to do nothing.                                                      *)
Fairness == \A n \in Attempt :
  /\ WF_vars(StartAnswered(n)) /\ WF_vars(Tick(n))
  /\ WF_vars(DeliverComplete(n)) /\ WF_vars(DeliverResults(n))

Spec     == Init /\ [][Next]_vars
FairSpec == Spec /\ Fairness

-----------------------------------------------------------------------------
(* Properties.                                                             *)

TypeOK ==
  /\ step \in {"choosing", "scanning", "results"}
  /\ selected \subseteq Provider /\ imported \subseteq Provider /\ live \subseteq Provider
  /\ findings \subseteq Finding
  /\ aggregates \in 0 .. MaxAttempts
  /\ progress \in {Some, Full}
  /\ error \in 0 .. MaxAttempts
  /\ polling \subseteq Attempt
  /\ attempt \in 0 .. MaxAttempts
  /\ captured \in [Attempt -> [findings : SUBSET Finding, imported : SUBSET Provider,
                               selected : SUBSET Provider]]
  /\ request \in [Attempt -> {"none", "sent", "accepted", "failed"}]
  /\ server \in [Attempt -> {"none", "scanning", "complete"}]
  /\ underWay \subseteq Attempt \X Answer
  /\ current \in 0 .. MaxAttempts
  /\ abandoned \subseteq Attempt

(* The results page never mixes scans: while it shows the totals of one    *)
(* scan, the providers it marks as live are those of that scan, their rows *)
(* come from it, and all other rows are of imported providers.  Rows of an *)
(* earlier scan do not come back, unless an answer to it was under way     *)
(* when the user started another one, restarted or loaded a session.       *)
OneScanShown ==
  /\ aggregates # 0 =>
       /\ live = captured[aggregates].selected
       /\ {f \in findings : f[1] \in live} = live \X {aggregates}
       /\ \A f \in findings : f[1] \in live \cup captured[aggregates].imported
  /\ \A f \in findings : f[1] \in live => f[2] = current \/ f[2] \in abandoned

(* The server does not scan for ever on behalf of an attempt. *)
ScanComesToAnEnd(n) == []<>(server[n] # "scanning")

(* The poll interval of a scan that comes to an end is cleared, whatever   *)
(* the user and the connection do.  That of one that hangs polls on: the   *)
(* page has no limit of its own.                                           *)
PollingStops ==
  \A n \in Attempt :
    ScanComesToAnEnd(n) => (n \in polling ~> n \notin polling)

(* The error of an attempt that nobody sees: the page says that the scan   *)
(* is complete, or shows results that have not come.                       *)
ErrorUnseen(n) == error = n /\ (progress = Full \/ step = "results")

(* Whoever waits at the scanning step for a scan that comes to an end gets *)
(* its results, or its error with the offer to retry, unless the request   *)
(* that failed found the progress at 100.  An error of an earlier attempt  *)
(* does not count.                                                         *)
ServedOrError ==
  \A n \in Attempt :
    ScanComesToAnEnd(n) =>
      (request[n] = "sent" /\ current = n
         ~> \/ aggregates = n
            \/ ErrorShown /\ error = n
            \/ ErrorUnseen(n)
            \/ current # n \/ step = "choosing")
=============================================================================
