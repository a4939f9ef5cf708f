------------------------------- MODULE ScanRun -------------------------------
(***************************************************************************)
(* The scan of one session: HandleStartScan (server/scan.go) accepts a     *)
(* request, Orchestrator.Run (internal/orchestrator) fans it out into one  *)
(* goroutine per provider request, merges what they return and closes the  *)
(* session's event broker, and the goroutine of HandleStartScan then       *)
(* stores the outcome in the session, where a polling client reads it.     *)
(*                                                                         *)
(* Each handler of a start request tests the state of the session and sets *)
(* it later, so that more than one of them may get to call Run.            *)
(*                                                                         *)
(* A job is one provider request of a run, <<handler, provider, forest>>:  *)
(* forest 0 is the request itself, 1.. are the copies expandADForests adds *)
(* for the session's additional Active Directory forests.                  *)
(*                                                                         *)
(* The rows a scanner returns are represented by the job they came from,   *)
(* so findings and errors are bags of jobs.                                *)
(***************************************************************************)
EXTENDS Naturals, FiniteSets

CONSTANTS Starter,      \* handlers of start requests for this session
          Provider,     \* names a scan request may carry
          AD,           \* the provider whose requests fan out over forests
          Registered,   \* names with an entry in the orchestrator's scanners map
          Reporting,    \* those whose scanner has side results: NIOS and AD
          MaxForests,   \* bound on the session's additional forests
          MaxRacing,    \* bound on the jobs of each run that shares the session
          NoJob         \* side results nobody has stored

ASSUME ScanRunAssumption ==
  /\ AD \in Provider
  /\ Registered \subseteq Provider
  /\ Reporting \subseteq Provider
  /\ MaxForests \in Nat

Job == (Starter \X Provider \X {0}) \cup (Starter \X {AD} \X (1 .. MaxForests))

ASSUME NoJobAssumption == NoJob \notin Job

(* expandADForests: each AD entry is followed by one per additional forest. *)
Expand(h, providers, n) ==
  ({h} \X providers \X {0})
    \cup (IF AD \in providers THEN {h} \X {AD} \X (1 .. n) ELSE {})

(* What is published: <<job, event type>>, or an event of a run itself. *)
Itself(h) == <<h, "run", 0>>
Event == (Job \cup {Itself(h) : h \in Starter}) \X
           {"provider_start", "error", "provider_complete", "scan_complete"}

VARIABLES
  state,        \* Session.State
  tokenResult,  \* Session.TokenResult, as the bag of jobs whose rows it counts
  errors,       \* Session.Errors, as the bag of jobs it lists
  completedAt,  \* whether Session.CompletedAt is set
  metrics,      \* the session's *MetricsJSON fields by provider, as the job
                \* whose Scan produced what they hold
  progress,     \* Session.ProviderProgress: its status, by provider name
  request,      \* the jobs of each run
  runner,       \* where each handler, then the goroutine it starts, is
  pc,           \* where each job is
  outcome,      \* what Scan returned to each job: "rows" or "err"
  held,         \* the fields of the scanners, shared by the jobs of a
                \* provider, as the job that stored them last
  reported,     \* jobs whose Scan stored side results
  findings,     \* Run's local accumulators of rows, a bag of jobs
  errs,         \* Run's local accumulators of provider errors, a bag of jobs
  unstored,     \* fields of the session each run has not made visible yet
  raced,        \* two handlers have found the session created
  early,        \* the complete state of a run alone was visible before
                \* another field
  published,    \* events the broker accepted
  closed,       \* Broker.closed
  lost,         \* events published after the broker was closed
  client,       \* the polling client: "idle", "polling", "fetching" or "done"
  seen          \* the results the client was given

sessionVars == <<state, tokenResult, errors, completedAt>>
jobVars     == <<metrics, progress, pc, outcome, held, reported, findings, errs>>
brokerVars  == <<published, closed, lost>>
clientVars  == <<client, seen>>
runVars     == <<request, runner, unstored, raced, early>>
vars == <<sessionVars, jobVars, brokerVars, clientVars, runVars>>

(* What a run stores for the client: the side results, which the goroutines *)
(* of its jobs stored, the result (CompletedAt, TokenResult and Errors), and *)
(* the state.                                                              *)
Fields    == {"metrics", "result", "state"}
EmptyBag  == [j \in Job |-> 0]
NoMetrics == [p \in Provider |-> NoJob]

NotSeen == [tokenResult |-> EmptyBag, errors |-> EmptyBag,
            completedAt |-> FALSE, metrics |-> NoMetrics]

-----------------------------------------------------------------------------
(* Store.New and Store.CloneSession: a session no scan has been asked of.  *)

Init ==
  /\ state = "created"
  /\ tokenResult = EmptyBag
  /\ errors = EmptyBag
  /\ completedAt = FALSE
  /\ metrics = NoMetrics
  /\ progress = [p \in Provider |-> "absent"]
  /\ request = [h \in Starter |-> {}]
  /\ runner = [h \in Starter |-> "idle"]
  /\ pc = [j \in Job |-> "absent"]
  /\ outcome = [j \in Job |-> "none"]
  /\ held = NoMetrics
  /\ reported = {}
  /\ findings = EmptyBag
  /\ errs = EmptyBag
  /\ unstored = [h \in Starter |-> {}]
  /\ raced = FALSE
  /\ early = FALSE
  /\ published = {}
  /\ closed = FALSE
  /\ lost = {}
  /\ client = "idle"
  /\ seen = NotSeen

-----------------------------------------------------------------------------
(* HandleStartScan.                                                        *)

(* A handler has found a session in its created state. *)
Tested(h) == runner[h] = "tested"

Goes(h, from, to) == runner[h] = from /\ runner' = [runner EXCEPT ![h] = to]

(* Slip: the state is not looked at. *)
TestNothing(h) ==
  /\ Goes(h, "idle", "tested")
  /\ raced' = (raced \/ \E g \in Starter : Tested(g))
  /\ UNCHANGED <<sessionVars, jobVars, brokerVars, clientVars, request, unstored, early>>

(* The session must be in its created state, or the answer is a 409. *)
TestState(h) ==
  /\ Goes(h, "idle", IF state = "created" THEN "tested" ELSE "refused")
  /\ raced' = (raced \/ (state = "created" /\ \E g \in Starter : Tested(g)))
  /\ UNCHANGED <<sessionVars, jobVars, brokerVars, clientVars, request, unstored, early>>

(* The state is set, the goroutine started and the answer lets the client  *)
(* poll.  An empty list of providers is accepted.                          *)
Start(h, jobs) ==
  /\ raced => Cardinality(jobs) <= MaxRacing
  /\ Goes(h, "tested", "launching")
  /\ state' = "scanning"
  /\ request' = [request EXCEPT ![h] = jobs]
  /\ pc' = [j \in Job |-> IF j \in jobs THEN "queued" ELSE pc[j]]
  /\ client' = IF client = "idle" THEN "polling" ELSE client
  /\ UNCHANGED <<tokenResult, errors, completedAt, metrics, progress, outcome, held,
                 reported, findings, errs, brokerVars, seen, unstored, raced, early>>

-----------------------------------------------------------------------------
(* Orchestrator.Run: the loop.                                             *)

(* One iteration: a provider without a scanner is skipped. *)
Launch(j) ==
  /\ runner[j[1]] = "launching"
  /\ pc[j] = "queued"
  /\ pc' = [pc EXCEPT ![j] = IF j[2] \in Registered THEN "launched" ELSE "skipped"]
  /\ UNCHANGED <<sessionVars, metrics, progress, outcome, held, reported, findings,
                 errs, brokerVars, clientVars, runVars>>

JobsOf(h) == {j \in Job : j[1] = h}

(* The loop is over, Run waits for the wait group. *)
AwaitJobs(h) ==
  /\ Goes(h, "launching", "waiting")
  /\ \A j \in JobsOf(h) : pc[j] # "queued"
  /\ UNCHANGED <<sessionVars, jobVars, brokerVars, clientVars, request, unstored,
                 raced, early>>

-----------------------------------------------------------------------------
(* runProvider and the goroutine around it.                                *)

(* Broker.Publish: once the broker is closed the event goes nowhere. *)
Publish(events) ==
  IF closed THEN /\ lost' = lost \cup events
                 /\ UNCHANGED published
            ELSE /\ published' = published \cup events
                 /\ UNCHANGED lost

SetProgress(j, status) == progress' = [progress EXCEPT ![j[2]] = status]

Goto(j, from, to) == pc[j] = from /\ pc' = [pc EXCEPT ![j] = to]

Begin(j) ==
  /\ Goto(j, "launched", "scanning")
  /\ SetProgress(j, "running")
  /\ Publish({<<j, "provider_start">>})
  /\ UNCHANGED <<sessionVars, metrics, outcome, held, reported, findings, errs, closed,
                 clientVars, runVars>>

(* s.Scan returns, with rows or with an error.  It may have stored side    *)
(* results in the fields of the scanner, also before an error; a forest    *)
(* without domain controllers that answer stores none.                     *)
ScanReturns(j, res, reports) ==
  /\ Goto(j, "scanning", "returned")
  /\ outcome' = [outcome EXCEPT ![j] = res]
  /\ reports => j[2] \in Reporting
  /\ held' = IF reports THEN [held EXCEPT ![j[2]] = j] ELSE held
  /\ reported' = IF reports THEN reported \cup {j} ELSE reported
  /\ UNCHANGED <<sessionVars, metrics, progress, findings, errs, brokerVars,
                 clientVars, runVars>>

(* UpdateProviderProgress(name, "complete" or "error", 100, items). *)
ReportOutcome(j) ==
  /\ Goto(j, "returned", "reported")
  /\ SetProgress(j, IF outcome[j] = "rows" THEN "complete" ELSE "error")
  /\ UNCHANGED <<sessionVars, metrics, outcome, held, reported, findings, errs,
                 brokerVars, clientVars, runVars>>

(* What the scanner holds takes the place of what the session has. *)
Attach(p) ==
  metrics' = IF held[p] = NoJob THEN metrics ELSE [metrics EXCEPT ![p] = held[p]]

(* Slip: side results are attached before the error is looked at. *)
AttachAlways(j) ==
  /\ Goto(j, "reported", "attached")
  /\ Attach(j[2])
  /\ IF outcome[j] = "rows" THEN UNCHANGED <<published, lost>>
                            ELSE Publish({<<j, "error">>})
  /\ UNCHANGED <<sessionVars, progress, outcome, held, reported, findings, errs, closed,
                 clientVars, runVars>>

(* On success what the scanner holds goes into the session, be it of this  *)
(* job or of another forest; on failure an error event is published.       *)
AttachResults(j) ==
  /\ Goto(j, "reported", "attached")
  /\ IF outcome[j] = "rows" THEN Attach(j[2]) /\ UNCHANGED <<published, lost>>
                            ELSE Publish({<<j, "error">>}) /\ UNCHANGED metrics
  /\ UNCHANGED <<sessionVars, progress, outcome, held, reported, findings, errs, closed,
                 clientVars, runVars>>

(* The deferred provider_complete event. *)
Leave(j) ==
  /\ Goto(j, "attached", "leaving")
  /\ Publish({<<j, "provider_complete">>})
  /\ UNCHANGED <<sessionVars, metrics, progress, outcome, held, reported, findings,
                 errs, closed, clientVars, runVars>>

(* Slip: an early return on error, without wg.Done. *)
MergeRowsOnly(j) ==
  /\ outcome[j] = "rows"
  /\ Goto(j, "leaving", "merged")
  /\ findings' = [findings EXCEPT ![j] = @ + 1]
  /\ UNCHANGED <<errs, sessionVars, metrics, progress, outcome, held, reported,
                 brokerVars, clientVars, runVars>>

(* Under Run's mutex the job's rows or its error are appended, then wg.Done. *)
Merge(j) ==
  /\ Goto(j, "leaving", "merged")
  /\ IF outcome[j] = "rows"
     THEN /\ findings' = [findings EXCEPT ![j] = @ + 1]
          /\ UNCHANGED errs
     ELSE /\ errs' = [errs EXCEPT ![j] = @ + 1]
          /\ UNCHANGED findings
  /\ UNCHANGED <<sessionVars, metrics, progress, outcome, held, reported, brokerVars,
                 clientVars, runVars>>

-----------------------------------------------------------------------------
(* The end of Run and of the goroutine in HandleStartScan.                 *)

(* Slips: wg.Add inside the goroutine, wg.Done ahead of the deferred event. *)
SettledUntilRunning(j) == pc[j] \in {"absent", "skipped", "launched", "merged"}
SettledBeforeEvents(j) == pc[j] \in {"absent", "skipped", "attached", "leaving", "merged"}

Settled(j) == pc[j] \in {"absent", "skipped", "merged"}

(* wg.Wait returns; Calculate works on the merged rows and scan_complete is *)
(* published.                                                              *)
WaitReturns(h) ==
  /\ Goes(h, "waiting", "closing")
  /\ \A j \in JobsOf(h) : Settled(j)
  /\ Publish({<<Itself(h), "scan_complete">>})
  /\ UNCHANGED <<sessionVars, jobVars, closed, clientVars, request, unstored, raced,
                 early>>

(* Broker.Close, which does nothing the second time. *)
CloseBroker(h) ==
  /\ Goes(h, "closing", "storing")
  /\ closed' = TRUE
  /\ unstored' = [unstored EXCEPT ![h] = Fields]
  /\ UNCHANGED <<sessionVars, jobVars, published, lost, clientVars, request, raced,
                 early>>

(* What the accumulators of one run hold. *)
Mine(h, bag) == [j \in Job |-> IF j[1] = h THEN bag[j] ELSE 0]

(* One of the stores becomes visible to other goroutines.  They are not    *)
(* synchronised, so it may be any of them.  What is visible of the result  *)
(* is read only when the state is.                                         *)
StoreField(h, f) ==
  /\ runner[h] = "storing"
  /\ f \in unstored[h]
  /\ unstored' = [unstored EXCEPT ![h] = @ \ {f}]
  /\ completedAt' = IF f = "result" THEN TRUE ELSE completedAt
  /\ tokenResult' = IF f = "result" THEN Mine(h, findings) ELSE tokenResult
  /\ errors' = IF f = "result" THEN Mine(h, errs) ELSE errors
  /\ state' = IF f = "state" THEN "complete" ELSE state
  /\ early' = (early \/ (~ raced /\ f = "state" /\ unstored[h] # {f}))
  /\ UNCHANGED <<jobVars, brokerVars, clientVars, request, runner, raced>>

RunnerExits(h) ==
  /\ Goes(h, "storing", "done")
  /\ unstored[h] = {}
  /\ UNCHANGED <<sessionVars, jobVars, brokerVars, clientVars, request, unstored,
                 raced, early>>

-----------------------------------------------------------------------------
(* The client.                                                             *)

(* No goroutine has met another on the unsynchronised fields. *)
Orderly == ~ raced /\ ~ early

(* HandleGetScanStatus answers "complete". *)
PollComplete ==
  /\ client = "polling"
  /\ state = "complete"
  /\ client' = "fetching"
  /\ UNCHANGED <<sessionVars, jobVars, brokerVars, seen, runVars>>

(* HandleScanResults answers 200; while the session is created or scanning *)
(* it answers 202 and the client is where it was.  What it reads while     *)
(* another goroutine may store is anything, and is not told apart.         *)
GetResults ==
  /\ client \in {"polling", "fetching"}
  /\ state \notin {"created", "scanning"}
  /\ client' = "done"
  /\ seen' = IF Orderly
               THEN [tokenResult |-> tokenResult, errors |-> errors,
                     completedAt |-> completedAt, metrics |-> metrics]
               ELSE NotSeen
  /\ UNCHANGED <<sessionVars, jobVars, brokerVars, runVars>>

-----------------------------------------------------------------------------
(* What a job does by itself, and what it depends on a provider for. *)
OwnStep(j) ==
  \/ Begin(j)
  \/ ReportOutcome(j)
  \/ AttachResults(j)
  \/ Leave(j)
  \/ Merge(j)

JobStep(j) ==
  \/ OwnStep(j)
  \/ \E res \in {"rows", "err"}, reports \in BOOLEAN : ScanReturns(j, res, reports)

Ask(h) ==
  \/ TestState(h)
  \/ \E providers \in SUBSET Provider, n \in 0 .. MaxForests :
       Start(h, Expand(h, providers, n))

RunnerStep(h) ==
  \/ \E j \in JobsOf(h) : Launch(j)
  \/ AwaitJobs(h)
  \/ WaitReturns(h)
  \/ CloseBroker(h)
  \/ \E f \in Fields : StoreField(h, f)
  \/ RunnerExits(h)

ClientStep == PollComplete \/ GetResults

(* Nothing is left to do. *)
Finished ==
  /\ \A h \in Starter : runner[h] \in {"refused", "done"}
  /\ client = "done"
  /\ UNCHANGED vars

Next ==
  \/ \E h \in Starter : Ask(h) \/ RunnerStep(h)
  \/ \E j \in Job : JobStep(j)
  \/ ClientStep
  \/ Finished

(* The Go scheduler runs every runnable goroutine and the client polls on. *)
(* Nothing obliges it to start a scan, nor a scanner to return: WAPI       *)
(* requests have no timeout and Run's context is never cancelled.          *)
Fairness ==
  /\ \A j \in Job : WF_vars(OwnStep(j))
  /\ \A h \in Starter : WF_vars(RunnerStep(h))
  /\ WF_vars(ClientStep)

Spec     == Init /\ [][Next]_vars
FairSpec == Spec /\ Fairness

-----------------------------------------------------------------------------
(* Properties.                                                             *)

Bag     == [Job -> Nat]
Metrics == [Provider -> Job \cup {NoJob}]

TypeOK ==
  /\ state \in {"created", "scanning", "complete"}
  /\ tokenResult \in Bag
  /\ errors \in Bag
  /\ completedAt \in BOOLEAN
  /\ metrics \in Metrics
  /\ progress \in [Provider -> {"absent", "running", "complete", "error"}]
  /\ request \in [Starter -> SUBSET Job]
  /\ runner \in [Starter -> {"idle", "tested", "refused", "launching", "waiting",
                             "closing", "storing", "done"}]
  /\ pc \in [Job -> {"absent", "queued", "skipped", "launched", "scanning",
                     "returned", "reported", "attached", "leaving", "merged"}]
  /\ outcome \in [Job -> {"none", "rows", "err"}]
  /\ held \in Metrics
  /\ reported \subseteq Job
  /\ findings \in Bag
  /\ errs \in Bag
  /\ unstored \in [Starter -> SUBSET Fields]
  /\ raced \in BOOLEAN
  /\ early \in BOOLEAN
  /\ published \subseteq Event
  /\ closed \in BOOLEAN
  /\ lost \subseteq Event
  /\ client \in {"idle", "polling", "fetching", "done"}
  /\ seen \in [tokenResult : Bag, errors : Bag, completedAt : BOOLEAN,
               metrics : Metrics]

(* The jobs that have a scanner, of one run and of all. *)
RunnableOf(h) == {j \in request[h] : j[2] \in Registered}

Runnable == UNION {RunnableOf(h) : h \in Starter}

Ended(res) == [j \in Job |-> IF outcome[j] = res THEN 1 ELSE 0]

(* Every job of a run that has a scanner is counted exactly once, by its   *)
(* rows or by its error, when Run computes its result: a failing provider  *)
(* costs no other provider its rows, none is counted twice and none is     *)
(* forgotten, also when another run of the session is under way            *)
(* (Orchestrator.Run, the wait group and the merge).                       *)
Accounted ==
  \A h \in Starter : runner[h] \in {"closing", "storing", "done"} =>
    \A j \in JobsOf(h) :
      /\ findings[j] + errs[j] = IF j \in RunnableOf(h) THEN 1 ELSE 0
      /\ findings[j] = 1 => outcome[j] = "rows"
      /\ errs[j] = 1 => outcome[j] = "err"

(* The side results of a provider: there are some when a job of it reported *)
(* some and succeeded, and none when no job did.  They are what one of its *)
(* forests reported: with more than one those of the others are gone, and  *)
(* the one that stays may have failed after it reported.                   *)
MetricsWhole(shown) ==
  \A p \in Provider :
    LET jobs == {j \in Job : j[2] = p}
    IN  /\ shown[p] # NoJob => /\ shown[p] \in jobs \cap reported
                              /\ \E j \in jobs : outcome[j] = "rows"
        /\ shown[p] = NoJob =>
             ~ \E j \in jobs \cap reported : outcome[j] = "rows"

(* Results a client was given are whole when the scan was orderly: the     *)
(* token result covers the rows of exactly the jobs that succeeded, every  *)
(* other job is in the errors, the completion time is there, and each      *)
(* provider that succeeded and reported has side results of its own        *)
(* (HandleScanResults reads the fields without a lock).                    *)
ResultsWhole ==
  client = "done" /\ Orderly =>
    /\ seen.tokenResult = Ended("rows")
    /\ seen.errors = Ended("err")
    /\ seen.completedAt
    /\ MetricsWhole(seen.metrics)

(* Unless two runs share it, no event is published to a closed broker, and *)
(* when the broker closes the events of every job are complete: its start, *)
(* its end and, for a job that failed, the error in between.               *)
NoEventLost ==
  ~ raced =>
    /\ lost = {}
    /\ closed => \A j \in Runnable :
         /\ <<j, "provider_start">> \in published
         /\ <<j, "provider_complete">> \in published
         /\ <<j, "error">> \in published <=> outcome[j] = "err"

(* The outcome of a scan that completed in order never changes, nor does   *)
(* its state: a later start request is refused.                            *)
CompleteIsFinal ==
  [][state = "complete" /\ Orderly => UNCHANGED <<sessionVars, metrics>>]_vars

(* When every scanner returns, the client that polls gets the results,     *)
(* whatever they return and however many handlers started the scan.        *)
ClientServed ==
  (\A j \in Job : []<>(pc[j] # "scanning")) => (client = "polling" ~> client = "done")

-----------------------------------------------------------------------------
(* The abstract specification this one implements.                         *)

Contract == INSTANCE ScanContract WITH
  phase  <- IF Orderly THEN state ELSE "void",
  asked  <- IF Orderly THEN Runnable ELSE {},
  result <- IF Orderly /\ state = "complete"
              THEN [ok     |-> {j \in Job : tokenResult[j] > 0},
                    failed |-> {j \in Job : errors[j] > 0}]
              ELSE [ok |-> {}, failed |-> {}]

ContractSpec == Contract!Spec
=============================================================================
