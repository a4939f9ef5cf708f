--------------------------- MODULE ScanRun_proofs ---------------------------
(***************************************************************************)
(* Proofs about ScanRun, for every set of handlers and providers and every *)
(* number of forests.                                                      *)
(***************************************************************************)
EXTENDS ScanRun, TLAPS

Before1 == {"absent", "queued", "skipped", "launched", "scanning"}
After1  == {"attached", "leaving", "merged"}

(* Where a job is determines what it has contributed. *)
JobInv ==
  \A j \in Job :
    /\ pc[j] # "absent" <=> j \in request[j[1]]
    /\ pc[j] = "skipped" => j[2] \notin Registered
    /\ pc[j] \notin {"absent", "queued", "skipped"} => j[2] \in Registered
    /\ outcome[j] = "none" <=> pc[j] \in Before1
    /\ findings[j] = IF pc[j] = "merged" /\ outcome[j] = "rows" THEN 1 ELSE 0
    /\ errs[j] = IF pc[j] = "merged" /\ outcome[j] = "err" THEN 1 ELSE 0

(* Side results are what a job of the provider reported.  Those of a job   *)
(* that has attached its own, or another's after it, are in the session.   *)
MetricsInv ==
  /\ \A p \in Provider :
       /\ held[p] # NoJob => held[p] \in reported /\ held[p][2] = p
       /\ metrics[p] # NoJob =>
            /\ metrics[p] \in reported /\ metrics[p][2] = p
            /\ \E j \in Job : j[2] = p /\ outcome[j] = "rows"
  /\ \A j \in reported :
       /\ held[j[2]] # NoJob
       /\ outcome[j] = "rows" /\ pc[j] \in After1 => metrics[j[2]] # NoJob

Waiting == {"idle", "tested", "refused"}

(* How far a runner is bounds where its jobs can be.  Unless two handlers  *)
(* found the session created there is one runner at most.                  *)
RunnerInv ==
  /\ \A h \in Starter :
       /\ \A j \in request[h] : j[1] = h
       /\ runner[h] \in Waiting => request[h] = {}
       /\ runner[h] \in {"waiting", "closing", "storing", "done"} =>
            \A j \in JobsOf(h) : pc[j] # "queued"
       /\ runner[h] \in {"closing", "storing", "done"} =>
            \A j \in JobsOf(h) : Settled(j)
  /\ state = "created" <=> \A h \in Starter : runner[h] \in Waiting
  /\ ~ raced => \A g, h \in Starter :
       runner[g] \notin {"idle", "refused"} /\ runner[h] \notin {"idle", "refused"}
         => g = h

Storing(h) == runner[h] \in {"storing", "done"}

(* Which of the final stores are visible, and what the client has read. *)
StoreInv ==
  ~ raced =>
    /\ state = "complete" <=> \E h \in Starter : Storing(h) /\ "state" \notin unstored[h]
    /\ \A h \in Starter :
         /\ Storing(h) /\ "result" \notin unstored[h] =>
              /\ tokenResult = Mine(h, findings)
              /\ errors = Mine(h, errs)
              /\ completedAt
         /\ ~ early /\ Storing(h) /\ "state" \notin unstored[h] => unstored[h] = {}
    /\ client = "done" => state = "complete"

BrokerInv ==
  /\ closed <=> \E h \in Starter : Storing(h)
  /\ ~ raced =>
       /\ lost = {}
       /\ \A j \in Job :
            /\ pc[j] \notin {"absent", "queued", "skipped", "launched"} =>
                 <<j, "provider_start">> \in published
            /\ pc[j] \in {"leaving", "merged"} => <<j, "provider_complete">> \in published
            /\ <<j, "error">> \in published <=> outcome[j] = "err" /\ pc[j] \in After1

IInv == /\ TypeOK /\ JobInv /\ MetricsInv /\ RunnerInv
        /\ StoreInv /\ BrokerInv /\ ResultsWhole

(* A job names its handler and its provider. *)
LEMMA JobParts ==
  ASSUME NEW j \in Job
  PROVE  j[1] \in Starter /\ j[2] \in Provider
BY ScanRunAssumption DEF Job

LEMMA Expanded ==
  ASSUME NEW h \in Starter, NEW providers \in SUBSET Provider, NEW n \in 0 .. MaxForests
  PROVE  Expand(h, providers, n) \subseteq JobsOf(h)
BY ScanRunAssumption DEF Expand, JobsOf, Job

-----------------------------------------------------------------------------
(* Type correctness: every field of the session, every local of the runs   *)
(* and every job stays in its type (Session, Orchestrator.Run).            *)

LEMMA TypingInit == Init => TypeOK
<1> SUFFICES ASSUME Init PROVE TypeOK
  OBVIOUS
<1>1. EmptyBag \in Bag /\ NoMetrics \in Metrics
  BY DEF EmptyBag, Bag, NoMetrics, Metrics
<1>2. seen \in [tokenResult : Bag, errors : Bag, completedAt : BOOLEAN,
                metrics : Metrics]
  BY <1>1 DEF Init, NotSeen
<1> QED
  BY <1>1, <1>2 DEF Init, TypeOK

LEMMA TypingStep == TypeOK /\ [Next]_vars => TypeOK'
<1> SUFFICES ASSUME TypeOK, [Next]_vars PROVE TypeOK'
  OBVIOUS
<1> USE DEF TypeOK, Bag, Metrics, Fields, sessionVars, jobVars, brokerVars,
            clientVars, runVars
<1>1. ASSUME NEW h \in Starter, TestState(h) PROVE TypeOK'
  BY <1>1 DEF TestState, Goes
<1>2. ASSUME NEW h \in Starter, NEW jobs \in SUBSET Job, Start(h, jobs) PROVE TypeOK'
  BY <1>2 DEF Start, Goes
<1>3. ASSUME NEW j \in Job, Launch(j) PROVE TypeOK'
  BY <1>3 DEF Launch
<1>4. ASSUME NEW h \in Starter, AwaitJobs(h) PROVE TypeOK'
  BY <1>4 DEF AwaitJobs, Goes
<1>5. ASSUME NEW j \in Job, Begin(j) PROVE TypeOK'
  <2>1. j[2] \in Provider
    BY JobParts
  <2>2. progress' \in [Provider -> {"absent", "running", "complete", "error"}]
    BY <1>5, <2>1 DEF Begin, SetProgress
  <2>3. published' \subseteq Event /\ lost' \subseteq Event
    BY <1>5 DEF Begin, Publish, Event
  <2> QED
    BY <1>5, <2>2, <2>3 DEF Begin, Goto
<1>6. ASSUME NEW j \in Job, NEW res \in {"rows", "err"}, NEW reports \in BOOLEAN,
             ScanReturns(j, res, reports)
      PROVE TypeOK'
  BY <1>6, JobParts DEF ScanReturns, Goto
<1>7. ASSUME NEW j \in Job, ReportOutcome(j) PROVE TypeOK'
  BY <1>7, JobParts DEF ReportOutcome, Goto, SetProgress
<1>8. ASSUME NEW j \in Job, AttachResults(j) PROVE TypeOK'
  <2>1. metrics' \in Metrics
    BY <1>8, JobParts DEF AttachResults, Attach
  <2>2. published' \subseteq Event /\ lost' \subseteq Event
    BY <1>8 DEF AttachResults, Publish, Event
  <2> QED
    BY <1>8, <2>1, <2>2 DEF AttachResults, Goto
<1>9. ASSUME NEW j \in Job, Leave(j) PROVE TypeOK'
  BY <1>9 DEF Leave, Goto, Publish, Event
<1>10. ASSUME NEW j \in Job, Merge(j) PROVE TypeOK'
  BY <1>10 DEF Merge, Goto
<1>11. ASSUME NEW h \in Starter, WaitReturns(h) PROVE TypeOK'
  BY <1>11 DEF WaitReturns, Goes, Publish, Event
<1>12. ASSUME NEW h \in Starter, CloseBroker(h) PROVE TypeOK'
  BY <1>12 DEF CloseBroker, Goes
<1>13. ASSUME NEW h \in Starter, NEW f \in Fields, StoreField(h, f) PROVE TypeOK'
  <2>1. Mine(h, findings) \in Bag /\ Mine(h, errs) \in Bag
    BY DEF Mine
  <2> QED
    BY <1>13, <2>1 DEF StoreField
<1>14. ASSUME NEW h \in Starter, RunnerExits(h) PROVE TypeOK'
  BY <1>14 DEF RunnerExits, Goes
<1>15. CASE PollComplete
  BY <1>15 DEF PollComplete
<1>16. CASE GetResults
  <2>1. NotSeen \in [tokenResult : Bag, errors : Bag, completedAt : BOOLEAN,
                     metrics : Metrics]
    BY DEF NotSeen, EmptyBag, NoMetrics
  <2> QED
    BY <1>16, <2>1 DEF GetResults
<1>17. CASE UNCHANGED vars
  BY <1>17 DEF vars
<1>18. \A h \in Starter, providers \in SUBSET Provider, n \in 0 .. MaxForests :
         Expand(h, providers, n) \in SUBSET Job
  BY Expanded DEF JobsOf
<1> HIDE DEF TypeOK, Bag, Metrics, Fields, sessionVars, jobVars, brokerVars,
             clientVars, runVars
<1> QED
  BY <1>1, <1>2, <1>3, <1>4, <1>5, <1>6, <1>7, <1>8, <1>9, <1>10, <1>11, <1>12,
     <1>13, <1>14, <1>15, <1>16, <1>17, <1>18
     DEF Next, Ask, JobStep, OwnStep, RunnerStep, JobsOf, ClientStep, Finished

THEOREM TypeCorrect == Spec => []TypeOK
  BY TypingInit, TypingStep, PTL DEF Spec

-----------------------------------------------------------------------------
(* The inductive invariant holds initially.                                *)

LEMMA IInvInit == Init => IInv
<1> SUFFICES ASSUME Init PROVE IInv
  OBVIOUS
<1>1. TypeOK
  BY TypingInit
<1>2. JobInv
  BY JobParts DEF Init, JobInv, EmptyBag, Before1, After1
<1>3. MetricsInv
  BY DEF Init, MetricsInv, NoMetrics
<1>4. RunnerInv
  BY DEF Init, RunnerInv, Waiting
<1>5. StoreInv
  BY DEF Init, StoreInv, Storing
<1>6. BrokerInv
  BY DEF Init, BrokerInv, Storing, After1
<1>7. ResultsWhole
  BY DEF Init, ResultsWhole
<1> QED
  BY <1>1, <1>2, <1>3, <1>4, <1>5, <1>6, <1>7 DEF IInv

-----------------------------------------------------------------------------
(* What a job has contributed follows from where it is.                    *)

LEMMA JobInvStep == IInv /\ [Next]_vars => JobInv'
<1> SUFFICES ASSUME IInv, [Next]_vars PROVE JobInv'
  OBVIOUS
<1> USE DEF IInv, TypeOK, JobInv, Before1, After1
<1>1. ASSUME NEW h \in Starter, NEW jobs \in SUBSET JobsOf(h), Start(h, jobs)
      PROVE JobInv'
  <2>1. \A j \in JobsOf(h) : pc[j] = "absent"
    BY <1>1, JobParts DEF Start, Goes, RunnerInv, Waiting, JobsOf
  <2>2. \A j \in jobs : j[1] = h
    BY DEF JobsOf
  <2>3. \A j \in Job : j \in request'[j[1]] <=> IF j[1] = h THEN j \in jobs
                                                          ELSE j \in request[j[1]]
    BY <1>1, JobParts DEF Start
  <2>4. UNCHANGED <<outcome, findings, errs>>
    BY <1>1 DEF Start
  <2>5. pc' = [j \in Job |-> IF j \in jobs THEN "queued" ELSE pc[j]]
    BY <1>1 DEF Start
  <2> QED
    BY <2>1, <2>2, <2>3, <2>4, <2>5 DEF JobsOf
<1>2. ASSUME NEW j \in Job, Launch(j) PROVE JobInv'
  BY <1>2 DEF Launch, sessionVars, runVars
<1>3. ASSUME NEW j \in Job, Begin(j) PROVE JobInv'
  BY <1>3 DEF Begin, Goto, runVars
<1>4. ASSUME NEW j \in Job, NEW res \in {"rows", "err"}, NEW reports \in BOOLEAN,
             ScanReturns(j, res, reports)
      PROVE JobInv'
  BY <1>4 DEF ScanReturns, Goto, runVars
<1>5. ASSUME NEW j \in Job, ReportOutcome(j) PROVE JobInv'
  BY <1>5 DEF ReportOutcome, Goto, runVars
<1>6. ASSUME NEW j \in Job, AttachResults(j) PROVE JobInv'
  BY <1>6 DEF AttachResults, Goto, runVars
<1>7. ASSUME NEW j \in Job, Leave(j) PROVE JobInv'
  BY <1>7 DEF Leave, Goto, runVars
<1>8. ASSUME NEW j \in Job, Merge(j) PROVE JobInv'
  BY <1>8 DEF Merge, Goto, Bag, runVars
<1>9. CASE UNCHANGED <<pc, outcome, findings, errs, request>>
  BY <1>9
<1>10. (\E h \in Starter : \/ TestState(h) \/ AwaitJobs(h) \/ WaitReturns(h)
                           \/ CloseBroker(h) \/ RunnerExits(h)
                           \/ \E f \in Fields : StoreField(h, f))
         \/ ClientStep \/ UNCHANGED vars
       => UNCHANGED <<pc, outcome, findings, errs, request>>
  BY DEF TestState, AwaitJobs, WaitReturns, CloseBroker, StoreField, RunnerExits,
         ClientStep, PollComplete, GetResults, vars, jobVars, runVars
<1> HIDE DEF IInv, TypeOK, JobInv, Before1, After1
<1> QED
  BY <1>1, <1>2, <1>3, <1>4, <1>5, <1>6, <1>7, <1>8, <1>9, <1>10, Expanded
     DEF Next, Ask, JobStep, OwnStep, RunnerStep, JobsOf, Finished

-----------------------------------------------------------------------------
(* Side results come from a job of the provider.                           *)

LEMMA MetricsInvStep == IInv /\ [Next]_vars => MetricsInv'
<1> SUFFICES ASSUME IInv, [Next]_vars PROVE MetricsInv'
  OBVIOUS
<1> USE DEF IInv, TypeOK, MetricsInv, After1
<1>1. ASSUME NEW h \in Starter, NEW jobs \in SUBSET JobsOf(h), Start(h, jobs)
      PROVE MetricsInv'
  <2>1. \A j \in Job : pc'[j] \in After1 => pc[j] \in After1
    BY <1>1 DEF Start
  <2>2. UNCHANGED <<held, metrics, reported, outcome>>
    BY <1>1 DEF Start
  <2> QED
    BY <2>1, <2>2
<1>2. ASSUME NEW j \in Job, NEW res \in {"rows", "err"}, NEW reports \in BOOLEAN,
             ScanReturns(j, res, reports)
      PROVE MetricsInv'
  <2>1. pc[j] = "scanning" /\ pc' = [pc EXCEPT ![j] = "returned"] /\ metrics' = metrics
          /\ outcome' = [outcome EXCEPT ![j] = res] /\ outcome[j] = "none"
    BY <1>2 DEF ScanReturns, Goto, JobInv, Before1
  <2>2. \A i \in Job : outcome[i] = "rows" => outcome'[i] = "rows"
    BY <2>1
  <2>3. reported \subseteq reported' /\ j[2] \in Provider
    BY <1>2, JobParts DEF ScanReturns
  <2>4. \A p \in Provider : held'[p] # NoJob => held'[p] \in reported' /\ held'[p][2] = p
    BY <1>2, <2>3 DEF ScanReturns
  <2>5. \A p \in Provider : held[p] # NoJob => held'[p] # NoJob
    BY <1>2, NoJobAssumption DEF ScanReturns, Metrics
  <2>6. \A i \in reported' : held'[i[2]] # NoJob
    BY <1>2, <2>5, JobParts, NoJobAssumption DEF ScanReturns, Metrics
  <2>7. \A i \in reported' : outcome'[i] = "rows" /\ pc'[i] \in After1
           => i # j /\ i \in reported /\ outcome[i] = "rows" /\ pc[i] \in After1
    BY <1>2, <2>1 DEF ScanReturns
  <2> QED
    BY <2>1, <2>2, <2>3, <2>4, <2>6, <2>7
<1>3. ASSUME NEW j \in Job, AttachResults(j) PROVE MetricsInv'
  <2>1. UNCHANGED <<held, reported, outcome>> /\ pc' = [pc EXCEPT ![j] = "attached"]
          /\ j[2] \in Provider
    BY <1>3, JobParts DEF AttachResults, Goto
  <2>2. CASE outcome[j] # "rows" \/ held[j[2]] = NoJob
    <3>1. metrics' = metrics
      BY <1>3, <2>2 DEF AttachResults, Attach
    <3> QED
      BY <2>1, <2>2, <3>1
  <2>3. CASE outcome[j] = "rows" /\ held[j[2]] # NoJob
    <3>1. metrics' = [metrics EXCEPT ![j[2]] = held[j[2]]]
      BY <1>3, <2>3 DEF AttachResults, Attach
    <3>2. \A p \in Provider : metrics[p] # NoJob => metrics'[p] # NoJob
      BY <2>3, <3>1 DEF Metrics
    <3>3. metrics'[j[2]] # NoJob
      BY <2>1, <2>3, <3>1 DEF Metrics
    <3>4. \A p \in Provider : metrics'[p] # NoJob =>
            /\ metrics'[p] \in reported /\ metrics'[p][2] = p
            /\ \E i \in Job : i[2] = p /\ outcome[i] = "rows"
      BY <2>1, <2>3, <3>1 DEF Metrics
    <3>5. \A i \in reported : outcome[i] = "rows" /\ pc'[i] \in After1
                                => metrics'[i[2]] # NoJob
      BY <2>1, <3>2, <3>3, JobParts
    <3> QED
      BY <2>1, <3>4, <3>5
  <2> QED
    BY <2>2, <2>3
<1>4. ASSUME NEW j \in Job, Launch(j) \/ Begin(j) \/ ReportOutcome(j)
      PROVE MetricsInv'
  BY <1>4 DEF Launch, Begin, ReportOutcome, Goto
<1>5. ASSUME NEW j \in Job, Leave(j) \/ Merge(j) PROVE MetricsInv'
  BY <1>5 DEF Leave, Merge, Goto
<1>6. CASE UNCHANGED <<pc, outcome, held, reported, metrics>>
  BY <1>6
<1>7. (\E h \in Starter : \/ TestState(h) \/ AwaitJobs(h) \/ WaitReturns(h)
                          \/ CloseBroker(h) \/ RunnerExits(h)
                          \/ \E f \in Fields : StoreField(h, f))
        \/ ClientStep \/ UNCHANGED vars
      => UNCHANGED <<pc, outcome, held, reported, metrics>>
  BY DEF TestState, AwaitJobs, WaitReturns, CloseBroker, StoreField, RunnerExits,
         ClientStep, PollComplete, GetResults, vars, jobVars
<1> HIDE DEF IInv, TypeOK, MetricsInv, After1
<1> QED
  BY <1>1, <1>2, <1>3, <1>4, <1>5, <1>6, <1>7, Expanded
     DEF Next, Ask, JobStep, OwnStep, RunnerStep, JobsOf, Finished

-----------------------------------------------------------------------------
(* Where a runner is bounds where its jobs are.                            *)

LEMMA RunnerInvStep == IInv /\ [Next]_vars => RunnerInv'
<1> SUFFICES ASSUME IInv, [Next]_vars PROVE RunnerInv'
  OBVIOUS
<1> USE DEF IInv, TypeOK, RunnerInv, Settled, Waiting, JobsOf
<1>1. ASSUME NEW h \in Starter, TestState(h) PROVE RunnerInv'
  <2>1. UNCHANGED <<state, pc, request>>
    BY <1>1 DEF TestState, sessionVars, jobVars
  <2>2. runner[h] = "idle" /\ runner' = [runner EXCEPT ![h] =
          IF state = "created" THEN "tested" ELSE "refused"]
    BY <1>1 DEF TestState, Goes
  <2>3. ASSUME ~ raced' /\ state = "created" PROVE \A g \in Starter : runner[g] # "tested"
    BY <1>1, <2>3 DEF TestState, Tested
  <2>4. ~ raced' => ~ raced
    BY <1>1 DEF TestState
  <2>5. ~ raced' => \A g, i \in Starter :
          runner'[g] \notin {"idle", "refused"} /\ runner'[i] \notin {"idle", "refused"}
            => g = i
    BY <2>2, <2>3, <2>4
  <2> QED
    BY <2>1, <2>2, <2>5
<1>2. ASSUME NEW h \in Starter, NEW jobs \in SUBSET JobsOf(h), Start(h, jobs)
      PROVE RunnerInv'
  <2>1. /\ state' = "scanning" /\ raced' = raced
        /\ runner[h] = "tested" /\ runner' = [runner EXCEPT ![h] = "launching"]
        /\ request' = [request EXCEPT ![h] = jobs]
    BY <1>2 DEF Start, Goes
  <2>2. \A j \in Job : j[1] # h => pc'[j] = pc[j]
    BY <1>2 DEF Start
  <2> QED
    BY <2>1, <2>2
<1>3. ASSUME NEW j \in Job, Launch(j) PROVE RunnerInv'
  BY <1>3, JobParts DEF Launch, sessionVars, runVars
<1>4. ASSUME NEW j \in Job, JobStep(j) PROVE RunnerInv'
  <2>1. UNCHANGED <<runner, state, request, raced>>
    BY <1>4 DEF JobStep, OwnStep, Begin, ScanReturns, ReportOutcome, AttachResults,
                Leave, Merge, sessionVars, runVars
  <2>2. pc[j] \notin {"absent", "queued", "skipped", "merged"}
    BY <1>4 DEF JobStep, OwnStep, Begin, ScanReturns, ReportOutcome, AttachResults,
                Leave, Merge, Goto
  <2>3. \E to : to # "queued" /\ pc' = [pc EXCEPT ![j] = to]
    BY <1>4 DEF JobStep, OwnStep, Begin, ScanReturns, ReportOutcome, AttachResults,
                Leave, Merge, Goto
  <2> QED
    BY <2>1, <2>2, <2>3
<1>5. ASSUME NEW h \in Starter, AwaitJobs(h) PROVE RunnerInv'
  BY <1>5 DEF AwaitJobs, Goes, sessionVars, jobVars
<1>6. ASSUME NEW h \in Starter, WaitReturns(h) PROVE RunnerInv'
  BY <1>6 DEF WaitReturns, Goes, sessionVars, jobVars
<1>7. ASSUME NEW h \in Starter, CloseBroker(h) PROVE RunnerInv'
  BY <1>7 DEF CloseBroker, Goes, sessionVars, jobVars
<1>8. ASSUME NEW h \in Starter, NEW f \in Fields, StoreField(h, f) PROVE RunnerInv'
  BY <1>8 DEF StoreField, jobVars
<1>9. ASSUME NEW h \in Starter, RunnerExits(h) PROVE RunnerInv'
  BY <1>9 DEF RunnerExits, Goes, sessionVars, jobVars
<1>10. CASE ClientStep
  BY <1>10 DEF ClientStep, PollComplete, GetResults, sessionVars, jobVars, runVars
<1>11. CASE UNCHANGED vars
  BY <1>11 DEF vars, sessionVars, jobVars, runVars
<1> HIDE DEF IInv, TypeOK, RunnerInv, Settled, Waiting
<1> QED
  BY <1>1, <1>2, <1>3, <1>4, <1>5, <1>6, <1>7, <1>8, <1>9, <1>10, <1>11, Expanded
     DEF Next, Ask, RunnerStep, Finished

-----------------------------------------------------------------------------
(* What the final stores have made visible.                                *)

(* Goroutines that have met have met.                                      *)
LEMMA StillOrderly == TypeOK /\ [Next]_vars => (~ raced' => ~ raced) /\ (~ early' => ~ early)
<1> SUFFICES ASSUME TypeOK, [Next]_vars
             PROVE  (~ raced' => ~ raced) /\ (~ early' => ~ early)
  OBVIOUS
<1>1. raced \in BOOLEAN /\ early \in BOOLEAN
  BY DEF TypeOK
<1>2. ASSUME NEW h \in Starter, TestState(h)
      PROVE  (~ raced' => ~ raced) /\ (~ early' => ~ early)
  BY <1>1, <1>2 DEF TestState
<1>3. ASSUME NEW h \in Starter, NEW f \in Fields, StoreField(h, f)
      PROVE  (~ raced' => ~ raced) /\ (~ early' => ~ early)
  BY <1>1, <1>3 DEF StoreField
<1>4. ASSUME NEW h \in Starter, NEW jobs, Start(h, jobs) PROVE UNCHANGED <<raced, early>>
  BY <1>4 DEF Start
<1>5. ASSUME NEW h \in Starter,
             AwaitJobs(h) \/ WaitReturns(h) \/ CloseBroker(h) \/ RunnerExits(h)
      PROVE  UNCHANGED <<raced, early>>
  BY <1>5 DEF AwaitJobs, WaitReturns, CloseBroker, RunnerExits
<1>6. ASSUME NEW j \in Job, JobStep(j) \/ Launch(j) PROVE UNCHANGED <<raced, early>>
  BY <1>6 DEF JobStep, OwnStep, Begin, ScanReturns, ReportOutcome, AttachResults, Leave,
              Merge, Launch, runVars
<1>7. CASE ClientStep \/ UNCHANGED vars
  BY <1>7 DEF ClientStep, PollComplete, GetResults, vars, runVars
<1> QED
  BY <1>2, <1>3, <1>4, <1>5, <1>6, <1>7 DEF Next, Ask, RunnerStep, JobsOf, Finished

(* A job that is under way belongs to a run that has not ended.            *)
LEMMA UnderWay ==
  ASSUME IInv, NEW j \in Job, pc[j] \notin {"absent", "skipped", "merged"}
  PROVE  /\ j[1] \in Starter
         /\ runner[j[1]] \notin {"idle", "tested", "refused", "closing", "storing", "done"}
         /\ state # "created"
         /\ ~ raced => \A h \in Starter : ~ Storing(h)
BY JobParts DEF IInv, TypeOK, JobInv, RunnerInv, Settled, Waiting, JobsOf, Storing

LEMMA StoreInvStep == IInv /\ [Next]_vars => StoreInv'
<1> SUFFICES ASSUME IInv, [Next]_vars, ~ raced' PROVE StoreInv'
  BY DEF StoreInv
<1>0. ~ raced
  BY StillOrderly DEF IInv
<1> USE <1>0 DEF IInv, TypeOK, StoreInv, Storing
<1>1. ASSUME NEW h \in Starter, TestState(h) PROVE StoreInv'
  <2>1. \A g \in Starter : runner'[g] \in {"storing", "done"}
                              <=> runner[g] \in {"storing", "done"}
    BY <1>1 DEF TestState, Goes
  <2> QED
    BY <1>1, <2>1 DEF TestState, sessionVars, jobVars, clientVars
<1>2. ASSUME NEW h \in Starter, NEW jobs \in SUBSET JobsOf(h), Start(h, jobs)
      PROVE StoreInv'
  <2>1. runner[h] = "tested" /\ runner' = [runner EXCEPT ![h] = "launching"]
          /\ state' = "scanning"
    BY <1>2 DEF Start, Goes
  <2>2. \A g \in Starter : ~ Storing(g)
    BY <2>1 DEF RunnerInv
  <2>3. client # "done" /\ client' # "done"
    BY <1>2, <2>2 DEF Start
  <2> QED
    BY <2>1, <2>2, <2>3
<1>3. ASSUME NEW j \in Job, Launch(j) PROVE StoreInv'
  BY <1>3 DEF Launch, sessionVars, clientVars, runVars
<1>4. ASSUME NEW h \in Starter, AwaitJobs(h) PROVE StoreInv'
  BY <1>4 DEF AwaitJobs, Goes, sessionVars, jobVars, clientVars
<1>5. ASSUME NEW j \in Job, JobStep(j) PROVE StoreInv'
  <2>1. UNCHANGED <<state, tokenResult, errors, completedAt, runner, unstored, client,
                    early>>
    BY <1>5 DEF JobStep, OwnStep, Begin, ScanReturns, ReportOutcome, AttachResults,
                Leave, Merge, sessionVars, clientVars, runVars
  <2>2. pc[j] \notin {"absent", "skipped", "merged"}
    BY <1>5 DEF JobStep, OwnStep, Begin, ScanReturns, ReportOutcome, AttachResults,
                Leave, Merge, Goto
  <2>3. \A h \in Starter : ~ Storing(h)
    BY <2>2, UnderWay
  <2> QED
    BY <2>1, <2>3
<1>6. ASSUME NEW h \in Starter, WaitReturns(h) PROVE StoreInv'
  BY <1>6 DEF WaitReturns, Goes, sessionVars, jobVars, clientVars
<1>7. ASSUME NEW h \in Starter, CloseBroker(h) PROVE StoreInv'
  <2>1. /\ runner[h] = "closing" /\ runner' = [runner EXCEPT ![h] = "storing"]
        /\ unstored' = [unstored EXCEPT ![h] = Fields]
        /\ UNCHANGED <<state, tokenResult, errors, completedAt, client, early>>
    BY <1>7 DEF CloseBroker, Goes, sessionVars, clientVars
  <2>2. \A g \in Starter : g # h => ~ Storing(g)
    BY <2>1 DEF RunnerInv
  <2>3. \A g \in Starter : ~ Storing(g) /\ (Storing(g)' => g = h)
    BY <2>1, <2>2
  <2>4. "state" \in unstored'[h] /\ "result" \in unstored'[h]
    BY <2>1 DEF Fields
  <2> QED
    BY <2>1, <2>3, <2>4
<1>8. ASSUME NEW h \in Starter, NEW f \in Fields, StoreField(h, f) PROVE StoreInv'
  <2>1. /\ runner[h] = "storing" /\ f \in unstored[h]
        /\ unstored' = [unstored EXCEPT ![h] = @ \ {f}]
        /\ UNCHANGED <<findings, errs, runner, client>>
        /\ state' = IF f = "state" THEN "complete" ELSE state
        /\ early' = (early \/ (f = "state" /\ unstored[h] # {f}))
    BY <1>8 DEF StoreField, jobVars, clientVars
  <2>2. \A g \in Starter : Storing(g) => g = h
    BY <2>1 DEF RunnerInv
  <2>3. Storing(h) /\ Storing(h)'
    BY <2>1
  <2>4. "result" \notin unstored'[h] =>
          tokenResult' = Mine(h, findings) /\ errors' = Mine(h, errs) /\ completedAt'
    BY <1>8, <2>1, <2>3 DEF StoreField
  <2>5. state' = "complete" <=> "state" \notin unstored'[h]
    BY <2>1, <2>2, <2>3
  <2>6. ~ early' /\ "state" \notin unstored'[h] => unstored'[h] = {}
    BY <2>1, <2>3
  <2>7. \A g \in Starter : Storing(g)' => g = h
    BY <2>1, <2>2
  <2>8. Mine(h, findings)' = Mine(h, findings) /\ Mine(h, errs)' = Mine(h, errs)
    BY <2>1 DEF Mine
  <2> QED
    BY <2>1, <2>3, <2>4, <2>5, <2>6, <2>7, <2>8
<1>9. ASSUME NEW h \in Starter, RunnerExits(h) PROVE StoreInv'
  BY <1>9 DEF RunnerExits, Goes, sessionVars, jobVars, clientVars
<1>10. CASE ClientStep
  BY <1>10 DEF ClientStep, PollComplete, GetResults, sessionVars, jobVars, runVars
<1>11. CASE UNCHANGED vars
  BY <1>11 DEF vars, sessionVars, jobVars, clientVars, runVars
<1> HIDE DEF IInv, TypeOK, StoreInv, Storing
<1> QED
  BY <1>1, <1>2, <1>3, <1>4, <1>5, <1>6, <1>7, <1>8, <1>9, <1>10, <1>11, Expanded
     DEF Next, Ask, RunnerStep, JobsOf, Finished

-----------------------------------------------------------------------------
(* What the broker has been given.                                         *)

LEMMA BrokerInvStep == IInv /\ [Next]_vars => BrokerInv'
<1> SUFFICES ASSUME IInv, [Next]_vars PROVE BrokerInv'
  OBVIOUS
<1>0. ~ raced' => ~ raced
  BY StillOrderly DEF IInv
<1> USE <1>0 DEF IInv, TypeOK, BrokerInv, Storing, After1
<1>1. ASSUME NEW h \in Starter, TestState(h) PROVE BrokerInv'
  BY <1>1 DEF TestState, Goes, jobVars, brokerVars
<1>2. ASSUME NEW h \in Starter, NEW jobs \in SUBSET JobsOf(h), Start(h, jobs)
      PROVE BrokerInv'
  <2>1. \A j \in jobs : j \in Job /\ pc[j] = "absent"
    BY <1>2, JobParts DEF Start, Goes, RunnerInv, Waiting, JobsOf, JobInv
  <2>2. \A j \in Job : /\ pc'[j] \in After1 <=> pc[j] \in After1
                       /\ pc'[j] \in {"leaving", "merged"} => pc[j] \in {"leaving", "merged"}
                       /\ pc'[j] \notin {"absent", "queued", "skipped", "launched"}
                            => pc[j] \notin {"absent", "queued", "skipped", "launched"}
    BY <1>2, <2>1 DEF Start
  <2>3. \A g \in Starter : Storing(g)' <=> Storing(g)
    BY <1>2 DEF Start, Goes
  <2>4. UNCHANGED <<closed, lost, published, outcome, raced>>
    BY <1>2 DEF Start, brokerVars
  <2> QED
    BY <2>2, <2>3, <2>4
<1>3. ASSUME NEW j \in Job, Launch(j) PROVE BrokerInv'
  BY <1>3 DEF Launch, brokerVars, runVars
<1>4. ASSUME NEW j \in Job, JobStep(j) PROVE BrokerInv'
  <2>1. pc[j] \notin {"absent", "skipped", "merged"}
    BY <1>4 DEF JobStep, OwnStep, Begin, ScanReturns, ReportOutcome, AttachResults,
                Leave, Merge, Goto
  <2>2. ~ raced => ~ closed
    BY <2>1, UnderWay
  <2>3. UNCHANGED <<runner, closed, raced>>
    BY <1>4 DEF JobStep, OwnStep, Begin, ScanReturns, ReportOutcome, AttachResults,
                Leave, Merge, brokerVars, runVars
  <2>4. CASE Begin(j)
    BY <2>2, <2>3, <2>4 DEF Begin, Goto, Publish
  <2>5. ASSUME NEW res \in {"rows", "err"}, NEW reports \in BOOLEAN,
               ScanReturns(j, res, reports)
        PROVE  BrokerInv'
    BY <2>2, <2>3, <2>5 DEF ScanReturns, Goto, brokerVars
  <2>6. CASE ReportOutcome(j)
    BY <2>2, <2>3, <2>6 DEF ReportOutcome, Goto, brokerVars
  <2>7. CASE AttachResults(j)
    <3>1. outcome[j] # "none"
      BY <2>7 DEF AttachResults, Goto, JobInv, Before1
    <3> QED
      BY <2>2, <2>3, <2>7, <3>1 DEF AttachResults, Goto, Publish
  <2>8. CASE Leave(j)
    BY <2>2, <2>3, <2>8 DEF Leave, Goto, Publish
  <2>9. CASE Merge(j)
    BY <2>2, <2>3, <2>9 DEF Merge, Goto, brokerVars
  <2> QED
    BY <1>4, <2>4, <2>5, <2>6, <2>7, <2>8, <2>9 DEF JobStep, OwnStep
<1>5. ASSUME NEW h \in Starter, WaitReturns(h) PROVE BrokerInv'
  <2>1. /\ runner[h] = "waiting" /\ runner' = [runner EXCEPT ![h] = "closing"]
        /\ UNCHANGED <<pc, outcome, closed, raced>>
    BY <1>5 DEF WaitReturns, Goes, jobVars
  <2>2. ~ raced => ~ closed
    BY <2>1 DEF RunnerInv
  <2>3. \A g \in Starter : Storing(g)' <=> Storing(g)
    BY <2>1
  <2>4. \A j \in Job, e \in {"provider_start", "provider_complete", "error"} :
          <<j, e>> # <<Itself(h), "scan_complete">>
    OBVIOUS
  <2>5. ~ raced => lost' = {} /\ published' = published \cup {<<Itself(h), "scan_complete">>}
    BY <1>5, <2>2 DEF WaitReturns, Publish
  <2> QED
    BY <2>1, <2>2, <2>3, <2>4, <2>5
<1>6. ASSUME NEW h \in Starter, CloseBroker(h) PROVE BrokerInv'
  BY <1>6 DEF CloseBroker, Goes, jobVars
<1>7. ASSUME NEW h \in Starter, AwaitJobs(h) \/ RunnerExits(h) PROVE BrokerInv'
  BY <1>7 DEF AwaitJobs, RunnerExits, Goes, jobVars, brokerVars
<1>8. CASE ClientStep \/ UNCHANGED vars
  BY <1>8 DEF ClientStep, PollComplete, GetResults, vars, jobVars, brokerVars, runVars
<1>9. ASSUME NEW h \in Starter, NEW f \in Fields, StoreField(h, f) PROVE BrokerInv'
  BY <1>9 DEF StoreField, jobVars, brokerVars
<1> HIDE DEF IInv, TypeOK, BrokerInv, Storing, After1
<1> QED
  BY <1>1, <1>2, <1>3, <1>4, <1>5, <1>6, <1>7, <1>8, <1>9, Expanded
     DEF Next, Ask, RunnerStep, JobsOf, Finished

-----------------------------------------------------------------------------
(* What a session that completed in order holds: the merged outcome of     *)
(* every job.                                                              *)

LEMMA WholeWhenComplete ==
  ASSUME IInv, state = "complete", Orderly
  PROVE  /\ tokenResult = Ended("rows")
         /\ errors = Ended("err")
         /\ completedAt
         /\ MetricsWhole(metrics)
         /\ \A j \in Job : pc[j] \in {"absent", "skipped", "merged"}
         /\ \A h \in Starter : unstored[h] = {} \/ ~ Storing(h)
         /\ \A h \in Starter : Storing(h) \/ runner[h] \in {"idle", "refused"}
<1>1. PICK h \in Starter : Storing(h) /\ unstored[h] = {}
  BY DEF IInv, StoreInv, Orderly
<1>2. \A g \in Starter : g # h => runner[g] \in {"idle", "refused"}
  BY <1>1 DEF IInv, TypeOK, RunnerInv, Storing, Orderly
<1>3. tokenResult = Mine(h, findings) /\ errors = Mine(h, errs) /\ completedAt
  BY <1>1 DEF IInv, StoreInv, Orderly
<1>4. \A j \in Job : /\ pc[j] \in {"absent", "skipped", "merged"}
                     /\ j[1] # h => pc[j] = "absent"
  BY <1>1, <1>2, JobParts
     DEF IInv, JobInv, RunnerInv, Waiting, Storing, Settled, JobsOf
<1>5. \A j \in Job : /\ findings[j] = IF outcome[j] = "rows" THEN 1 ELSE 0
                     /\ errs[j] = IF outcome[j] = "err" THEN 1 ELSE 0
                     /\ j[1] # h => outcome[j] = "none"
  BY <1>4 DEF IInv, JobInv, Before1
<1>6. Mine(h, findings) = Ended("rows") /\ Mine(h, errs) = Ended("err")
  BY <1>5 DEF Mine, Ended
<1>7. MetricsWhole(metrics)
  <2>1. \A j \in Job : outcome[j] = "rows" => pc[j] \in After1
    BY <1>4 DEF IInv, JobInv, Before1, After1
  <2>2. reported \subseteq Job
    BY DEF IInv, TypeOK
  <2> QED
    BY <2>1, <2>2 DEF IInv, MetricsInv, MetricsWhole
<1> QED
  BY <1>1, <1>2, <1>3, <1>4, <1>6, <1>7 DEF Storing

(* While the complete state of an orderly scan is on show, nothing that    *)
(* the client is told changes.                                             *)
LEMMA CompleteStays ==
  ASSUME IInv, [Next]_vars, state = "complete", Orderly
  PROVE  UNCHANGED <<sessionVars, metrics, outcome, reported>>
<1>1. \A j \in Job : ~ JobStep(j) /\ ~ Launch(j)
  BY WholeWhenComplete DEF JobStep, OwnStep, Begin, ScanReturns, ReportOutcome,
     AttachResults, Leave, Merge, Launch, Goto
<1>2. \A h \in Starter : /\ \A f \in Fields : ~ StoreField(h, f)
                         /\ \A jobs : ~ Start(h, jobs)
  BY WholeWhenComplete DEF StoreField, Storing, Start, Goes
<1>3. ASSUME NEW h \in Starter, TestState(h)
      PROVE  UNCHANGED <<sessionVars, metrics, outcome, reported>>
  BY <1>3 DEF TestState, jobVars
<1>4. ASSUME NEW h \in Starter,
             AwaitJobs(h) \/ WaitReturns(h) \/ CloseBroker(h) \/ RunnerExits(h)
      PROVE  UNCHANGED <<sessionVars, metrics, outcome, reported>>
  BY <1>4 DEF AwaitJobs, WaitReturns, CloseBroker, RunnerExits, jobVars
<1>5. CASE ClientStep \/ UNCHANGED vars
  BY <1>5 DEF ClientStep, PollComplete, GetResults, jobVars, vars
<1> QED
  BY <1>1, <1>2, <1>3, <1>4, <1>5 DEF Next, Ask, RunnerStep, JobsOf, Finished

LEMMA SeenStep == IInv /\ [Next]_vars => ResultsWhole'
<1> SUFFICES ASSUME IInv, [Next]_vars, client' = "done", Orderly' PROVE ResultsWhole'
  BY DEF ResultsWhole
<1>0. Orderly
  BY StillOrderly DEF IInv, Orderly
<1>1. CASE GetResults
  <2>1. state = "complete"
    BY <1>1 DEF GetResults, IInv, TypeOK
  <2>2. seen' = [tokenResult |-> tokenResult, errors |-> errors,
                 completedAt |-> completedAt, metrics |-> metrics]
          /\ UNCHANGED <<outcome, reported>>
    BY <1>0, <1>1 DEF GetResults, jobVars
  <2> QED
    BY <1>0, <2>1, <2>2, WholeWhenComplete DEF ResultsWhole, Ended, MetricsWhole
<1>2. CASE ~ GetResults
  <2>1. client = "done" /\ seen' = seen
    BY <1>2 DEF Next, Ask, TestState, Start, RunnerStep, Launch, AwaitJobs,
         WaitReturns, CloseBroker, StoreField, RunnerExits, JobStep, OwnStep, Begin,
         ScanReturns, ReportOutcome, AttachResults, Leave, Merge, ClientStep,
         PollComplete, Finished, vars, clientVars
  <2>2. state = "complete"
    BY <1>0, <2>1 DEF IInv, StoreInv, Orderly
  <2>3. UNCHANGED <<outcome, reported>>
    BY <1>0, <2>2, CompleteStays
  <2> QED
    BY <1>0, <2>1, <2>3 DEF IInv, ResultsWhole, Ended, MetricsWhole
<1> QED
  BY <1>1, <1>2

LEMMA IInvStep == IInv /\ [Next]_vars => IInv'
  BY TypingStep, JobInvStep, MetricsInvStep, RunnerInvStep, StoreInvStep,
     BrokerInvStep, SeenStep
     DEF IInv

THEOREM Inductive == Spec => []IInv
  BY IInvInit, IInvStep, PTL DEF Spec

-----------------------------------------------------------------------------
(* Whatever the providers return, each job of a run that has a scanner is  *)
(* counted exactly once when Run computes its result, also when two runs   *)
(* share the session.                                                      *)

THEOREM JobsAccounted == Spec => []Accounted
<1>1. IInv => Accounted
  <2> SUFFICES ASSUME IInv, NEW h \in Starter, runner[h] \in {"closing", "storing", "done"},
                      NEW j \in JobsOf(h)
               PROVE  /\ findings[j] + errs[j] = IF j \in RunnableOf(h) THEN 1 ELSE 0
                      /\ findings[j] = 1 => outcome[j] = "rows"
                      /\ errs[j] = 1 => outcome[j] = "err"
    BY DEF Accounted
  <2>1. pc[j] \in {"absent", "skipped", "merged"} /\ j \in Job /\ j[1] = h
    BY DEF IInv, RunnerInv, Settled, JobsOf
  <2>2. pc[j] = "merged" <=> j \in RunnableOf(h)
    BY <2>1 DEF IInv, JobInv, RunnableOf
  <2> QED
    BY <2>1, <2>2 DEF IInv, JobInv, Before1, TypeOK
<1> QED
  BY Inductive, <1>1, PTL

LEMMA RunnableJobs ==
  ASSUME IInv
  PROVE  Runnable \subseteq Job /\ \A j \in Runnable : j \in RunnableOf(j[1])
BY DEF IInv, TypeOK, RunnerInv, Runnable, RunnableOf

(* The events of a scan that has the session for itself all reach its      *)
(* broker before the broker closes.                                        *)

THEOREM EventsComplete == Spec => []NoEventLost
<1>1. IInv => NoEventLost
  <2> SUFFICES ASSUME IInv, ~ raced PROVE NoEventLost
    BY DEF NoEventLost
  <2>1. ASSUME closed, NEW j \in Runnable
        PROVE  /\ <<j, "provider_start">> \in published
               /\ <<j, "provider_complete">> \in published
               /\ <<j, "error">> \in published <=> outcome[j] = "err"
    <3>1. PICK h \in Starter : Storing(h)
      BY <2>1 DEF IInv, BrokerInv
    <3>2. j \in Job /\ j \in RunnableOf(j[1])
      BY RunnableJobs
    <3>3. pc[j] \notin {"absent", "skipped"}
      BY <3>2 DEF IInv, JobInv, RunnableOf
    <3>4. pc[j] = "merged"
      BY <3>1, <3>2, <3>3, UnderWay
    <3> QED
      BY <3>2, <3>4 DEF IInv, BrokerInv, After1
  <2> QED
    BY <2>1 DEF NoEventLost, IInv, BrokerInv
<1> QED
  BY Inductive, <1>1, PTL

(* Unless two handlers found the session created, or the complete state    *)
(* was visible before what it stands for, a client that fetches the        *)
(* results gets all of them.                                               *)

THEOREM ClientSeesWhole == Spec => []ResultsWhole
<1>1. IInv => ResultsWhole
  BY DEF IInv
<1> QED
  BY Inductive, <1>1, PTL

(* In the same case, what a complete session holds never changes again.    *)

THEOREM CompletionIsFinal == Spec => CompleteIsFinal
<1>1. IInv /\ [Next]_vars
        => [state = "complete" /\ Orderly => UNCHANGED <<sessionVars, metrics>>]_vars
  BY CompleteStays
<1> QED
  BY Inductive, <1>1, PTL DEF Spec, CompleteIsFinal

-----------------------------------------------------------------------------
(* A scan implements the contract.  The only steps a client can tell from  *)
(* a stutter are the acceptance of the request, the store of the complete  *)
(* state, and the two in which goroutines meet.                            *)

LEMMA ContractStep == IInv /\ [Next]_vars => [Contract!Next]_(Contract!vars)
<1> SUFFICES ASSUME IInv, [Next]_vars PROVE [Contract!Next]_(Contract!vars)
  OBVIOUS
<1>0. ASSUME \/ \E h \in Starter : \/ AwaitJobs(h) \/ WaitReturns(h)
                                   \/ CloseBroker(h) \/ RunnerExits(h)
             \/ \E j \in Job : JobStep(j) \/ Launch(j)
             \/ ClientStep
             \/ UNCHANGED vars
      PROVE  UNCHANGED <<state, request, raced, early>>
  <2>1. ASSUME NEW h \in Starter,
               AwaitJobs(h) \/ WaitReturns(h) \/ CloseBroker(h) \/ RunnerExits(h)
        PROVE  UNCHANGED <<state, request, raced, early>>
    BY <2>1 DEF AwaitJobs, WaitReturns, CloseBroker, RunnerExits, sessionVars
  <2>2. ASSUME NEW j \in Job, JobStep(j) \/ Launch(j)
        PROVE  UNCHANGED <<state, request, raced, early>>
    BY <2>2 DEF JobStep, OwnStep, Begin, ScanReturns, ReportOutcome, AttachResults,
                Leave, Merge, Launch, sessionVars, runVars
  <2>3. CASE ClientStep \/ UNCHANGED vars
    BY <2>3 DEF ClientStep, PollComplete, GetResults, vars, sessionVars, runVars
  <2> QED
    BY <1>0, <2>1, <2>2, <2>3
<1>1. ASSUME NEW h \in Starter, NEW jobs \in SUBSET JobsOf(h), Start(h, jobs), Orderly
      PROVE Contract!Next
  <2>1. runner[h] = "tested" /\ \A g \in Starter : g # h => runner[g] \in {"idle", "refused"}
    BY <1>1 DEF Start, Goes, IInv, TypeOK, RunnerInv, Orderly
  <2>2. state = "created"
    BY <2>1 DEF IInv, RunnerInv, Waiting
  <2>3. state' = "scanning" /\ Orderly' /\ request' = [request EXCEPT ![h] = jobs]
    BY <1>1 DEF Start, Orderly
  <2>4. Runnable' \subseteq Job
    BY <2>3 DEF IInv, TypeOK, Runnable, RunnableOf, JobsOf
  <2>5. Contract!Start(Runnable')
    BY <1>1, <2>2, <2>3 DEF Contract!Start
  <2> QED
    BY <2>4, <2>5 DEF Contract!Next
<1>2. ASSUME Orderly, ~ Orderly', state \in {"created", "scanning"}
      PROVE  Contract!Next
  <2>1. Contract!Void
    BY <1>2 DEF Contract!Void, Contract!NoResult
  <2> QED
    BY <2>1 DEF Contract!Next
<1>3. ASSUME NEW h \in Starter, StoreField(h, "state"), Orderly, Orderly'
      PROVE  Contract!Next
  <2>1. /\ runner[h] = "storing" /\ "state" \in unstored[h] /\ state' = "complete"
        /\ tokenResult' = tokenResult /\ errors' = errors
        /\ UNCHANGED <<pc, outcome, request>>
    BY <1>3 DEF StoreField, jobVars
  <2>2. unstored[h] = {"state"}
    BY <1>3, <2>1 DEF StoreField, Orderly
  <2>3. tokenResult = Mine(h, findings) /\ errors = Mine(h, errs)
    BY <1>3, <2>1, <2>2 DEF IInv, StoreInv, Storing, Orderly
  <2>4. \A g \in Starter : g # h => runner[g] \in {"idle", "refused"}
    BY <1>3, <2>1 DEF IInv, TypeOK, RunnerInv, Orderly
  <2>5. state = "scanning"
    BY <1>3, <2>1, <2>4 DEF IInv, TypeOK, RunnerInv, Waiting, StoreInv, Storing, Orderly
  <2>6. \A j \in Job : /\ pc[j] \in {"absent", "skipped", "merged"}
                       /\ j[1] # h => pc[j] = "absent"
    BY <2>1, <2>4, JobParts DEF IInv, JobInv, RunnerInv, Waiting, Settled, JobsOf
  <2> DEFINE inError == {j \in Job : outcome[j] = "err"}
  <2>7. \A j \in Job : /\ tokenResult[j] > 0 <=> outcome[j] = "rows"
                       /\ errors[j] > 0 <=> outcome[j] = "err"
    BY <2>3, <2>6 DEF IInv, TypeOK, JobInv, Before1, Mine
  <2>8. Runnable = {j \in Job : outcome[j] # "none"}
    <3>1. \A j \in Job : j \in RunnableOf(j[1]) <=> outcome[j] # "none"
      BY <2>6 DEF IInv, JobInv, Before1, RunnableOf
    <3>2. \A j \in Job : j \in RunnableOf(j[1]) => j \in Runnable
      BY JobParts DEF Runnable
    <3> QED
      BY <3>1, <3>2, RunnableJobs
  <2>9. /\ {j \in Job : tokenResult[j] > 0} = Runnable \ inError
        /\ {j \in Job : errors[j] > 0} = inError
        /\ inError \subseteq Runnable
    BY <2>7, <2>8 DEF IInv, TypeOK
  <2>10. Runnable' = Runnable
    BY <2>1 DEF Runnable, RunnableOf
  <2>11. Contract!Complete(inError)
    BY <1>3, <2>1, <2>5, <2>9, <2>10 DEF Contract!Complete
  <2>12. inError \in SUBSET Job
    OBVIOUS
  <2> HIDE DEF inError
  <2> QED
    BY <2>11, <2>12 DEF Contract!Next, Contract!Complete
<1>4. CASE Orderly /\ state = "complete"
  <2>1. UNCHANGED <<state, tokenResult, errors>>
    BY <1>4, CompleteStays DEF sessionVars
  <2>2. UNCHANGED <<request, raced, early>>
    <3>1. \A h \in Starter :
             /\ \A f \in Fields : ~ StoreField(h, f)
             /\ \A jobs : ~ Start(h, jobs)
      BY <1>4, WholeWhenComplete DEF StoreField, Storing, Start, Goes
    <3>2. ASSUME NEW h \in Starter, TestState(h) PROVE UNCHANGED <<request, raced, early>>
      BY <1>4, <3>2 DEF TestState, IInv, TypeOK
    <3> QED
      BY <1>0, <3>1, <3>2 DEF Next, Ask, RunnerStep, JobsOf, Finished
  <2>3. Orderly' = Orderly /\ Runnable' = Runnable
    BY <2>2 DEF Orderly, Runnable, RunnableOf
  <2>4. UNCHANGED Contract!vars
    BY <2>1, <2>3 DEF Contract!vars
  <2> QED
    BY <2>4
<1>5. CASE ~ Orderly
  <2>1. ~ Orderly'
    BY <1>5, StillOrderly DEF IInv, Orderly
  <2>2. UNCHANGED Contract!vars
    BY <1>5, <2>1 DEF Contract!vars
  <2> QED
    BY <2>2
<1>6. CASE Orderly /\ state # "complete" /\ UNCHANGED <<state, request, raced, early>>
  <2>1. Orderly' = Orderly /\ Runnable' = Runnable
    BY <1>6 DEF Orderly, Runnable, RunnableOf
  <2>2. UNCHANGED Contract!vars
    BY <1>6, <2>1 DEF Contract!vars
  <2> QED
    BY <2>2
<1>7. state # "complete" => state \in {"created", "scanning"}
  BY DEF IInv, TypeOK
<1>8. ASSUME NEW h \in Starter, NEW f \in Fields, StoreField(h, f), f # "state"
      PROVE  UNCHANGED <<state, request, raced, early>>
  BY <1>8 DEF StoreField, IInv, TypeOK
<1>9. ASSUME NEW h \in Starter, TestState(h)
      PROVE  UNCHANGED <<state, request, early>> /\ (raced' \in BOOLEAN)
             /\ (raced' # raced => raced')
  BY <1>9 DEF TestState, sessionVars, IInv, TypeOK
<1>10. ASSUME NEW h \in Starter, TestState(h), Orderly, state # "complete"
       PROVE  [Contract!Next]_(Contract!vars)
  BY <1>2, <1>6, <1>7, <1>9, <1>10 DEF Orderly
<1>11. ASSUME NEW h \in Starter, NEW f \in Fields, StoreField(h, f), Orderly,
              state # "complete"
       PROVE  [Contract!Next]_(Contract!vars)
  BY <1>2, <1>3, <1>6, <1>7, <1>8, <1>11
<1> QED
  BY <1>1, <1>4, <1>5, <1>6, <1>0, <1>10, <1>11, Expanded
     DEF Next, Ask, RunnerStep, JobsOf, Finished

THEOREM ImplementsContract == Spec => ContractSpec
<1>1. Init => Contract!Init
  <2> SUFFICES ASSUME Init PROVE Contract!Init
    OBVIOUS
  <2>1. Orderly /\ Runnable = {} /\ state = "created"
    BY DEF Init, Orderly, Runnable, RunnableOf
  <2> QED
    BY <2>1 DEF Contract!Init, Contract!NoResult
<1>2. IInv /\ [Next]_vars => [Contract!Next]_(Contract!vars)
  BY ContractStep
<1> QED
  BY Inductive, <1>1, <1>2, PTL DEF Spec, ContractSpec, Contract!Spec
=============================================================================
