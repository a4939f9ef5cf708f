--------------------------- MODULE Wizard_proofs ----------------------------
(***************************************************************************)
(* Theorems about how the wizard starts scans and shows their results, for *)
(* any providers, session files and number of scans.                       *)
(***************************************************************************)
EXTENDS Wizard, TLAPS

USE DEF Some, Full

Seen == [findings : SUBSET Finding, imported : SUBSET Provider, selected : SUBSET Provider]

LEMMA TypeInit == Init => TypeOK
<1> SUFFICES ASSUME Init PROVE TypeOK
  OBVIOUS
<1>1. Nothing \in Seen
  BY DEF Nothing, Seen
<1>2. captured \in [Attempt -> Seen]
  BY <1>1 DEF Init
<1>3. error \in 0 .. MaxAttempts
  BY WizardAssumption DEF Init
<1> QED
  BY <1>2, <1>3, WizardAssumption DEF Init, TypeOK, Seen

LEMMA StartScanTyped ==
  ASSUME TypeOK, StartScan
  PROVE  /\ attempt + 1 \in Attempt
         /\ (findings \subseteq Finding /\ live \subseteq Provider /\ aggregates \in 0 .. MaxAttempts)'
         /\ (progress \in {Some, Full} /\ error \in 0 .. MaxAttempts /\ polling \subseteq Attempt)'
         /\ (attempt \in 0 .. MaxAttempts /\ current \in 0 .. MaxAttempts /\ abandoned \subseteq Attempt)'
         /\ captured' \in [Attempt -> Seen]
         /\ request' \in [Attempt -> {"none", "sent", "accepted", "failed"}]
<1> USE WizardAssumption DEF TypeOK, StartScan, ClearScanIntervals
<1>1. attempt + 1 \in Attempt
  BY DEF Attempt
<1>2. captured' \in [Attempt -> Seen]
  <2> DEFINE seen == [findings |-> findings, imported |-> imported, selected |-> selected]
  <2>1. seen \in Seen
    BY DEF Seen
  <2>2. captured \in [Attempt -> Seen] /\ captured' = [captured EXCEPT ![attempt + 1] = seen]
    BY DEF Seen
  <2> QED
    BY <2>1, <2>2
<1>3. error' \in 0 .. MaxAttempts
  OBVIOUS
<1>4. abandoned' \subseteq Attempt
  BY DEF Awaited
<1>5. request' \in [Attempt -> {"none", "sent", "accepted", "failed"}]
  OBVIOUS
<1>6. /\ findings' = {} /\ live' = live /\ aggregates' = 0 /\ progress' = Some /\ polling' = {}
      /\ attempt' = attempt + 1 /\ current' = attempt + 1
  OBVIOUS
<1>7. 0 \in 0 .. MaxAttempts /\ attempt + 1 \in 0 .. MaxAttempts
  BY <1>1 DEF Attempt
<1> QED
  BY <1>1, <1>2, <1>3, <1>4, <1>5, <1>6, <1>7

LEMMA TypeStep == TypeOK /\ [Next]_vars => TypeOK'
<1> SUFFICES ASSUME TypeOK, [Next]_vars PROVE TypeOK'
  OBVIOUS
<1> USE WizardAssumption DEF TypeOK, shown, serverVars, historyVars, ClearScanIntervals
<1>1. ASSUME NEW p \in Provider, ToggleProvider(p) PROVE TypeOK'
  BY <1>1 DEF ToggleProvider
<1>2. CASE StartFromSources \/ RetryScan
  BY <1>2, StartScanTyped DEF StartFromSources, RetryScan, StartScan, Seen
<1>3. CASE ViewResults \/ GoBack \/ ImportIntoSizer
  BY <1>3 DEF ViewResults, GoBack, ImportIntoSizer
<1>4. ASSUME Restart PROVE /\ abandoned' \subseteq Attempt /\ error' \in 0 .. MaxAttempts
                           /\ aggregates' \in 0 .. MaxAttempts /\ current' \in 0 .. MaxAttempts
  <2>1. abandoned' \subseteq Attempt
    BY <1>4 DEF Restart, Awaited
  <2>2. error' \in 0 .. MaxAttempts
    BY <1>4 DEF Restart
  <2>3. aggregates' \in 0 .. MaxAttempts /\ current' \in 0 .. MaxAttempts
    BY <1>4 DEF Restart
  <2> QED
    BY <2>1, <2>2, <2>3
<1>5. CASE StartOver
  BY <1>4, <1>5 DEF StartOver, Restart
<1>6. ASSUME NEW snapshot \in Snapshots, RestoreSession(snapshot) PROVE TypeOK'
  <2>1. findings' \subseteq Finding
    BY <1>6 DEF RestoreSession, Finding
  <2> QED
    BY <1>4, <1>6, <2>1 DEF RestoreSession, Restart
<1>7. ASSUME NEW n \in Attempt, StartAccepted(n) \/ StartFails(n) \/ ServerCompletes(n) PROVE TypeOK'
  <2>1. n \in 0 .. MaxAttempts
    BY DEF Attempt
  <2> QED
    BY <1>7, <2>1 DEF StartAccepted, StartFails, ServerCompletes
<1>8. ASSUME NEW n \in Attempt,
             Tick(n) \/ DeliverPartial(n) \/ DeliverComplete(n) \/ \E s \in Answer : PollFails(n, s)
      PROVE TypeOK'
  <2>1. CASE Tick(n)
    <3>1. underWay' \subseteq Attempt \X Answer
      BY <2>1 DEF Tick, Answer
    <3> QED
      BY <2>1, <3>1 DEF Tick
  <2>2. CASE DeliverPartial(n)
    BY <2>2 DEF DeliverPartial
  <2>3. CASE DeliverComplete(n)
    BY <2>3 DEF DeliverComplete, Answer
  <2>4. CASE \E s \in Answer : PollFails(n, s)
    <3>1. n \in 0 .. MaxAttempts
      BY DEF Attempt
    <3> QED
      BY <2>4, <3>1 DEF PollFails
  <2> QED
    BY <1>8, <2>1, <2>2, <2>3, <2>4
<1>9. ASSUME NEW n \in Attempt, DeliverResults(n) PROVE TypeOK'
  <2>1. /\ captured[n].selected \subseteq Provider /\ captured[n].findings \subseteq Finding
        /\ n \in 0 .. MaxAttempts
    BY DEF Attempt
  <2>2. findings' \subseteq Finding
    BY <1>9, <2>1 DEF DeliverResults, MergeFindings, Finding
  <2> QED
    BY <1>9, <2>1, <2>2 DEF DeliverResults
<1>10. CASE UNCHANGED vars
  BY <1>10 DEF vars
<1> QED
  BY <1>1, <1>2, <1>3, <1>5, <1>6, <1>7, <1>8, <1>9, <1>10 DEF Next, User, StartAnswered

(* Every variable of the wizard keeps its type (Wizard, startScan).        *)
THEOREM TypeCorrect == Spec => []TypeOK
  BY TypeInit, TypeStep, PTL DEF Spec

-----------------------------------------------------------------------------
Pending(n) ==
  request[n] = "sent" \/ n \in polling \/ \E s \in Answer : <<n, s>> \in underWay

(* What can still bring rows is the scan the user waits for, or was left.  *)
Expected == \A n \in Attempt : Pending(n) => n = current \/ n \in abandoned

Inv == TypeOK /\ Expected /\ OneScanShown

LEMMA ExpectedStep == TypeOK /\ Expected /\ [Next]_vars => Expected'
<1> SUFFICES ASSUME TypeOK, Expected, [Next]_vars PROVE Expected'
  OBVIOUS
<1>0. request \in [Attempt -> {"none", "sent", "accepted", "failed"}]
  BY DEF TypeOK
<1> USE <1>0 DEF Expected, Pending, shown, serverVars, historyVars, ClearScanIntervals, Awaited
<1>1. ASSUME NEW p \in Provider, ToggleProvider(p) PROVE Expected'
  BY <1>1 DEF ToggleProvider
<1>2. CASE StartFromSources \/ RetryScan
  <2>1. StartScan
    BY <1>2 DEF StartFromSources, RetryScan
  <2>2. attempt + 1 \in Attempt
    BY <2>1, StartScanTyped
  <2> QED
    BY <2>1, <2>2 DEF StartScan
<1>3. CASE ViewResults \/ GoBack \/ ImportIntoSizer
  BY <1>3 DEF ViewResults, GoBack, ImportIntoSizer
<1>4. CASE StartOver \/ \E snapshot \in Snapshots : RestoreSession(snapshot)
  <2>1. Restart
    BY <1>4 DEF StartOver, RestoreSession
  <2> QED
    BY <2>1 DEF Restart
<1>5. ASSUME NEW n \in Attempt, StartAccepted(n) \/ StartFails(n) \/ ServerCompletes(n) PROVE Expected'
  BY <1>5 DEF StartAccepted, StartFails, ServerCompletes
<1>6. ASSUME NEW n \in Attempt, Tick(n) PROVE Expected'
  BY <1>6 DEF Tick
<1>7. ASSUME NEW n \in Attempt,
             DeliverPartial(n) \/ DeliverResults(n) \/ \E s \in Answer : PollFails(n, s)
      PROVE Expected'
  BY <1>7 DEF DeliverPartial, DeliverResults, PollFails
<1>8. ASSUME NEW n \in Attempt, DeliverComplete(n) PROVE Expected'
  BY <1>8 DEF DeliverComplete, Answer
<1>9. CASE UNCHANGED vars
  BY <1>9 DEF vars
<1> QED
  BY <1>1, <1>2, <1>3, <1>4, <1>5, <1>6, <1>7, <1>8, <1>9 DEF Next, User, StartAnswered

LEMMA ShownStep == Inv /\ [Next]_vars => OneScanShown'
<1> SUFFICES ASSUME Inv, [Next]_vars PROVE OneScanShown'
  OBVIOUS
<1>0. TypeOK /\ Expected /\ OneScanShown
  BY DEF Inv
<1> USE DEF shown, serverVars, historyVars
(* Most steps change nothing that is shown.                                *)
<1>1. ASSUME UNCHANGED <<findings, live, aggregates, captured, current, abandoned>> PROVE OneScanShown'
  BY <1>0, <1>1 DEF OneScanShown
<1>2. ASSUME NEW p \in Provider, ToggleProvider(p) PROVE OneScanShown'
  BY <1>1, <1>2 DEF ToggleProvider
<1>3. CASE StartFromSources \/ RetryScan
  BY <1>3 DEF StartFromSources, RetryScan, StartScan, OneScanShown
<1>4. CASE ViewResults \/ GoBack \/ ImportIntoSizer
  BY <1>1, <1>4 DEF ViewResults, GoBack, ImportIntoSizer
<1>5. CASE StartOver \/ \E snapshot \in Snapshots : RestoreSession(snapshot)
  BY <1>5 DEF StartOver, RestoreSession, Restart, OneScanShown
<1>6. ASSUME NEW n \in Attempt,
             \/ StartAccepted(n) \/ StartFails(n) \/ ServerCompletes(n) \/ Tick(n)
             \/ DeliverPartial(n) \/ DeliverComplete(n) \/ \E s \in Answer : PollFails(n, s)
      PROVE OneScanShown'
  BY <1>1, <1>6
  DEF StartAccepted, StartFails, ServerCompletes, Tick, DeliverPartial, DeliverComplete, PollFails
<1>7. ASSUME NEW n \in Attempt, DeliverResults(n) PROVE OneScanShown'
  <2> DEFINE seen == captured[n]
             kept == {f \in seen.findings : f[1] \in seen.imported \ seen.selected}
  <2>1. /\ findings' = kept \cup (seen.selected \X {n}) /\ live' = seen.selected /\ aggregates' = n
        /\ UNCHANGED <<captured, current, abandoned>>
    BY <1>7 DEF DeliverResults, MergeFindings
  <2>2. n = current \/ n \in abandoned
    BY <1>0, <1>7 DEF Expected, Pending, DeliverResults, Answer
  <2>3. \A f \in kept : f[1] \in seen.imported /\ f[1] \notin seen.selected
    OBVIOUS
  <2>4. \A f \in seen.selected \X {n} : f[1] \in seen.selected /\ f[2] = n
    OBVIOUS
  <2> HIDE DEF kept
  <2>5. {f \in findings' : f[1] \in seen.selected} = seen.selected \X {n}
    BY <2>1, <2>3, <2>4
  <2>6. \A f \in findings' : f[1] \in seen.selected \cup seen.imported
    BY <2>1, <2>3, <2>4
  <2>7. \A f \in findings' : f[1] \in seen.selected => f[2] = n
    BY <2>4, <2>5
  <2> QED
    BY <2>1, <2>2, <2>5, <2>6, <2>7 DEF OneScanShown
<1>8. CASE UNCHANGED vars
  BY <1>1, <1>8 DEF vars
<1> QED
  BY <1>2, <1>3, <1>4, <1>5, <1>6, <1>7, <1>8 DEF Next, User, StartAnswered

(* In whatever order requests are answered while the user goes back,       *)
(* retries, restarts or loads a session, one scan is shown (startScan,     *)
(* mergeFindings).                                                         *)
THEOREM OneScanIsShown == Spec => []OneScanShown
<1>1. Init => Inv
  BY TypeInit DEF Init, Inv, Expected, Pending, OneScanShown
<1>2. Inv /\ [Next]_vars => Inv'
  BY TypeStep, ExpectedStep, ShownStep DEF Inv
<1>3. Inv => OneScanShown
  BY DEF Inv
<1> QED
  BY <1>1, <1>2, <1>3, PTL DEF Spec
=============================================================================
