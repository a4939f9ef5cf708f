# TLA+ models of the Universal DDI Token calculator

The program is one Go binary with an embedded React frontend. A browser on the same machine
validates credentials, starts a scan, polls its progress and shows the DDI objects, active IP
addresses and managed assets it found as management tokens; the user plans a migration of servers on
top of that, fills the sizer from it, and saves or exports either. This directory holds models of
the parts that run concurrently, must survive a failure, or keep state that several pages and
computations have to agree on; the TLC runs that check them on small instances; and the proofs that
hold for every instance. Source paths are those of the repository. `PROJECT.json` maps each
definition to the lines it stands for and lists the hazards, each at its line.

1. The system 2. Modules 3. Runs 4. Proofs 5. Disagreements 6. Not modelled

## 1. The system

`F` stands for `frontend/src/app/components`.

| component (source) | state | operations | interacts with | correct when |
|---|---|---|---|---|
| event broker (`internal/broker`) | clients, closed | Subscribe, Unsubscribe, Publish, Close | orchestrator publishes, subscribers read | never panics, never waits for a reader, keeps the order of each publisher, ends every stream |
| scan of a session (`internal/orchestrator`, goroutine in `server/scan.go`) | findings, errors, progress, attached metrics | Run, runProvider, publish handler, attach | scanners, broker, session | each provider request of a run is in its result once; unless goroutines met on unsynchronised fields, no event is lost and no client sees half a result |
| sessions (`internal/session`, `server/validate.go`, `server/scan.go`) | sessions with state, credentials, results | New, Get, CloneSession, storeCredentials, start, complete; the cookie expires | concurrent handlers, scan | a scan uses what was validated; clones do not disturb each other |
| scanners shared by all sessions (`main.go`, `scanner/nios`, `scanner/ad`) | metrics, features, flags, connection | Scan, getters | orchestrators of all sessions | a session shows its own results |
| checkpoint and unit fan-out (`internal/checkpoint`, `cloudutil/semaphore.go`, `aws`, `azure`, `gcp`) | checkpoint in memory and on disk, semaphore | Load, New, AddUnit, Delete, Acquire, Release | file system, provider APIs | an interrupted scan resumes, rows count once |
| upload tokens (`server/scan.go`) | maps from token to temporary file | upload, consume, cleanup loop | start of a scan | a token is used once, nothing is leaked |
| self update (`server/update.go`, `F/use-backend.ts`) | executable, backup, downloads, process | check, download, rename, restore, restart, poll | GitHub, file system, pages | a copy of the program is left, the page does not wait for ever |
| pages before a scan (`F/wizard.tsx`, `server/validate.go`) | providers, credentials, forests, sources, exclusions; the memoized request | toggle, validate, upload, edit, select, start | session, orchestrator | what is shown as verified and selected is what is scanned |
| scan and polling (`F/wizard.tsx`) | step, findings, aggregates, intervals | start, retry, poll, back, restart, load | API | what is shown is of one scan |
| results (`F/wizard.tsx`, `results/*`, `nios-calc.ts`, `session-io.ts`) | findings, edits, maps, growth, files | edit, plan, save, load, export | scan, exporter, sizer | every screen and file has the same numbers |
| resource savings (`F/resource-savings.ts`, `calculator/vnios_specs.go`) | none | lookup, savings of a member and a fleet | results, exporter | both implementations agree |
| workbook (`internal/exporter`, `internal/calculator`) | none | one sheet after another | session, page | its numbers are those of the page |
| sizer document (`F/sizer/sizer-state.ts`, `sizer-import.ts`, `sizer-derive.ts`, `sizer-validate.ts`, steps 1 to 3) | regions, countries, cities, sites, members, service points; overrides; copy in sessionStorage; timers | the actions of the reducer, import, derive, save, load | findings of a scan | nothing typed is lost, derived numbers are current |
| sizer settings and report (`F/sizer/sizer-calc.ts`, step 4, `sizer-step-results.tsx`, exports) | growth, modules, logging, security | toggles, sliders, auto-fill | the document | what is shown is what is calculated |
| HTTP API (`server/server.go`, `scan.go`, `export.go`, `health.go`) | none of its own | handlers | all of the above | what it reports is the session's state |
| login flows (`server/validate.go`) | device codes, browser logins | start, poll, callback | identity providers | a flow ends once |
| retry (`internal/cloudutil/retry.go`), counting (`internal/scanner/*`) | local accumulators | list calls, parsing | provider APIs | each object is counted once |

What is hard about it, and what the properties are for:

- handlers test `Session.State` and act on it later without a lock, and the goroutine of a scan
  publishes its outcome with unsynchronised stores while a client polls;
- providers, units, uploads and updates fail one by one, between steps that belong together;
- scanners that keep results in their own fields serve the scans of all sessions;
- a process may end while a checkpoint is saved or the executable replaced, and a tab before the
  sizer is saved;
- the frontend has timers, answers under way and memoized callbacks that outlive the state they were
  made in;
- the same number is computed in several places (cards, banner, document, workbook; page and
  server; preview and report), each with its own rounding, growth and edits;
- most state of the results page has no scan it belongs to, and stays when the scan is replaced.

## 2. Modules

| module | models | state and actions against the code |
|---|---|---|
| `ScanContract` | what a scan promises its client | start, publish the whole result; void once goroutines met on unsynchronised fields |
| `ScanRun` | the scans of one session | `Session` fields, fields of the scanners, accumulators of each `Run`, broker; `TestState` and `Start` of each handler (HandleStartScan), `Launch`, `AwaitJobs`, `WaitReturns`, `CloseBroker` (Run), `Begin`, `ScanReturns`, `ReportOutcome`, `AttachResults`, `Leave`, `Merge` (runProvider and the goroutine around it), `StoreField`, `PollComplete` and `GetResults` (the client) |
| `SessionStore` | handlers that choose, fill, clone and start sessions | store, credential pointers, `ADForests`, cookie; `Validate`, `ChooseSession`, `StoreCredentials`, `LoadForests`/`GrowForests`/`StoreForest`/`PanicOnForest`, `CheckState`/`LaunchScan`, `Clone`, `ExpireCookie` |
| `SharedScanners` | fields of the NIOS, WAPI and AD scanners | the stores of each `Scan`, `attachNiosResults`, `attachADResults` |
| `Broker` | `internal/broker` | the four operations, Publish one channel send at a time |
| `CheckpointFile` | what a checkpoint promises | begin, add, interrupted, end |
| `CheckpointScan` | the fan-out of three cloud scanners | `Start` (Load, New), `Acquire`, `Skip`, `ScanFails`, `ScanReturns`, `Open`/`Write`/`Rename`/`SaveFails` (AddUnit, atomicSave), `Finish` (Delete), `Interrupt` |
| `UploadTokens` | uploads, tokens and temporary files | `Receive`, `Refuse`, `Register`, `RequestScan`, `Resolve`, `Launch`, `EndScan`, and the cleanup loop entry by entry (`Tick`, `Visit`, `RemoveFile`, `DeleteEntry`, `EndRange`) |
| `SelfUpdate` | update and restart | HandleSelfUpdate rename by rename, HandleRestart, the process it starts, pages that check, apply, restart and poll; `Crash`, `Relaunch` |
| `Setup` | the pages before a scan | `selectedProviders`, `credentialStatus`, `selectedAuthMethod`, `subscriptions`, `selectionMode`, `niosUploadedFile`, `backupToken`, `adForests`, what `startScan` was memoized with; validations under way; the session of the cookie and what the server stored in it; `ExpireCookie`, `Restart` |
| `Wizard` | scans as the wizard drives and shows them | `currentStep`, `findings`, `importedProviders`, `liveScannedProviders`, `backendTokenAggregates`, running intervals, what each call of `startScan` captured, answers under way |
| `TokenTiers` | sizes of servers and the one that covers a load | pure; `shared/token-tiers.ts`, `nios-calc.ts` |
| `ResultsTokens` | management tokens, NIOS licences, consolidation | pure; `mock-data.ts`, `nios-calc.ts`, `wizard.tsx`, planner |
| `ResourceSavings` | vCPUs and memory saved, as the pages compute it | pure; tables included |
| `VNIOSSpecs` | the same, as the server computes it | pure; tables included |
| `Workbook` | the workbook of a session, sheet by sheet | pure; `Calculate`, the sheets, `Build` |
| `Results` | the results page and session files | findings, `countOverrides`, aggregates, metrics, maps, `serverMetricOverrides`, growth buffers, `variantOverrides`, `backendScanId`; the edits, `StartFromSources`, `ScanCompletes`, `SaveSession`, `LoadSession`, `StartOver`; the banner and cards, the bars of sources and servers, both calculators, the member cards, the bill of materials, the documents and the downloaded workbook as operators |
| `SizerCalc` | derivation from users, growth | pure; `sizer-derive.ts`, `sizer-calc.ts` |
| `SizerTree` | the document and the reducer | pure functions of a document |
| `SizerImport`, `SizerValidate` | import of a scan and its merge, validator | pure functions of a document |
| `Sizer` | the sizer as its user drives it | live document, stored copy, the two timers, what is mounted; every action the pages dispatch, `Import`, `StartOver`, `Reload`, `Crash` |
| `SizerReportCalc` | tokens, breakdowns, bill and sheets of the report | pure; with the products of doubles that round up one too far |
| `SizerReport` | step 4 and the report | settings, security, open sections, badges; toggles, sliders, auto-fill, edits in the report |
| `MC…` | instances whose values a cfg cannot write | |
| `Sums` | lemmas about sums over finite sets, used by the next two | |
| `Results_proofs` | theorems about `Results` and the tables under it | |
| `Sizer_proofs` | theorems about `Sizer` and `SizerReport` | |
| `Server_proofs` | theorems about `UploadTokens`, `SessionStore`, `SharedScanners` and `Broker` | |
| `Disk_proofs` | theorems about `CheckpointScan` and `SelfUpdate` | |
| other `…_proofs` | theorems about the module of that name | |

Composition. `ScanRun` has session, orchestrator, broker as far as the scan uses it, and client in one
module; `Setup` has the pages and what the server stores of their requests; `Results` extends
`Workbook`, which extends `ResourceSavings`, `ResultsTokens` and `TokenTiers` and instances
`VNIOSSpecs`, so that page and server are computed from the same scan and compared. `Sizer` extends
the reducer, the import and the validator. `ScanRun` implements `ScanContract` and `CheckpointScan`
implements `CheckpointFile` by refinement mappings, checked by TLC and proved.

Abstractions. Rows of a scan are represented by the request, unit or job they come from in the
server modules, and by a record of category, count and rate in `Results`. Credentials are represented
by the validation, or the edition, that produced them. Names in the sizer are model values that
compare as the importer compares them; ids are numbers. The memory of an appliance is in quarters of
a gigabyte, percentages are integers. Messages, formatting, progress percentages and calls to
providers are left out: a call succeeds or fails.

Operators whose comment begins with *Slip* are variants of a definition with a plausible mistake.
No specification uses them; they show that a property fails when the code is wrong.

### Data races

Go gives no meaning to unsynchronised stores and loads, so the models choose.

- The final stores of a scan become visible to the status and results handlers in any order, as for
  goroutines on arm64, which a release is built for. A run that shows its complete state before
  another field is marked (`early`), and what a client then reads is not told apart.
- `Session.State` in HandleStartScan: load and store are separate steps in both models that have
  them. Two handlers that found the session created are marked (`raced`).
- `Session.ADForests`: loading the slice, storing a longer one and filling a slot are separate; a slot
  that a shorter slice took away is an index out of range, which ends the request.
- The connection fields of `WAPIScanner`: each store and each load is a step.
- A credential pointer stored by one handler and loaded by a scan is taken to be visible with the
  struct it points to.

## 3. Runs

| run | instance | states | what it shows |
|---|---|---|---|
| `scan` | two start requests; AD with one more forest, a provider without a scanner; jobs that fail, with or without side results, or never return | 191,008 | each job of a run is counted once (`Accounted`); unless goroutines met on unsynchronised fields (`Orderly`), the client sees a whole result (`ResultsWhole`), no event comes after Close (`NoEventLost`), and `ContractSpec`; when providers return the client is served (`ClientServed`) |
| `sessions` | two handlers, two sessions, primary and two additional forests, a cookie that expires at any time | 4,653,519 | a scan uses the credentials stored (`ScanUsesStored`); those told valid since the cookie was set are in its session (`KeptInOneSession`); a clone is isolated (`CloneIsolated`) |
| `broker` | two publishers with two events each, two channels of capacity one | 248,311 | `NoPanic`, `InOrder`; Publish returns whatever readers do (`PublishReturns`), readers that go on see the end (`ReadersEnd`) |
| `checkpoint` | three units, two slots, three scans; units that fail, or return with requests failed unseen | 141,493 | `CountedOnce`, only units whose scan returned are skipped (`SkipsOnlyCompleted`), the file is always a whole save (`FileSpec`), a scan ends (`ScanEnds`) |
| `shared` | two sessions, four kinds of job, one after the other or overlapping | 581,139 | a failed scan attaches nothing (`FailureAttachesNothing`), a session whose scan stored metrics has none older, and its own when scans do not overlap (`OwnResults`) |
| `uploads` | an upload of each kind, two start requests for any tokens, entries that expire at the next tick | 394,077 | a scan that took its token in time keeps its file (`FileThere`), every file has somebody who removes it but the EfficientIP backup a scan took (`Owned`), NIOS files go in the end (`Removed`) |
| `wizard` | two providers, a session file with one of them, two calls of startScan; scans that end or hang | 357,990 | what is shown is of one scan (`OneScanShown`); when the scan comes to an end, intervals do (`PollingStops`) and who waits gets results or an error, unless the bar stood at 100 (`ServedOrError`) |
| `setup` | NIOS by backup or WAPI, AD with two more forests and a discovered server, five changes, among them an expired cookie and a restart | 2,703,792 | but for what was changed while it was validated (`rushed`) the request names the sources on show (`SelectionSent`), and as long as no session was left behind (`fresh`) what is verified can be scanned (`VerifiedReady`) and the server's forests are the page's (`ForestsAsShown`) |
| `results` | two grids and two forests, two scans, two edits, one file | 308,884 | typed counts stay with their rows (`EditsOnTheirRows`); banner, cards and document agree, and what the page says of each source, server and member adds up to its totals (`ScreensAgree`); moving some servers needs no more than all (`HybridWithinTotal`); the workbook has the page's numbers (`WorkbookAgrees`); a file brings back what was saved (`LoadShowsSaved`) |
| `sizer` | two scans, four changes by any page | 306,066 | what is not saved has a save under way (`UnsavedPending`), derived fields and tiers are current (`DerivedCurrent`), an import keeps what is there and may be repeated (`ImportKeeps`) |
| `report` | two documents, four changes | 16,590 | a badge "computed" is true (`AssetsFromTheirSource`), the settings shown are those in use, and so is the caption of the bill but for overheads by category (`SettingsAsShown`), parts cover their totals (`PartsCoverTotals`) |
| `update` | two tabs, two updates, three processes, two polls | 197,630 | after one mishap a copy is left (`CopyKept`), a page does not wait for ever (`RestartEnds`) |

`MCResults` also evaluates two comparisons over all inputs as assumptions: the page's and the
server's savings of a member for every platform, model of either table, configuration and tier, and
the two tier lists at each of their limits and just beyond. Section 4 has both for every load and
every number of objects.

Why these bounds are enough. A race needs two of the actors it is between and one that is not in it:
two publishers and two channels, two handlers, two sessions, three units for two slots. The actions of
one actor do not count the others, they only test whether a field is set, a slot is free or everyone
is done. A resumed scan that is interrupted again is the third one (`MaxScans = 3`). Two credential
structs are enough to replace one under a clone, or to lose one of two forests. An upload of each kind
shows all three removals, and a lifetime of zero (`TTL = 0`) lets every entry expire at any time. The
second call of `startScan` (`MaxAttempts = 2`) meets answers to the first.

- `scan`: two start requests are the smallest race; when both pass, each has one job (`MaxRacing = 1`),
  which is enough for either to store over the other. A run alone has all providers and the forest.
- `setup`: five changes validate two providers and edit, or validate one and two forests out of order,
  or validate, scan, begin again and validate again. Restarts and expiries count as changes.
  `Removable` says that forests are removed: with `TRUE` `ForestsAsShown` fails (section 5).
  `Excludable = TRUE` has exclusions in the run.
- `results`: the second scan is the one that replaces the first; a file saved in between brings the
  first back. Two edits are an edit and one that undoes, or depends on, it. Grids differ in platform
  and model, and in whether a row is of a source that is no server; forests in servers; one pair of
  rows shares its key.
- `sizer`: four changes make a region, a site and its members, or import, edit and import again. One
  clone at a time (`MaxClones = 1`, 50 in the code). `Hasty = FALSE` leaves out further changes
  before the copy is written, which postpone the write and nothing else.
- `report`: four changes reach every pair of toggles with a document before and after. `Above` is
  instantiated with exactly the products of this instance that round up one too far as doubles.
- `update`: two updates overlap; the third process is the one that a restart of a restarted process
  starts. Two polls stand for thirty: the first may be answered by the old process, the last gives up.

Deadlock is checked in `scan`, where the last states are allowed to repeat, in `uploads`, where the
clock and the cleanup loop never stop, in `wizard`, where the user can always load a session or start
over, and in `setup`, where pages can always be turned. In the others a bound on scans, sessions,
events, changes or processes ends a behaviour, so `CHECK_DEADLOCK` is off.

### Fairness

- `ScanRun`: weak fairness of what each job does by itself, of each runner and of the client, which
  polls from an interval timer. Nothing makes a provider answer, as the requests of a WAPI scan have no
  timeout: `ClientServed` is conditional on every scanner returning. Whether a scan is started is the
  user's choice.
- `Broker`: weak fairness of a publisher inside Publish, whose loop never blocks. Readers are only
  assumed to go on in `ReadersEnd`, where the assumption is part of the property.
- `CheckpointScan`: weak fairness of each unit and of the end. It is enough for the semaphore: slots
  go to waiting units, of which there are finitely many, and none asks twice.
- `UploadTokens`: handlers that read an upload end, scans that were started end, the ticker ticks and
  time goes on. Nobody has to start a scan.
- `Wizard`: a request to the local server is answered or fails, and intervals fire. The scan on the
  server need not end: `PollingStops` and `ServedOrError` are conditional on it (`ScanComesToAnEnd`).
  The user need not do anything.
- `SelfUpdate`: the timer of a page that polls fires. Neither the update nor the new process has to
  succeed.

## 4. Proofs

TLAPS proves the following for every value of the constants that the named ASSUMEs allow: any number
of providers, publishers, units, uploads, tabs and so on. Each proof has an inductive invariant
`IInv` (or `…Inv`) that was first checked by TLC, because the property alone is not preserved by a step.

- `ScanRun_proofs`: `TypeCorrect`, `JobsAccounted`, `EventsComplete`, `ClientSeesWhole`,
  `CompletionIsFinal`, `ImplementsContract`, for any number of start requests. The first two hold of every
  scan; `EventsComplete` of one that no other shares, and the last three of one in which goroutines did not
  meet (`Orderly`). The invariant relates the place
  of each goroutine to what it has merged, published and attached, the place of a runner to those of its
  jobs, what has been stored to what was computed, and says that unless requests raced one handler
  at most is past its test: `Accounted` alone says nothing of a job that has reported but not merged.
- `Server_proofs`, of the broker: `BrokerTypeCorrect`, `NeverPanics`, `AlwaysBounded`,
  `NothingAfterEOF`, `StreamsInOrder`. Clients are open channels that were never closed, a publisher
  holding the lock has only clients left to serve, and a reader at the end has an empty closed
  channel. `InOrder` says nothing of what is still to be sent, so its invariant adds that every event
  in a channel was begun by its publisher, in an earlier call than any it has yet to make.
- `Disk_proofs`, of the fan-out: `FanOutTypeCorrect`, `RowsOnce`, `NothingSkipped`, `NoneForgotten`,
  `ImplementsPromise`. One part per concern: what holds at rest, who holds a slot or the mutex, how
  often each unit is counted at each place, that what is in memory, in the file and in the temporary
  file has returned, and what a save in progress has written.
- `Server_proofs`, of uploads: `TypeCorrect`, `ScanHasFile`, `OneScanPerToken`, `FilesAreOwned`.
  Uploads move from handler to map to scan and never back; an entry the loop takes for expired is so
  even when a scan takes it first; the file of an entry is there until the loop removes it, before the
  entry.
- `Server_proofs`, of sessions: `SessionsInductive`, `ScansUseStored`, `CredentialsInOneSession`,
  `ClonesAreIsolated`. The properties compare what pointers lead to when a scan starts, so
  `SessionsInv` says who holds what before: a struct in use holds what it was allocated for
  (`Allocated`); unless requests raced, at most one is about an additional forest, and the slice it
  loaded is the one still there (`ForestsAlone`); what a handler has stored is still a struct
  (`StoredKept`); and until a scan is started all requests have the browser's cookie and its session
  (`OneSession`).
- `Server_proofs`, of shared scanners: `ScannersInductive`, `FailuresAttachNothing`, `ResultsAreOwn`.
  A job is at the places of its scanner, in a session that is running, which scans NIOS from a
  backup or over WAPI (`JobsPlaced`); without overlap one session runs at a time (`OneRuns`). From the
  store of a job on its scanner holds what it or a later job stored, of the same session when scans do not
  overlap (`StoredOwn`, `Connected` for the WAPI target), and so does the session once it is attached
  (`OwnOnceAttached`).
- `Setup_proofs`: `VerifiedIsReady`, `ShownIsSent` and `ForestsInOrder` (no forest removed). A provider
  that was not changed under a validation has at most one under way, which is of the method on show;
  what `startScan` was memoized with agrees with the page in what it declares as dependencies; and as
  long as no session was left behind, that of the cookie is one the pages began with, has no more slots
  than the page has forests, a validation under way names a forest by the place it still has, and a
  forest that is verified has its own slot.
- `Disk_proofs`, of updates: `TypeCorrect`, `CopyIsKept`, `TempsAreOwned`. `CopyKept` is not inductive, as
  a second mishap takes what the first one left: the invariant says that without a mishap one request at
  most is between the removal of the old backup and the end of the renames, and has its backup; that
  with one mishap a single request has moved the executable away and has its download whole, or
  ended and left a copy; and that a request past its download has it whole.
- `Wizard_proofs`: `TypeCorrect`, `OneScanIsShown`. A call that can still bring rows (asked for,
  polled, or with an answer under way) is the one the user waits for or one that was left
  (`Expected`): `OneScanShown` says nothing of answers before they arrive.
- `Results_proofs`: `EditsStay`. The rows of a provider are of one scan and its edits of that scan, on
  show, in the session file, and in what the scan under way was started with; while it is under way,
  only edits of loaded providers it does not scan are left.
- `Results_proofs`, of the numbers: `FilesBringBack`, `MovingFits`, `ScreensStayEqual`. For the first,
  all that is on show is a function of the fields a file has (`PageShows`), and `FileShows` says that
  what the file was saved with is that function of them. The other two follow from one invariant,
  `NumbersInv`: what the wizard, the scan it waits for and its file hold are finite sets of rows with
  counts and of servers with names of their own. Their substance is arithmetic of sums over a set. The
  library adds up a set by a recursive function that takes one member away after the other; module
  `Sums` proves that it does not matter which (`SummingAny`), by the least size at which it would, and
  from there that a sum may be taken by groups (`SumByGroup`), under other names
  (`SumRenamed`), and grows with its set and its addends (`SumGrows`). So the bars of servers,
  grouped by provider, are the total (`ServerBarsAgree`); those of a category are no less than its
  total, as each row is rounded up on its own (`CeilOfParts`, `CategoryBarsReach`); and servers that
  move need no more tokens than all of them (`MovingWithinNeeded`). The assumptions: a scan returns
  finite sets of rows with a count and a positive rate, which outside NIOS is the rate of their
  category (every other scanner uses the three constants of the calculator; a grid has its own), and of
  servers with different names, where controllers have the role the page gives them
  (`OutcomesAssumption`), so that none is taken for a master without workload; so are the samples (`InputsAssumption`); and there are finitely many
  providers (`ProvidersAssumption`).
- `Results_proofs`, of the workbook: `WorkbooksAgree`, from `NumbersInv` and `SessionInv`: the
  aggregates of the backend are those of the session's rows, and there are none while a scan is asked
  for or polled; the session's rows and servers are well formed, at the rates of their categories. What
  is left is that page and server compute the same from one set of rows and servers, though each has
  tables and code of its own. The tables of appliances are compared row by row
  (`X5VMwareRows` and its like), so that a lookup by platform and model finds the same size in both
  (`RowsAgreeOn`), and the savings of a member agree for either target (`MemberSavingsAgree`); those of
  a fleet follow, as the page subtracts sums where the server adds differences (`FleetsAgree`). The tier
  lists give the same size at any load (`TiersAgree`). The sums of the sheets are over rows of a sheet,
  those of the page over servers, told apart by their names (`ServersAsScanned`); and as all rows of a
  category have one rate, dividing their sum once is what both sides do (`OneRate`).
- `Sizer_proofs`, of the document: `SizerInductive`, `SavesPending`, `DerivedStaysCurrent`,
  `ImportsKeep`.
  `SizerInv` adds to the two properties that the live document and the stored one are well formed
  (`DocOK`: every country, city and site is in a node that is there, and a site is told from the
  others by its id and city, as an import may put one site under several regions with its key), that
  ids have a largest one, so that those a new node gets are new (`LeastNumber`, `LastNumber`,
  `FreeIds`), and that a form is open only on step 2, for a region that is there (`PaneOK`).
  `DerivedCurrent` is proved in two parts. For the form (`FormCurrent`): a change keeps every derived
  field of a site or marks it as the user's (`FormKept`), and what the derivation is given is among
  the dependencies of its effect, so that either nothing it yields has changed or its timer is set
  (`SameDeps`, `FormStep`). For the tiers (`TiersCurrent`): every commit while step 3 is on show
  passes through its rows, and the tier they pick is the smallest that covers the load
  (`SmallestCovers`). For `UnsavedPending` the step to look at is the import, which writes the merged
  copy without the timer: if the merge into the live document changed nothing, it was equal to the
  stored one before and is again (`Landed`, `ImportStep`). For `ImportKeeps`: a merge appends regions
  whose key is new with what is in them, and puts the first site of each new name under every region
  with its key (`MergeKeeps`), the last of which is where the next import looks for names
  (`NamesAreKnown`); what an import brings is told by keys and names and not by its ids (`Brought`), so
  the next one finds all of it there (`MergedAgain`). The assumptions: a scan has sequences of groups
  and members (`ScansAssumption`), the bound on clones is a number, and, for `ImportKeeps` alone, groups
  with one key have sites of one name (`NamesAssumption`: `importCloud` forms both names from the
  shortened account and the cloud region). Without the last one two regions with one key would be
  appended, of which only the last would be searched the next time.
- `Sizer_proofs`, of the report: `ReportInductive`, `SettingsShown`, `AssetsKeepTheirSource`. A
  switch of the advanced overheads is stored in the settings and in the user interface, and no toggle
  is both on and off (`Agree`): `SettingsAsShown` compares percentages and would not survive the
  next use of the switch without it.
- `Sizer_proofs`, of the numbers of the report: `ReportNumbers`, `PartsAddUp`. The invariant, `Numbers`,
  is that what the report computes with are numbers: ids tell sites, members and service points apart,
  a site stands for at least one, and what is typed, derived or toggled is a natural number or was never
  given. From there each part is no less than its share of the total: rounding up part by part loses
  nothing, growth is monotonic, and a product that rounds up one too far as a double adds at most one
  token. The assumptions: the documents have that form (`DocumentsAssumption`: a form takes no
  multiplier below one, `sizer-step-sites.tsx:417`; lease times that are zero or do not divide 18 are
  outside the model), what is typed is a natural number (`TypedAssumption`), and a growth of nothing is
  not among the products that round up too far, as multiplying by one is exact (`AboveAssumption`).

Names of variables and specifications carry their component (`storeVars`, `brokerSpec`, ...) where one
proof module extends several components, so that the theorems are about the modules themselves and
not about instances of them.

Every invariant and every action property of the runs is a theorem. Only model-checked is liveness,
which is out of the prover's reach together with fairness and ENABLED: `ClientServed`,
`PublishReturns`, `ReadersEnd`, `ScanEnds`, `Removed`, `PollingStops`, `ServedOrError`, `RestartEnds`. So is
what a fold over a sequence computes for every sequence, such as the instances that XaaS members are
consolidated into: no theorem depends on more than that none are made for no members.

## 5. Disagreements met while modelling

The models have what the code does in all of these; the properties are stated so that they hold, and
say in their comments what they leave out. A violation of the stronger form is easily reproduced by
the change given in brackets.

Server.

1. Two start requests may both find a session created (`server/scan.go:124`) before either stores the
   scanning state; the comment at 129-130 promises the second one a 409. Two runs then share the
   session and its broker, and the second completion replaces the result of the first. The properties
   of `ScanRun` but `Accounted` and `ClientServed` except it (`raced`). [Without `raced` in `Orderly`
   `ContractSpec` fails.]
2. Results may be read before they are visible (`server/scan.go:141-145` against the comment of
   `Session.TokenResult`, "read only after State == ScanStateComplete"). [Without `early` in `Orderly`
   `ResultsWhole` fails.]
3. A resumed scan saves into an empty checkpoint (`aws/scanner.go:160`) and so forgets what the
   interrupted one had completed, although the package promises to resume "without re-scanning
   completed units". The checkpoint is deleted after a scan some of whose units failed, where a comment
   says "clean up on full success". GCP saves every project, where a comment says "after each successful
   project" (`gcp/scanner.go:421`): what its requests returned is not looked at, and Azure swallows
   errors inside a subscription in the same way, so that a unit that could not be read is skipped by
   the resumed scan. [With only `whole` units in `returned`
   `SkipsOnlyCompleted` fails.]
4. Migration flags of an earlier backup are attached to later sessions (`nios/scanner.go:249`), and so are
   the metrics of an AD scan that failed after it stored them (`ad/scanner.go:408-415`) when the next
   one stores none; two WAPI scans overwrite each other's URL and account (`wapi.go:112`), although
   scanners "must be safe for concurrent use" (`provider.go:85`); two forests share the progress entry
   of their provider, and its one field of metrics (`orchestrator.go:290-299`): only the domain controllers
   of the forest that was attached last remain, or, as the scanner is shared, those of a forest that
   failed. `ResultsWhole` asks for no more.
5. `CloneSession` leaves out `ADForests`: a scan of a clone has no additional forests.
6. Tokens of EfficientIP backups never expire. When one is used its file stays for ever:
   `toOrchestratorProviders` (`scan.go:790-797`) takes the token without setting the mode, so that the
   live scanner is chosen (`orchestrator.go:163`) and not the `BackupScanner`, whose comment says that
   the file "is removed after scanning via defer". `Owned` has these files as its exception.
7. Overlapping updates: the second removes the backup of the first; a restart from another tab may end
   a handler between its renames, after which there is no executable at its place. `CopyKept` allows
   one such mishap. Downloads of processes that ended stay. On Windows `syscall.Exec` always fails, so
   a restart only ends the process. The page gives up after two minutes while the handler goes on.
8. The page polls "until the new process is up" (`use-backend.ts:80`), but the first poll may be
   answered by the old process, and the page is loaded again from it.
9. Requests of a WAPI scan have no timeout (`wapi.go:70-81`) and the context of a scan is never
   cancelled (`scan.go:139`): with a grid that hangs the scan runs and the page polls for ever.
10. The cookie expires an hour after the validation that set it and is not renewed by later ones
    (`validate.go:179-199`), though the comment there says that credentials of providers validated before
    are preserved: a validation after that makes a new session without them.
11. The only subscribers of the broker are in tests: the page polls.

Pages before a scan.

12. Members that are excluded are scanned: the list of members sent for a grid is that of the checked
    sources (`wizard.tsx:1223-1226`), also when they are exclusions; with none checked all are.
13. An answer marks the provider, not the method or the credentials it was asked for: what was edited,
    switched or removed in the meantime is shown as verified. Credentials stay verified while they are
    edited. A file dropped while another is parsed takes its place on the page but not its token; the
    token of a removed file stays. [Without `rushed` `VerifiedReady` fails.]
14. A session a scan was started with takes no more credentials: the next validation makes a new, empty
    one (`validate.go:179-204`) while the page goes on showing what was verified before. Going back from
    the scan and starting again is refused with 409, or, after another validation, scans without the
    other providers' credentials; forests go to a list with blank entries for the earlier ones. An
    expired cookie does the same. [Without `fresh` `VerifiedReady` and `ForestsAsShown` fail.]
    Removing a forest shifts the ones behind it, and the server keeps the old places. The sources
    chosen for the additional forests are ignored by the server. Servers that discovery adds are not
    scanned.
15. `startScan` does not declare the forests and the QPS upload as dependencies (`wizard.tsx:1324`):
    unless something it declares changes later, they are sent as they were in an earlier render.
16. `startScan` empties the findings before its request is answered: when it fails, the rows of a
    loaded session are lost to a retry. The upload token of a failed attempt is used up.
17. The error of an attempt and the button to retry are rendered while the progress is below 100
    (`wizard.tsx:3845-3918`). When the results cannot be fetched after the last poll the page says "Scan
    Complete" and leads on to results that are not there. [Without `ErrorUnseen` `ServedOrError` fails.]

Results.

18. Aggregates of the backend leave out loaded rows and use native rates for grids. `variantOverrides`
    are said to reset on a new scan (`wizard.tsx:543`), and only Start over and loading a file reset them;
    `backendScanId` is said to be null for a loaded session (546-549) and stays, so a download gives the workbook of another scan, or, while a scan
    runs, the JSON of its 202 answer as a workbook file. A stale configuration past the end of the list
    makes the savings card fail to render, while the totals use the default.
19. The workbook ignores targets in XaaS, typed loads and selections; it grows each row's count by a
    fixed 20 % before dividing in its scenario sheet, where the page grows the tokens after; its grand
    total is the largest category and the page's their sum. A member without a platform is physical to
    the page and an unknown model to the workbook. Its hybrid row for controllers is the first half of
    them. `WorkbookAgrees` excludes these by its conditions.
20. Edits of AD servers, the AD map and the grid's features survive Start over; the growth buffer of
    servers is not in a session file; keys of rows leave out the region. Without a selection the
    exported table lists the members that rows come from, while its total counts all. When the only
    source selected is no server, the calculator and the cards are of all members
    (`results-migration-planner.tsx:836`) while the hybrid card has no server tokens.
    The button that resets all typed loads is on the member calculator only and clears those of
    controllers with them. The bars of servers price a controller on XaaS as NIOS-X
    (`results-surface.tsx:712-716`), which `ServerBars` keeps and `BreakdownsAgree` compares only where
    no controller is on XaaS. The cards of the five largest rows choose by edited rows whether to show
    and list unedited ones (927-938). The counts of knowledge workers, computers and static addresses
    of the AD planner ask for provider `ad`, and the page's is `microsoft` (1449, 1481-1483): always 0.
21. The consolidation that says "fewest possible" is next-fit. Samples stand in for a grid that
    reported no members, also in live mode.

Sizer.

22. The banner of the validator offers places that name no node, and its dismissals are not undone;
    members whose site is gone are not reported. An edit in the report is not an override, so that the
    next derivation replaces it; tiers are chosen only while step 3 is shown. The import dialog counts
    from the stored copy while the import is merged with the live document.
23. The destination "CSP" is shown as turned on by default (`section-modules.tsx:80`) but is not
    counted until it has been touched (`sizer-derive.ts:183`). Module toggles only dim rows. Enabling
    the security section while it is open fills nothing in; reopening it replaces zeros the user typed.
    The caption of the bill gives the growth for all categories as its buffer (`sizer-derive.ts:213-214`,
    `results-bom.tsx:297-302`), also where the tokens above it grew by an overhead of their own category.
    [Without the condition on the advanced mode `SettingsAsShown` fails.]
24. `100 * 1.1` rounds up to 111: `PartsCoverTotals` allows one token in each product. The CSV of the
    sizer adds growth to totals that already have it. A typed name may look like one made for
    duplicates (`sizer-derive.ts:376`), and then two members share a name in the plan.

## 6. Not modelled

- Conversations with providers: login flows, paging, retries and backoff, WinRM and WAPI, the parsing
  of backups. They are sequential reads of something outside the repository; when they answer, and
  what is done with the answer, is in `Setup`, `SessionStore`, `ScanRun` and `CheckpointScan`.
- Tables of supported resources, record types and prices, but for the appliances and tiers.
- Counters of the publish handler that goroutines increment without a lock: what they lose is a
  percentage on the screen.
- The legacy estimator, whose inputs come only from defaults and old files; demo mode; vendored
  widgets, charts, layout and wording; the errors and migration sheets of the workbook; the CSV of
  the sizer.
