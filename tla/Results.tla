------------------------------ MODULE Results -------------------------------
(***************************************************************************)
(* The results of the wizard: the rows and servers of a scan, what the     *)
(* user edits and plans on top of them, what is shown of it, and the files *)
(* it is saved to and loaded from (wizard.tsx, results-surface.tsx,        *)
(* results-migration-planner.tsx, session-io.ts).                          *)
(*                                                                         *)
(* A scan keeps the rows of loaded providers it did not scan, and the      *)
(* edits of those rows.  Maps, metrics and edits of servers have no scan   *)
(* they belong to: they stay until something replaces them.  Answers of    *)
(* scans the user has left are the subject of Wizard; here a scan that was *)
(* asked for is waited for, and the session of one that the user left is   *)
(* not followed to its end.                                                *)
(***************************************************************************)
EXTENDS Workbook

CONSTANTS
  Providers,   \* the providers to choose from
  Outcomes,    \* for each provider the results its scan may have: rows and servers
  Samples,     \* the NIOS members shown while there are no others
  Counts,      \* counts the user types, of a row or of a server
  Typed,       \* the fields of a server among "qps", "lps", "objects" that the user edits
  Buffers,     \* growth buffers the user types, in percent
  MaxScans,    \* scans in all
  MaxEdits     \* edits in all

(* The providers with servers to migrate. *)
Planned == {"nios", "microsoft"}

(* Rows have a count and a rate, that of their category but for rows of a  *)
(* grid; servers have names of their own.  The page gives domain           *)
(* controllers a role that no member of a grid has.                        *)
AreRows(rows) ==
  /\ IsFiniteSet(rows)
  /\ \A f \in rows : {"count", "rate"} \subseteq DOMAIN f /\ f.count \in Nat /\ f.rate \in Nat \ {0}
AreServers(p, members) ==
  /\ IsFiniteSet(members) /\ \A m, n \in members : m.name = n.name => m = n
  /\ p = "microsoft" => \A m \in members : m.role = "DC"

ASSUME ProvidersAssumption == IsFiniteSet(Providers) /\ Planned \subseteq Providers
ASSUME OutcomesAssumption ==
  \A p \in Providers : \A outcome \in Outcomes[p] :
    /\ AreRows(outcome.rows) /\ \A f \in outcome.rows : f.provider = p
    /\ p # "nios" => \A f \in outcome.rows : f.category \in Categories /\ f.rate = TokenRates[f.category]
    /\ AreServers(p, outcome.servers)
ASSUME InputsAssumption == AreServers("nios", Samples) /\ Counts \subseteq Nat

VARIABLES
  page,            \* currentStep: "choosing" stands for the first three
  selected,        \* selectedProviders
  imported,        \* importedProviders: of the last file loaded
  run,             \* the scan: "none", "asked", "polling", "failed" or "done"
  closure,         \* what the scan that runs was started with, else Nothing
  findings,        \* rows, each with the scan it is from, also when a file brought it back
  overrides,       \* countOverrides: for the key of a row, the count typed
  aggregates,      \* backendTokenAggregates, Nothing when there are none
  servers,         \* niosServerMetrics and adServerMetrics
  map,             \* niosMigrationMap and adMigrationMap
  metricOverrides, \* serverMetricOverrides: for a server and a field of it
  growth,          \* growthBufferPct and serverGrowthBufferPct
  variants,        \* variantOverrides: for a member the configuration the user says it has
  backend,         \* what the session of backendScanId has, Nothing without an id
  file,            \* the session file, Nothing when none was saved
  scans, edits     \* bounds, not in the code

choice == <<selected, imported>>
data   == <<findings, overrides, aggregates>>
plan   == <<servers, map, metricOverrides, growth, variants>>
vars   == <<page, choice, run, closure, data, plan, backend, file, scans, edits>>

Nothing == <<>>
Defaults == [management |-> 20, server |-> 20]
NoServers == [p \in Planned |-> {}]
NoMap == [p \in Planned |-> <<>>]

Init ==
  /\ page = "choosing"
  /\ selected = {} /\ imported = {}
  /\ run = "none" /\ closure = Nothing
  /\ findings = {} /\ overrides = <<>> /\ aggregates = Nothing
  /\ servers = NoServers /\ map = NoMap
  /\ metricOverrides = <<>> /\ growth = Defaults
  /\ variants = <<>> /\ backend = Nothing
  /\ file = Nothing /\ scans = 0 /\ edits = 0

Put(f, k, v) == [x \in DOMAIN f \cup {k} |-> IF x = k THEN v ELSE f[x]]
Without(f, k) == Restrict(f, DOMAIN f \ {k})

-----------------------------------------------------------------------------
(* What the pages show.                                                    *)

Effective == EffectiveFindings(findings, overrides)

(* The servers of a provider: samples when a grid has none. *)
ServersOf(p) == IF p = "nios" /\ servers[p] = {} THEN Samples ELSE servers[p]

LoadsOf(p, members) == {ApplyServerOverrides(m, metricOverrides) : m \in members}
Migrateable(p) == {m \in ServersOf(p) : ~IsInfraOnlyMember(m)}
Selected(p, members) == {m \in members : m.name \in DOMAIN map[p]}

(* Slip: without what the user typed. *)
ServersScanned(p) ==
  LET loads == {ApplyServerOverrides(m, <<>>) : m \in Migrateable(p)}
  IN  IF p \notin selected THEN 0
      ELSE IF p = "nios" \/ DOMAIN map[p] = {} THEN NiosXTokens(loads)
      ELSE ServerTokens(LoadsOf(p, Selected(p, ServersOf(p))), map[p])

(* The server tokens of a provider before growth: all servers of a grid,   *)
(* the selected domain controllers, or all of them without a selection.    *)
ServersNeeded(p) ==
  LET loads == LoadsOf(p, Migrateable(p))
  IN  IF p \notin selected THEN 0
      ELSE IF p = "nios" \/ DOMAIN map[p] = {} THEN NiosXTokens(loads)
      ELSE ServerTokens(LoadsOf(p, Selected(p, ServersOf(p))), map[p])

TotalServerTokens == ServersNeeded("nios") + ServersNeeded("microsoft")

(* By category: of the server as long as no count is edited. *)
CategoryTotals ==
  IF overrides = <<>> /\ aggregates # Nothing THEN aggregates
  ELSE [c \in Categories |-> CategoryTokens(Effective, c)]

TotalTokens ==
  WithBuffer(SumFunction(CategoryTotals), growth.management)

NiosRows == {f \in Effective : f.provider = "nios"}
Migrating(rows) == {f \in rows : f.source \in DOMAIN map["nios"]}

PlansNios == "nios" \in selected /\ DOMAIN map["nios"] # {}

(* Slip: growth applies to the licences of members that stay as well. *)
HybridGrown ==
  LET others  == CalcUddiTokensAggregated(Effective \ NiosRows)
      moving  == IF PlansNios THEN Migrating(NiosRows)
                 ELSE IF "nios" \in selected THEN NiosRows ELSE {}
      staying == IF PlansNios THEN CalcNiosTokens(NiosRows \ Migrating(NiosRows)) ELSE 0
      toServers(p) == IF p \notin selected THEN 0
                      ELSE ServerTokens(LoadsOf(p, Selected(p, Migrateable(p))), map[p])
  IN  [management |-> WithBuffer(others + CalcUddiTokensAggregated(moving) + staying,
                                 growth.management),
       servers    |-> toServers("nios") + toServers("microsoft")]

(* hybridScenario, shown once a member is selected; servers before growth. *)
HybridScenario ==
  LET others  == CalcUddiTokensAggregated(Effective \ NiosRows)
      moving  == IF PlansNios THEN Migrating(NiosRows)
                 ELSE IF "nios" \in selected THEN NiosRows ELSE {}
      staying == IF PlansNios THEN CalcNiosTokens(NiosRows \ Migrating(NiosRows)) ELSE 0
      toServers(p) == IF p \notin selected THEN 0
                      ELSE ServerTokens(LoadsOf(p, Selected(p, Migrateable(p))), map[p])
  IN  [management |-> WithBuffer(others + CalcUddiTokensAggregated(moving), growth.management)
                      + staying,
       servers    |-> toServers("nios") + toServers("microsoft")]

(* The cards of the migration planner: nothing, the selected members, or   *)
(* all members move.                                                       *)
ScenarioCards ==
  LET others == CalcUddiTokensAggregated({f \in Effective : f.provider # "nios"})
      moving == Migrating(NiosRows)
      grown(v) == WithBuffer(v, growth.management)
      members == LoadsOf("nios", Migrateable("nios"))
  IN  [current |-> [management |-> grown(others), servers |-> 0],
       hybrid  |-> [management |-> grown(others + CalcUddiTokensAggregated(moving))
                                   + CalcNiosTokens(NiosRows \ moving),
                    servers    |-> ServerTokens(LoadsOf("nios", Selected("nios", Migrateable("nios"))),
                                                map["nios"])],
       full    |-> [management |-> grown(others + CalcUddiTokensAggregated(NiosRows)),
                    servers    |-> NiosXTokens(members)]]

(* The cards for domain controllers; servers only. *)
ADScenarioCards ==
  [hybrid |-> ServerTokens(LoadsOf("microsoft", Selected("microsoft", ServersOf("microsoft"))),
                           map["microsoft"]),
   full   |-> NiosXTokens(LoadsOf("microsoft", ServersOf("microsoft")))]

(* The members with a card: those selected, or all of them. *)
Displayed ==
  LET moving == Selected("nios", Migrateable("nios"))
  IN  IF moving = {} THEN Migrateable("nios") ELSE moving

(* The controllers in the calculator: those selected, or all of them. *)
DisplayedControllers ==
  IF DOMAIN map["microsoft"] = {} THEN ServersOf("microsoft")
  ELSE Selected("microsoft", ServersOf("microsoft"))

(* Without a platform a member counts as a physical appliance. *)
PlatformOf(m) == IF m.platform = "" THEN "Physical" ELSE m.platform

(* What the chips of a card offer, when there is a choice. *)
Configurations(m) ==
  LET spec == LookupApplianceSpec(m, PlatformOf(m))
  IN  IF Len(spec) > 1 THEN DOMAIN spec ELSE {}

(* getMemberFF: members without an entry go to NIOS-X. *)
MemberFF(m) == IF m.name \in DOMAIN map["nios"] THEN map["nios"][m.name] ELSE "nios-x"

MemberSavings ==
  [m \in Displayed |->
     LET target == MemberFF(m)
         tier   == CalcServerTokenTier(ApplyServerOverrides(m, metricOverrides), target)
     IN  CalcMemberSavings(m, PlatformOf(m), tier.name, target,
           IF m.name \in DOMAIN variants THEN variants[m.name] ELSE 0)]

(* What the page says of each source of rows and of each server.  Tokens   *)
(* are rounded up row by row here, and for all rows in the totals.         *)
RowTokens(f) == CeilDiv(f.count, f.rate)
TokensOfRows(rows) == SumFunction([f \in rows |-> RowTokens(f)])

(* The bars under the total, and those under the total of a category. *)
ManagementBars ==
  [s \in {<<f.provider, f.source>> : f \in Effective} |->
     TokensOfRows({f \in Effective : <<f.provider, f.source>> = s})]

CategoryBars(c) ==
  LET rows == {f \in Effective : f.category = c}
  IN  [s \in {<<f.provider, f.source>> : f \in rows} |->
         TokensOfRows({f \in rows : <<f.provider, f.source>> = s})]

(* The bars under the total of servers: each as one on NIOS-X. *)
ServerBars ==
  LET listed(p) == IF p \notin selected THEN {}
                   ELSE IF p = "nios" THEN Migrateable(p) ELSE DisplayedControllers
      loads == UNION {{<<p, load>> : load \in LoadsOf(p, listed(p))} : p \in Planned}
  IN  [bar \in loads |-> CalcServerTokenTier(bar[2], "nios-x").tokens]

(* The totals of the two calculators, with XaaS where it is chosen. *)
MemberCalculator == ServerTokens(LoadsOf("nios", Displayed), map["nios"])
ControllerCalculator == ServerTokens(LoadsOf("microsoft", DisplayedControllers), map["microsoft"])

(* The bill of materials: packs of 1000 management and 500 server tokens. *)
BillOfMaterials ==
  [management |-> CeilDiv(TotalTokens, 1000),
   servers    |-> CeilDiv(WithBuffer(TotalServerTokens, growth.server), 500)]

(* What the planner says of each name that may be selected. *)
SourceTokens(name) == TokensOfRows({f \in NiosRows : f.source = name})

(* The card of a member: its tokens as a server of its own, whatever the   *)
(* instances of XaaS it would share, and those of the rows it is source of. *)
MemberCards ==
  [m \in Displayed |->
     [servers    |-> CalcServerTokenTier(ApplyServerOverrides(m, metricOverrides), MemberFF(m)).tokens,
      management |-> SourceTokens(m.name)]]

-----------------------------------------------------------------------------
(* Documents: the text file, the table that stands in for the workbook     *)
(* when there is no session to build one from, and the workbook.           *)

(* Universal DDI tokens and NIOS licences when no member moves, the        *)
(* selected ones do, or all of them do.                                    *)
PlannerSection ==
  LET others == CalcUddiTokensAggregated(Effective \ NiosRows)
      moving == Migrating(NiosRows)
      scenario(moved, left) ==
        [uddi |-> WithBuffer(others + CalcUddiTokensAggregated(moved), growth.management),
         nios |-> IF left = {} THEN 0 ELSE CalcNiosTokens(left)]
  IN  [current |-> scenario({}, NiosRows), hybrid |-> scenario(moving, NiosRows \ moving),
       full    |-> scenario(NiosRows, {})]

(* The selected members; without a selection those that rows come from. *)
ServerSection ==
  LET sources == {f.source : f \in NiosRows}
      listed  == IF DOMAIN map["nios"] # {} THEN Selected("nios", Migrateable("nios"))
                 ELSE {m \in Migrateable("nios") : m.name \in sources}
  IN  ServerTokens(LoadsOf("nios", listed), map["nios"])

(* The selected controllers, without a selection all. *)
ADServerSection ==
  LET listed == IF DOMAIN map["microsoft"] # {}
                THEN Selected("microsoft", ServersOf("microsoft")) ELSE ServersOf("microsoft")
  IN  ServerTokens(LoadsOf("microsoft", listed), map["microsoft"])

(* Packs of 1000 management tokens and of 500 server tokens. *)
PacksSection(total) ==
  [management |-> CeilDiv(total, 1000),
   servers    |-> CeilDiv(WithBuffer(TotalServerTokens, growth.server), 500)]

(* The sections of both the text file and the table; some depend on what   *)
(* was scanned and planned.                                                *)
ClientDocument ==
  LET total == TotalTokens
      all   == [rows |-> Effective, total |-> total, skus |-> PacksSection(total)]
      with(document, there, name, section) ==
        IF there THEN Put(document, name, section) ELSE document
      planned  == with(all, PlansNios, "planner", PlannerSection)
      deployed == with(planned, "nios" \in selected, "servers", ServerSection)
  IN  with(deployed, "microsoft" \in selected /\ servers["microsoft"] # {}, "ad", ADServerSection)

(* What is saved as a workbook: a session whose scan is not complete is    *)
(* answered with its status, which the page takes for a workbook.          *)
DownloadedXlsx ==
  IF backend = Nothing THEN ClientDocument
  ELSE IF ~backend.complete THEN [status |-> "scan not complete"]
  ELSE Build(backend, variants)

-----------------------------------------------------------------------------
(* Scanning.                                                               *)

(* Slip: edits of loaded providers are kept, scanned or not. *)
KeptOverridesOfAll == Restrict(overrides, {k \in DOMAIN overrides : k[1] \in imported})

(* The edits of rows that the scan will not replace. *)
KeptOverrides ==
  Restrict(overrides, {k \in DOMAIN overrides : k[1] \in imported \ selected})

StartScan ==
  /\ scans < MaxScans
  /\ scans' = scans + 1
  /\ page' = "scanning" /\ run' = "asked"
  /\ closure' = [findings |-> findings, imported |-> imported, selected |-> selected]
  /\ findings' = {} /\ aggregates' = Nothing
  /\ overrides' = KeptOverrides
  /\ UNCHANGED <<choice, plan, backend, file, edits>>

StartFromSources == page = "choosing" /\ selected # {} /\ StartScan
RetryScan == page = "scanning" /\ run = "failed" /\ StartScan

(* The session of the scan that begins takes the place of the last one. *)
StartAccepted ==
  /\ run = "asked" /\ run' = "polling"
  /\ backend' = [complete |-> FALSE, rows |-> {}, servers |-> NoServers]
  /\ UNCHANGED <<page, choice, closure, data, plan, file, scans, edits>>

(* The start request, or a request for the progress, fails. *)
ScanFails ==
  /\ run \in {"asked", "polling"} /\ run' = "failed" /\ closure' = Nothing
  /\ UNCHANGED <<page, choice, data, plan, backend, file, scans, edits>>

(* A row in the results of the n-th scan. *)
RowOfScan(f, n) ==
  [origin |-> n, provider |-> f.provider, source |-> f.source, region |-> f.region,
   item |-> f.item, category |-> f.category, count |-> f.count, rate |-> f.rate, place |-> f.place]

(* mergeFindings *)
MergeFindings(rows, c) ==
  {f \in c.findings : f.provider \in c.imported \ c.selected} \cup rows

(* The results of a scan, with the servers of the providers that have any. *)
ScanCompletes ==
  /\ run = "polling"
  /\ \E outcome \in [closure.selected -> UNION {Outcomes[p] : p \in Providers}] :
       /\ \A p \in closure.selected : outcome[p] \in Outcomes[p]
       /\ LET rows == UNION {{RowOfScan(f, scans) : f \in outcome[p].rows} :
                               p \in closure.selected}
          IN  /\ findings' = MergeFindings(rows, closure)
              /\ aggregates' = Calculate(rows).tokens
              /\ backend' = [complete |-> TRUE, rows |-> rows, servers |->
                   [p \in Planned |-> IF p \in closure.selected THEN outcome[p].servers ELSE {}]]
       /\ servers' = [p \in Planned |->
            IF p \in closure.selected /\ outcome[p].servers # {} THEN outcome[p].servers
            ELSE servers[p]]
  /\ run' = "done" /\ closure' = Nothing
  /\ UNCHANGED <<page, choice, overrides, map, metricOverrides, growth, variants, file, scans, edits>>

(* Leaving the scan stops it; what the wizard holds stays. *)
GoBack ==
  /\ \/ /\ page = "scanning" /\ run # "asked" /\ page' = "choosing"
        /\ run' = (IF run = "polling" THEN "none" ELSE run)
        /\ closure' = Nothing
     \/ /\ page = "results" /\ page' = "scanning"
        /\ UNCHANGED <<run, closure>>
  /\ UNCHANGED <<choice, data, plan, backend, file, scans, edits>>

ViewResults ==
  /\ page = "scanning" /\ run = "done" /\ page' = "results"
  /\ UNCHANGED <<choice, run, closure, data, plan, backend, file, scans, edits>>

ToggleProvider(p) ==
  /\ page = "choosing" /\ scans < MaxScans
  /\ selected' = IF p \in selected THEN selected \ {p} ELSE selected \cup {p}
  /\ UNCHANGED <<page, imported, run, closure, data, plan, backend, file, scans, edits>>

-----------------------------------------------------------------------------
(* Edits on the page of the results.                                       *)

Edit ==
  /\ page = "results" /\ edits < MaxEdits /\ edits' = edits + 1
  /\ UNCHANGED <<page, choice, run, closure, findings, aggregates, servers, backend, file, scans>>

(* Typing the original count again undoes the edit. *)
EditCount(f, n) ==
  /\ Edit
  /\ overrides' = IF n = OriginalCount(findings, FindingKey(f))
                  THEN Without(overrides, FindingKey(f))
                  ELSE Put(overrides, FindingKey(f), [count |-> n, origin |-> f.origin])
  /\ UNCHANGED <<map, metricOverrides, growth, variants>>

ResetCount(f) ==
  /\ Edit /\ FindingKey(f) \in DOMAIN overrides
  /\ overrides' = Without(overrides, FindingKey(f))
  /\ UNCHANGED <<map, metricOverrides, growth, variants>>

ResetCounts ==
  /\ Edit /\ overrides # <<>> /\ overrides' = <<>>
  /\ UNCHANGED <<map, metricOverrides, growth, variants>>

(* The names that may be selected: sources of NIOS rows, and servers. *)
Targets(p) ==
  {m.name : m \in Migrateable(p)} \cup
  ({f.source : f \in {g \in findings : g.provider = "nios" /\ p = "nios"}}
     \ {m.name : m \in ServersOf(p)})

(* toggleMigration, toggleAdMigration *)
ToggleMigration(p, name) ==
  /\ Edit /\ p \in selected
  /\ map' = [map EXCEPT ![p] = IF name \in DOMAIN @ THEN Without(@, name)
                               ELSE Put(@, name, "nios-x")]
  /\ UNCHANGED <<overrides, metricOverrides, growth, variants>>

(* A selected member goes to NIOS-X or to XaaS. *)
SetFormFactor(p, name) ==
  /\ Edit /\ p \in selected /\ name \in DOMAIN map[p]
  /\ \E ff \in {"nios-x", "nios-xaas"} : map' = [map EXCEPT ![p][name] = ff]
  /\ UNCHANGED <<overrides, metricOverrides, growth, variants>>

(* All targets are selected, or none when all were. *)
ToggleAllMigration(p) ==
  /\ Edit /\ p \in selected
  /\ map' = [map EXCEPT ![p] =
       IF Targets(p) \subseteq DOMAIN @ THEN Restrict(@, DOMAIN @ \ Targets(p))
       ELSE @ @@ [name \in Targets(p) |-> "nios-x"]]
  /\ UNCHANGED <<overrides, metricOverrides, growth, variants>>

(* The loads in the calculators of servers.  Controllers in an instance of *)
(* XaaS are shown there and cannot be edited; members can.                 *)
TypeLoad(m, field, n) ==
  /\ Edit
  /\ metricOverrides' = IF n = m[field] THEN Without(metricOverrides, <<m.name, field>>)
                        ELSE Put(metricOverrides, <<m.name, field>>, n)
  /\ UNCHANGED <<overrides, map, growth, variants>>

ResetLoad(m, field) ==
  /\ Edit /\ <<m.name, field>> \in DOMAIN metricOverrides
  /\ metricOverrides' = Without(metricOverrides, <<m.name, field>>)
  /\ UNCHANGED <<overrides, map, growth, variants>>

EditMember(m, field) ==
  /\ "nios" \in selected
  /\ ResetLoad(m, field) \/ \E n \in Counts : TypeLoad(m, field, n)

EditController(m, field) ==
  /\ "microsoft" \in selected
  /\ m.name \in DOMAIN map["microsoft"] => map["microsoft"][m.name] = "nios-x"
  /\ ResetLoad(m, field) \/ \E n \in Counts : TypeLoad(m, field, n)

(* The button is on the calculator of members, and resets controllers too. *)
ResetServers ==
  /\ Edit /\ "nios" \in selected /\ metricOverrides # <<>> /\ metricOverrides' = <<>>
  /\ UNCHANGED <<overrides, map, growth, variants>>

SetGrowth(kind, percent) ==
  /\ Edit /\ growth' = [growth EXCEPT ![kind] = percent]
  /\ UNCHANGED <<overrides, map, metricOverrides, variants>>

(* The chips of a member card; the default needs no entry. *)
SetVariant(m, configuration) ==
  /\ Edit /\ "nios" \in selected
  /\ variants' = IF configuration = 1 THEN Without(variants, m.name)
                 ELSE Put(variants, m.name, configuration)
  /\ UNCHANGED <<overrides, map, metricOverrides, growth>>

-----------------------------------------------------------------------------
(* Session files.                                                          *)

(* What is on show that a file is to bring back: all but the growth of     *)
(* servers.                                                                *)
OnShow ==
  [totals |-> CategoryTotals, total |-> TotalTokens, servers |-> TotalServerTokens,
   hybrid |-> HybridScenario, cards |-> ScenarioCards, ad |-> ADScenarioCards]

(* The totals of the backend are not in the file: it brings back what the  *)
(* pages show without them.                                                *)
OwnTotals == overrides # <<>> \/ aggregates = Nothing

(* Slip: without the edits of servers, an optional field. *)
SaveWithoutServerEdits ==
  /\ page = "results" /\ file = Nothing
  /\ file' = [selected |-> selected, findings |-> findings, overrides |-> overrides,
              map |-> map, servers |-> servers, metricOverrides |-> <<>>,
              growth |-> growth.management, shown |-> IF OwnTotals THEN OnShow ELSE Nothing]
  /\ UNCHANGED <<page, choice, run, closure, data, plan, backend, scans, edits>>

(* exportSession leaves the growth buffer of servers out. *)
SaveSession ==
  /\ page = "results" /\ file = Nothing
  /\ file' = [selected |-> selected, findings |-> findings, overrides |-> overrides,
              map |-> map, servers |-> servers, metricOverrides |-> metricOverrides,
              growth |-> growth.management, shown |-> IF OwnTotals THEN OnShow ELSE Nothing]
  /\ UNCHANGED <<page, choice, run, closure, data, plan, backend, scans, edits>>

(* restart, which leaves the servers and the map of domain controllers *)
Restart ==
  /\ run' = "none" /\ closure' = Nothing
  /\ aggregates' = Nothing /\ variants' = <<>>
  /\ UNCHANGED backend

StartOver ==
  /\ page = "results" /\ page' = "choosing"
  /\ selected' = {} /\ imported' = {}
  /\ findings' = {} /\ overrides' = <<>>
  /\ servers' = [servers EXCEPT !["nios"] = {}]
  /\ map' = [map EXCEPT !["nios"] = <<>>]
  /\ metricOverrides' = <<>> /\ growth' = Defaults
  /\ Restart
  /\ UNCHANGED <<file, scans, edits>>

(* restoreSession *)
LoadSession ==
  /\ page = "choosing" /\ file # Nothing
  /\ page' = "results"
  /\ selected' = file.selected /\ imported' = file.selected
  /\ findings' = file.findings /\ overrides' = file.overrides
  /\ map' = file.map /\ servers' = file.servers
  /\ metricOverrides' = file.metricOverrides
  /\ growth' = [management |-> file.growth, server |-> Defaults.server]
  /\ Restart
  /\ UNCHANGED <<file, scans, edits>>

-----------------------------------------------------------------------------
Next ==
  \/ \E p \in Providers : ToggleProvider(p)
  \/ StartFromSources \/ RetryScan
  \/ StartAccepted \/ ScanFails \/ ScanCompletes
  \/ GoBack \/ ViewResults
  \/ \E f \in findings : ResetCount(f) \/ \E n \in Counts : EditCount(f, n)
  \/ ResetCounts
  \/ \E p \in Planned :
       \/ ToggleAllMigration(p)
       \/ \E name \in Targets(p) : ToggleMigration(p, name) \/ SetFormFactor(p, name)
  \/ \E field \in Typed :
       \/ \E m \in Displayed : EditMember(m, field)
       \/ \E m \in DisplayedControllers : EditController(m, field)
  \/ ResetServers
  \/ \E m \in Displayed : \E configuration \in Configurations(m) : SetVariant(m, configuration)
  \/ \E kind \in DOMAIN growth, percent \in Buffers : SetGrowth(kind, percent)
  \/ SaveSession \/ StartOver \/ LoadSession

Spec == Init /\ [][Next]_vars

-----------------------------------------------------------------------------
(* Properties.                                                             *)

(* A count the user typed for a row of one scan never replaces the count   *)
(* of a row of another: startScan drops the edits of what it scans and     *)
(* keeps those of loaded rows it keeps.                                    *)
EditsOnTheirRows ==
  \A f \in findings : FindingKey(f) \in DOMAIN overrides =>
    overrides[FindingKey(f)].origin = f.origin

(* The bars by source and by server, and the cards of members, against the *)
(* totals they stand under: bars of servers add up to the total before     *)
(* growth unless a controller goes to XaaS, bars of a category to no less  *)
(* than the total computed here, and cards of members to the server tokens *)
(* of the planner unless a member goes to XaaS.  The calculators say what  *)
(* the planner says of members, and the total of controllers.  As long as  *)
(* no member is selected (a selected source need not be one), cards and    *)
(* calculator are of all members.                                          *)
BreakdownsAgree(document, cards) ==
  LET bars  == ManagementBars
      onNiosX(p) == \A name \in DOMAIN map[p] : map[p][name] = "nios-x"
      ofMembers == MemberCards
      planned == IF Selected("nios", Migrateable("nios")) = {}
                 THEN cards.full.servers ELSE cards.hybrid.servers
  IN  /\ onNiosX("microsoft") => SumFunction(ServerBars) = TotalServerTokens
      /\ "microsoft" \in selected => ControllerCalculator = ServersNeeded("microsoft")
      /\ MemberCalculator = planned
      /\ OwnTotals => \A c \in Categories : SumFunction(CategoryBars(c)) >= CategoryTotals[c]
      /\ document.skus = BillOfMaterials
      /\ \A m \in DOMAIN ofMembers :
           ofMembers[m].management = IF <<"nios", m.name>> \in DOMAIN bars
                                     THEN bars[<<"nios", m.name>>] ELSE 0
      /\ onNiosX("nios") =>
           SumFunction([m \in DOMAIN ofMembers |-> ofMembers[m].servers]) = planned

(* The hybrid totals at the top of the page are those of the cards of the  *)
(* two planners, and of the document that is saved, which compute them on  *)
(* their own; so are the tokens of the controllers, and what the page says *)
(* of each source, server and member adds up to its totals.                *)
PlannersAgree(document, cards, hybrid, adCards) ==
  /\ PlansNios =>
       /\ hybrid.management = cards.hybrid.management
       /\ hybrid.servers = cards.hybrid.servers +
            IF "microsoft" \in selected THEN adCards.hybrid ELSE 0
       /\ document.planner.hybrid.uddi + document.planner.hybrid.nios = hybrid.management
       /\ document.planner.full.uddi = cards.full.management
       /\ document.servers = cards.hybrid.servers
  /\ "ad" \in DOMAIN document =>
       document.ad = IF DOMAIN map["microsoft"] = {} THEN adCards.full ELSE adCards.hybrid
  /\ BreakdownsAgree(document, cards)

(* On the page of the results the banner, the cards of both planners, the  *)
(* document, the calculators, the bars and the cards of members agree.     *)
ScreensAgree ==
  page = "results" =>
    PlannersAgree(ClientDocument, ScenarioCards, HybridScenario, ADScenarioCards)

(* Moving some servers, all of them to NIOS-X, needs no more server tokens *)
(* than the total says, whatever the user typed for them.                  *)
HybridWithinTotal ==
  ( /\ page = "results"
    /\ \A p \in Planned : \A name \in DOMAIN map[p] : map[p][name] = "nios-x" )
  => HybridScenario.servers <= TotalServerTokens

(* A session file brings back the numbers it was saved with, however it    *)
(* was edited, whatever the wizard held when it was loaded.                *)
LoadShowsSaved ==
  [][(LoadSession /\ file.shown # Nothing) => OnShow' = file.shown]_vars

(* The downloaded workbook, which the server computes from the session, is *)
(* about the numbers on show, as far as it knows of what the user did:     *)
(*  - with the rows of its scan on show and no count edited, the tokens by *)
(*    category are those of the page as long as it shows those of the      *)
(*    server, and the NIOS licences are;                                   *)
(*  - with the servers of its scan on show and no load typed, it has the   *)
(*    server tokens of the planners when all servers move to NIOS-X;       *)
(*  - with all members moving to NIOS-X, it saves what the page says is    *)
(*    saved, whatever configurations the user chose for members of this or *)
(*    an earlier scan, as long as the platforms of members are known.      *)
RowsAgree(book) ==
  (findings = backend.rows /\ overrides = <<>>) =>
    /\ (aggregates # Nothing \/ NiosRows = {}) =>
         LET shown == CategoryTotals
         IN  \A c \in Categories : book.summary.tokens[c] = shown[c]
    /\ \A p \in selected : {f \in Effective : f.provider = p} =
                          IF p \in DOMAIN book.providers THEN {r.row : r \in book.providers[p]} ELSE {}
    /\ "scenarios" \in DOMAIN book =>
         book.scenarios.current.management = CalcNiosTokens(NiosRows)

ServersAgree(book) ==
  ( /\ metricOverrides = <<>>
    /\ \A p \in Planned : backend.servers[p] = IF p \in selected THEN ServersOf(p) ELSE {} ) =>
    /\ "servers" \in DOMAIN book =>
         /\ book.servers.total = ScenarioCards.full.servers
         /\ {m.name : m \in Migrateable("nios")} = {r.member : r \in book.servers.rows}
    /\ "ad" \in DOMAIN book => book.ad.total = ADScenarioCards.full
    /\ map["microsoft"] = <<>> => book.skus.servers = CeilDiv(TotalServerTokens, 500)

SavingsAgree(book) ==
  ( /\ metricOverrides = <<>>
    /\ backend.servers["nios"] # {} /\ backend.servers["nios"] = servers["nios"]
    /\ \A m \in servers["nios"] : m.platform # ""
    /\ Displayed = Migrateable("nios")
    /\ \A name \in DOMAIN map["nios"] : map["nios"][name] = "nios-x" ) =>
    CalcFleetSavings(MemberSavings) = book.savings

NumbersAgree(book) == RowsAgree(book) /\ ServersAgree(book) /\ SavingsAgree(book)

(* The workbook of a complete scan, downloaded from the page of the results. *)
WorkbookAgrees ==
  (page = "results" /\ backend # Nothing /\ backend.complete) => NumbersAgree(DownloadedXlsx)
=============================================================================
