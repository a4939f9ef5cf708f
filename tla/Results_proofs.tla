--------------------------- MODULE Results_proofs ---------------------------
(***************************************************************************)
(* Theorems about the results, for any providers, rows and servers, and    *)
(* any number of scans, edits and session files: edits stay with their     *)
(* rows, a file brings back the numbers it was saved with, and what the    *)
(* page, its cards, bars and calculators and the saved document compute on *)
(* their own comes out the same.                                           *)
(***************************************************************************)
EXTENDS Results, Sums

-----------------------------------------------------------------------------
(* Edits of rows.                                                          *)

(* The rows of a provider are of one scan, and its edits are of that scan. *)
OfOneScan(rows, typed) ==
  /\ \A f, g \in rows : f.provider = g.provider => f.origin = g.origin
  /\ \A f \in rows : FindingKey(f) \in DOMAIN typed => typed[FindingKey(f)].origin = f.origin

(* While a scan is under way the page has no rows: those it was started    *)
(* with are in its closure, and no edit is left of what it will replace.   *)
Scanning ==
  /\ page = "scanning"
  /\ closure.selected \subseteq Providers
  /\ OfOneScan(closure.findings, overrides)
  /\ \A k \in DOMAIN overrides : k[1] \in closure.imported \ closure.selected

EditsInv ==
  /\ selected \subseteq Providers
  /\ OfOneScan(findings, overrides)
  /\ run \in {"asked", "polling"} => Scanning
  /\ file # Nothing => file.selected \subseteq Providers /\ OfOneScan(file.findings, file.overrides)

LEMMA KeyOfProvider == \A f : FindingKey(f)[1] = f.provider
  BY DEF FindingKey

LEMMA FewerEdits ==
  ASSUME NEW rows, NEW typed, NEW K \in SUBSET DOMAIN typed, OfOneScan(rows, typed)
  PROVE  OfOneScan(rows, Restrict(typed, K)) /\ DOMAIN Restrict(typed, K) = K
  BY DEF OfOneScan, Restrict

LEMMA StartScanStep ==
  ASSUME EditsInv, StartScan
  PROVE  EditsInv'
<1> USE DEF choice, plan
<1>1. /\ findings' = {} /\ overrides' = KeptOverrides /\ page' = "scanning"
      /\ closure' = [findings |-> findings, imported |-> imported, selected |-> selected]
      /\ UNCHANGED <<selected, file>>
  BY DEF StartScan
<1>2. OfOneScan(findings, overrides)
  BY DEF EditsInv
<1> DEFINE K == {k \in DOMAIN overrides : k[1] \in imported \ selected}
<1>3. OfOneScan(findings, KeptOverrides) /\ DOMAIN KeptOverrides = K
  <2>1. KeptOverrides = Restrict(overrides, K) /\ K \in SUBSET DOMAIN overrides
    BY DEF KeptOverrides
  <2> HIDE DEF K
  <2> QED
    BY <1>2, <2>1, FewerEdits
<1>4. Scanning'
  BY <1>1, <1>3 DEF Scanning, EditsInv
<1>5. OfOneScan(findings', overrides')
  BY <1>1 DEF OfOneScan
<1> QED
  BY <1>1, <1>4, <1>5 DEF EditsInv

LEMMA ScanCompletesStep ==
  ASSUME EditsInv, ScanCompletes
  PROVE  EditsInv'
<1>1. /\ run = "polling" /\ run' = "done" /\ UNCHANGED <<selected, overrides, file>>
  BY DEF ScanCompletes, choice
<1>2. Scanning
  BY <1>1 DEF EditsInv
<1>3. PICK outcome \in [closure.selected -> UNION {Outcomes[p] : p \in Providers}] :
        /\ \A p \in closure.selected : outcome[p] \in Outcomes[p]
        /\ findings' = MergeFindings(
             UNION {{RowOfScan(f, scans) : f \in outcome[p].rows} : p \in closure.selected}, closure)
  BY DEF ScanCompletes
<1> DEFINE rows == UNION {{RowOfScan(f, scans) : f \in outcome[p].rows} : p \in closure.selected}
           kept == {f \in closure.findings : f.provider \in closure.imported \ closure.selected}
<1>4. findings' = kept \cup rows
  BY <1>3 DEF MergeFindings
<1>5. \A f \in rows : f.origin = scans /\ f.provider \in closure.selected
  <2> SUFFICES ASSUME NEW p \in closure.selected, NEW g \in outcome[p].rows
               PROVE  RowOfScan(g, scans).origin = scans
                      /\ RowOfScan(g, scans).provider \in closure.selected
    OBVIOUS
  <2>1. g.provider = p
    BY <1>2, <1>3, OutcomesAssumption DEF Scanning
  <2> QED
    BY <2>1 DEF RowOfScan
<1>6. /\ \A f \in kept : f \in closure.findings /\ f.provider \notin closure.selected
  OBVIOUS
<1> HIDE DEF rows, kept
<1>7. \A f, g \in findings' : f.provider = g.provider => f.origin = g.origin
  BY <1>2, <1>4, <1>5, <1>6 DEF Scanning, OfOneScan
<1>8. \A f \in rows : FindingKey(f) \notin DOMAIN overrides
  BY <1>2, <1>5, KeyOfProvider DEF Scanning
<1>9. OfOneScan(findings', overrides)
  BY <1>2, <1>4, <1>6, <1>7, <1>8 DEF Scanning, OfOneScan
<1> QED
  BY <1>1, <1>9 DEF EditsInv

(* What the user types for a row is marked with the scan of that row.      *)
LEMMA EditCountStep ==
  ASSUME NEW f \in findings, NEW n, EditsInv, EditCount(f, n)
  PROVE  OfOneScan(findings, overrides')
<1> DEFINE k == FindingKey(f)
           edit == [count |-> n, origin |-> f.origin]
<1>1. OfOneScan(findings, overrides)
  BY DEF EditsInv
<1>2. CASE overrides' = Without(overrides, k)
  BY <1>1, <1>2, FewerEdits DEF Without
<1>3. CASE overrides' = Put(overrides, k, edit)
  <2>1. /\ DOMAIN overrides' = DOMAIN overrides \cup {k}
        /\ \A x \in DOMAIN overrides' : overrides'[x] = IF x = k THEN edit ELSE overrides[x]
    BY <1>3 DEF Put
  <2>2. edit.origin = f.origin /\ k[1] = f.provider
    BY KeyOfProvider
  <2> HIDE DEF edit
  <2>3. ASSUME NEW g \in findings, FindingKey(g) \in DOMAIN overrides'
        PROVE  overrides'[FindingKey(g)].origin = g.origin
    <3>1. CASE FindingKey(g) = k
      <4>1. g.provider = f.provider
        BY <2>2, <3>1, KeyOfProvider
      <4>2. g.origin = f.origin
        BY <1>1, <4>1 DEF OfOneScan
      <4> QED
        BY <2>1, <2>2, <2>3, <3>1, <4>2
    <3>2. CASE FindingKey(g) # k
      BY <1>1, <2>1, <2>3, <3>2 DEF OfOneScan
    <3> QED
      BY <3>1, <3>2
  <2> QED
    BY <1>1, <2>3 DEF OfOneScan
<1> QED
  BY <1>2, <1>3 DEF EditCount

LEMMA EditsStep == EditsInv /\ [Next]_vars => EditsInv'
<1> SUFFICES ASSUME EditsInv, [Next]_vars PROVE EditsInv'
  OBVIOUS
<1> USE DEF choice, data, plan
(* Steps that leave the rows and their edits alone, as most do.            *)
<1>1. ASSUME UNCHANGED <<page, closure, findings, overrides, file>>, selected' = selected,
             run' = run \/ run' \notin {"asked", "polling"} \/ run \in {"asked", "polling"}
      PROVE  EditsInv'
  BY <1>1 DEF EditsInv, Scanning, OfOneScan, FindingKey
(* Edits, on a page where no scan is under way.                            *)
<1>2. ASSUME Edit, OfOneScan(findings, overrides') PROVE EditsInv'
  <2>1. page = "results" /\ UNCHANGED <<page, selected, run, findings, file>>
    BY <1>2 DEF Edit
  <2> QED
    BY <1>2, <2>1 DEF EditsInv, Scanning
<1>3. OfOneScan(findings, overrides)
  BY DEF EditsInv
<1>4. CASE StartFromSources \/ RetryScan
  BY <1>4, StartScanStep DEF StartFromSources, RetryScan
<1>5. CASE ScanCompletes
  BY <1>5, ScanCompletesStep
<1>6. CASE StartAccepted
  BY <1>1, <1>6 DEF StartAccepted
<1>7. CASE ScanFails
  BY <1>7 DEF ScanFails, EditsInv
<1>8. CASE GoBack
  <2>1. run' \notin {"asked", "polling"} /\ UNCHANGED <<selected, findings, overrides, file>>
    BY <1>8 DEF GoBack, EditsInv, Scanning
  <2> QED
    BY <2>1 DEF EditsInv
<1>9. CASE ViewResults
  BY <1>9 DEF ViewResults, EditsInv
<1>10. ASSUME NEW p \in Providers, ToggleProvider(p) PROVE EditsInv'
  <2>1. /\ selected' \subseteq Providers /\ page = "choosing"
        /\ UNCHANGED <<page, run, findings, overrides, file>>
    BY <1>10 DEF ToggleProvider, EditsInv
  <2> QED
    BY <2>1 DEF EditsInv, Scanning
<1>11. ASSUME NEW f \in findings, NEW n, EditCount(f, n) PROVE EditsInv'
  BY <1>2, <1>11, EditCountStep DEF EditCount
<1>12. ASSUME NEW f \in findings, ResetCount(f) PROVE EditsInv'
  <2>1. OfOneScan(findings, Without(overrides, FindingKey(f)))
    BY <1>3, FewerEdits DEF Without
  <2> QED
    BY <1>2, <1>12, <2>1 DEF ResetCount
<1>13. CASE ResetCounts
  <2>1. OfOneScan(findings, <<>>)
    BY <1>3 DEF OfOneScan
  <2> QED
    BY <1>2, <1>13, <2>1 DEF ResetCounts
<1>14. ASSUME NEW p \in Planned,
              \/ ToggleAllMigration(p)
              \/ \E name \in Targets(p) : ToggleMigration(p, name) \/ SetFormFactor(p, name)
       PROVE EditsInv'
  <2>1. Edit /\ overrides' = overrides
    BY <1>14 DEF ToggleAllMigration, ToggleMigration, SetFormFactor
  <2> QED
    BY <1>2, <1>3, <2>1
<1>15. ASSUME \/ \E field \in Typed :
                   \/ \E m \in Displayed : EditMember(m, field)
                   \/ \E m \in DisplayedControllers : EditController(m, field)
              \/ ResetServers
              \/ \E m \in Displayed : \E configuration \in Configurations(m) : SetVariant(m, configuration)
              \/ \E kind \in DOMAIN growth, percent \in Buffers : SetGrowth(kind, percent)
       PROVE EditsInv'
  <2>1. Edit /\ overrides' = overrides
    BY <1>15 DEF EditMember, EditController, TypeLoad, ResetLoad, ResetServers, SetVariant, SetGrowth
  <2> QED
    BY <1>2, <1>3, <2>1
<1>16. CASE SaveSession
  <2>1. /\ UNCHANGED <<page, selected, run, closure, findings, overrides>>
        /\ file'.selected = selected /\ file'.findings = findings /\ file'.overrides = overrides
    BY <1>16 DEF SaveSession
  <2> QED
    BY <2>1 DEF EditsInv, Scanning
<1>17. CASE StartOver
  <2>1. run' = "none" /\ findings' = {} /\ selected' = {} /\ file' = file
    BY <1>17 DEF StartOver, Restart
  <2>2. OfOneScan({}, overrides')
    BY DEF OfOneScan
  <2> QED
    BY <2>1, <2>2 DEF EditsInv
<1>18. CASE LoadSession
  <2>1. /\ file # Nothing /\ run' = "none" /\ file' = file
        /\ findings' = file.findings /\ overrides' = file.overrides /\ selected' = file.selected
    BY <1>18 DEF LoadSession, Restart
  <2> QED
    BY <2>1 DEF EditsInv
<1>19. CASE UNCHANGED vars
  BY <1>1, <1>19 DEF vars
<1> QED
  BY <1>4, <1>5, <1>6, <1>7, <1>8, <1>9, <1>10, <1>11, <1>12, <1>13, <1>14, <1>15, <1>16, <1>17,
     <1>18, <1>19
  DEF Next

(* Whatever is scanned, loaded and edited, in whatever order, a count the  *)
(* user typed stands for a row of the scan it was typed for (startScan and *)
(* mergeFindings).                                                         *)
THEOREM EditsStay == Spec => []EditsOnTheirRows
<1>1. Init => EditsInv
  BY DEF Init, EditsInv, OfOneScan
<1>2. EditsInv => EditsOnTheirRows
  BY DEF EditsInv, OfOneScan, EditsOnTheirRows
<1> QED
  BY <1>1, <1>2, EditsStep, PTL DEF Spec

-----------------------------------------------------------------------------
(* What is on show, as a function of what a session file holds: the page   *)
(* computes it from the same fields of its own, whatever else it has.      *)

ServersHeld(machines, p) == IF p = "nios" /\ machines[p] = {} THEN Samples ELSE machines[p]
MembersHeld(machines, p) == {m \in ServersHeld(machines, p) : ~IsInfraOnlyMember(m)}
Going(members, targets, p) == {m \in members : m.name \in DOMAIN targets[p]}
Loaded(members, loads) == {ApplyServerOverrides(m, loads) : m \in members}
NiosOf(rows) == {f \in rows : f.provider = "nios"}
MigratingOf(rows, targets) == {f \in NiosOf(rows) : f.source \in DOMAIN targets["nios"]}

NeededBy(chosen, machines, targets, loads) ==
  LET needed(p) ==
        LET all == Loaded(MembersHeld(machines, p), loads)
        IN  IF p \notin chosen THEN 0
            ELSE IF p = "nios" \/ DOMAIN targets[p] = {} THEN NiosXTokens(all)
            ELSE ServerTokens(Loaded(Going(ServersHeld(machines, p), targets, p), loads), targets[p])
  IN  needed("nios") + needed("microsoft")

HybridBy(chosen, rows, machines, targets, loads, buffer) ==
  LET plans   == "nios" \in chosen /\ DOMAIN targets["nios"] # {}
      others  == CalcUddiTokensAggregated(rows \ NiosOf(rows))
      moving  == IF plans THEN MigratingOf(rows, targets)
                 ELSE IF "nios" \in chosen THEN NiosOf(rows) ELSE {}
      staying == IF plans THEN CalcNiosTokens(NiosOf(rows) \ MigratingOf(rows, targets)) ELSE 0
      toServers(p) == IF p \notin chosen THEN 0
                      ELSE ServerTokens(Loaded(Going(MembersHeld(machines, p), targets, p), loads),
                                        targets[p])
  IN  [management |-> WithBuffer(others + CalcUddiTokensAggregated(moving), buffer) + staying,
       servers    |-> toServers("nios") + toServers("microsoft")]

CardsBy(rows, machines, targets, loads, buffer) ==
  LET others   == CalcUddiTokensAggregated({f \in rows : f.provider # "nios"})
      members  == MembersHeld(machines, "nios")
      grown(v) == WithBuffer(v, buffer)
  IN  [current |-> [management |-> grown(others), servers |-> 0],
       hybrid  |-> [management |-> grown(others + CalcUddiTokensAggregated(MigratingOf(rows, targets)))
                                   + CalcNiosTokens(NiosOf(rows) \ MigratingOf(rows, targets)),
                    servers    |-> ServerTokens(Loaded(Going(members, targets, "nios"), loads),
                                                targets["nios"])],
       full    |-> [management |-> grown(others + CalcUddiTokensAggregated(NiosOf(rows))),
                    servers    |-> NiosXTokens(Loaded(members, loads))]]

ADCardsBy(machines, targets, loads) ==
  LET controllers == ServersHeld(machines, "microsoft")
  IN  [hybrid |-> ServerTokens(Loaded(Going(controllers, targets, "microsoft"), loads),
                               targets["microsoft"]),
       full   |-> NiosXTokens(Loaded(controllers, loads))]

TotalsBy(rows) == [c \in Categories |-> CategoryTokens(rows, c)]

ShownBy(chosen, rows, totals, machines, targets, loads, buffer) ==
  [totals  |-> totals,
   total   |-> WithBuffer(SumFunction(totals), buffer),
   servers |-> NeededBy(chosen, machines, targets, loads),
   hybrid  |-> HybridBy(chosen, rows, machines, targets, loads, buffer),
   cards   |-> CardsBy(rows, machines, targets, loads, buffer),
   ad      |-> ADCardsBy(machines, targets, loads)]

(* What a file of edited counts, or of rows without totals of the server,  *)
(* brings back.                                                            *)
ShownByFile(f) ==
  LET rows == EffectiveFindings(f.findings, f.overrides)
  IN  ShownBy(f.selected, rows, TotalsBy(rows), f.servers, f.map, f.metricOverrides, f.growth)

(* The page shows what its fields, and no other, amount to. *)
LEMMA PageShows ==
  OnShow = ShownBy(selected, Effective, CategoryTotals, servers, map, metricOverrides,
                   growth.management)
<1> USE DEF ServersOf, LoadsOf, Migrateable, Selected, NiosRows, Migrating,
            ServersHeld, MembersHeld, Loaded, Going, NiosOf, MigratingOf
<1>1. TotalServerTokens = NeededBy(selected, servers, map, metricOverrides)
  BY DEF TotalServerTokens, ServersNeeded, NeededBy
<1>2. HybridScenario = HybridBy(selected, Effective, servers, map, metricOverrides, growth.management)
  BY DEF HybridScenario, PlansNios, HybridBy
<1>3. ScenarioCards = CardsBy(Effective, servers, map, metricOverrides, growth.management)
  BY DEF ScenarioCards, CardsBy
<1>4. ADScenarioCards = ADCardsBy(servers, map, metricOverrides)
  BY DEF ADScenarioCards, ADCardsBy
<1>5. TotalTokens = WithBuffer(SumFunction(CategoryTotals), growth.management)
  BY DEF TotalTokens
<1> HIDE DEF ServersOf, LoadsOf, Migrateable, Selected, NiosRows, Migrating,
            ServersHeld, MembersHeld, Loaded, Going, NiosOf, MigratingOf
<1> QED
  BY <1>1, <1>2, <1>3, <1>4, <1>5 DEF OnShow, ShownBy

LEMMA PageShowsNext ==
  (OnShow = ShownBy(selected, Effective, CategoryTotals, servers, map, metricOverrides,
                    growth.management))'
  BY PageShows, PTL

(* The totals by category are those of the rows, unless those of the       *)
(* server are shown.                                                       *)
LEMMA TotalsOfRows == OwnTotals => CategoryTotals = TotalsBy(Effective)
  BY DEF OwnTotals, CategoryTotals, TotalsBy

LEMMA TotalsOfRowsNext == (OwnTotals => CategoryTotals = TotalsBy(Effective))'
  BY TotalsOfRows, PTL

(* A file says what its own fields show.                                   *)
FileShows == (file # Nothing /\ file.shown # Nothing) => file.shown = ShownByFile(file)

(* A file is written with what is on show. *)
LEMMA SaveStep == ASSUME SaveSession PROVE FileShows'
<1>1. /\ file'.selected = selected /\ file'.findings = findings /\ file'.overrides = overrides
      /\ file'.map = map /\ file'.servers = servers /\ file'.metricOverrides = metricOverrides
      /\ file'.growth = growth.management
      /\ file'.shown = IF OwnTotals THEN OnShow ELSE Nothing
  BY DEF SaveSession
<1>2. CASE OwnTotals
  <2>1. file'.shown = ShownBy(selected, Effective, TotalsBy(Effective), servers, map,
                              metricOverrides, growth.management)
    BY <1>1, <1>2, PageShows, TotalsOfRows
  <2>2. ShownByFile(file') = ShownBy(selected, Effective, TotalsBy(Effective), servers, map,
                                     metricOverrides, growth.management)
    BY <1>1 DEF ShownByFile, Effective
  <2> QED
    BY <2>1, <2>2 DEF FileShows
<1>3. CASE ~OwnTotals
  BY <1>1, <1>3 DEF FileShows, Nothing
<1> QED
  BY <1>2, <1>3

(* What is on show after it is loaded is computed from its fields. *)
LEMMA LoadStep ==
  ASSUME FileShows, LoadSession, file.shown # Nothing
  PROVE  OnShow' = file.shown
<1>1. /\ file # Nothing
      /\ selected' = file.selected /\ findings' = file.findings /\ overrides' = file.overrides
      /\ map' = file.map /\ servers' = file.servers /\ metricOverrides' = file.metricOverrides
      /\ growth'.management = file.growth /\ aggregates' = Nothing
  BY DEF LoadSession, Restart
<1>2. Effective' = EffectiveFindings(file.findings, file.overrides)
  BY <1>1 DEF Effective
<1>3. CategoryTotals' = TotalsBy(Effective')
  BY <1>1, TotalsOfRowsNext DEF OwnTotals, Nothing
<1>4. OnShow' = ShownBy(selected', Effective', CategoryTotals', servers', map', metricOverrides',
                        growth'.management)
  BY PageShowsNext
<1> QED
  BY <1>1, <1>2, <1>3, <1>4 DEF FileShows, ShownByFile

LEMMA FileStep == FileShows /\ [Next]_vars => FileShows'
<1> SUFFICES ASSUME FileShows, [Next]_vars PROVE FileShows'
  OBVIOUS
<1>1. file' = file \/ SaveSession
  BY DEF Next, vars, StartFromSources, RetryScan, StartScan, StartAccepted, ScanFails, ScanCompletes,
         GoBack, ViewResults, ToggleProvider, Edit, EditCount, ResetCount, ResetCounts,
         ToggleMigration, SetFormFactor, ToggleAllMigration, TypeLoad, ResetLoad, EditMember,
         EditController, ResetServers, SetGrowth, SetVariant, StartOver, LoadSession
<1>2. CASE file' = file
  BY <1>2 DEF FileShows
<1> QED
  BY <1>1, <1>2, SaveStep

(* A session file brings back the totals, the server tokens, the hybrid    *)
(* totals and the cards it was saved with, however counts, loads and maps  *)
(* were edited, whatever the wizard held when it was loaded                *)
(* (LoadShowsSaved: exportSession, restoreSession): FileShows says that    *)
(* what it was saved with is computed from its fields.                     *)
THEOREM FilesBringBack == Spec => LoadShowsSaved
<1>1. Init => FileShows
  BY DEF Init, FileShows
<1>2. FileShows /\ [Next]_vars => [(LoadSession /\ file.shown # Nothing) => OnShow' = file.shown]_vars
  BY LoadStep
<1> QED
  BY <1>1, <1>2, FileStep, PTL DEF Spec, LoadShowsSaved

-----------------------------------------------------------------------------
(* Rows and servers.  Whatever the wizard, its scan and its file hold are  *)
(* finite sets of rows with counts, and of servers with names of their own, *)
(* so that what is computed of them is a sum.                              *)

LEMMA RowsTogether ==
  ASSUME NEW A, NEW B, AreRows(A), AreRows(B)
  PROVE  AreRows(A \cup B)
  BY FS_Union DEF AreRows

LEMMA FewerRows ==
  ASSUME NEW A, NEW B \in SUBSET A, AreRows(A)
  PROVE  AreRows(B)
  BY FS_Subset DEF AreRows

TypedCounts(typed) == \A k \in DOMAIN typed : typed[k].count \in Nat

MachinesOK(machines) ==
  DOMAIN machines = Planned /\ \A p \in Planned : AreServers(p, machines[p])

NumbersInv ==
  /\ selected \subseteq Providers
  /\ AreRows(findings) /\ TypedCounts(overrides) /\ MachinesOK(servers)
  /\ run \in {"asked", "polling"} =>
       closure.selected \subseteq Providers /\ AreRows(closure.findings)
  /\ file # Nothing =>
       /\ file.selected \subseteq Providers
       /\ AreRows(file.findings) /\ TypedCounts(file.overrides) /\ MachinesOK(file.servers)

ScanRows(outcome, chosen) ==
  UNION {{RowOfScan(f, scans) : f \in outcome[p].rows} : p \in chosen}

LEMMA RowsOfScan ==
  ASSUME NEW chosen \in SUBSET Providers, NEW outcome,
         \A p \in chosen : outcome[p] \in Outcomes[p]
  PROVE  AreRows(ScanRows(outcome, chosen))
<1> DEFINE rowsOf == [p \in chosen |-> {RowOfScan(f, scans) : f \in outcome[p].rows}]
           rows == UNION {rowsOf[p] : p \in chosen}
<1>1. ASSUME NEW p \in chosen PROVE AreRows(rowsOf[p])
  <2> DEFINE S == outcome[p].rows
             h == [f \in S |-> RowOfScan(f, scans)]
  <2>1. AreRows(S)
    BY OutcomesAssumption
  <2>2. rowsOf[p] = {h[f] : f \in S} /\ DOMAIN h = S
    OBVIOUS
  <2>3. IsFiniteSet(rowsOf[p])
    <3> HIDE DEF h, rowsOf, S
    <3> QED
      BY <2>1, <2>2, FiniteImage DEF AreRows
  <2>4. \A f \in S : /\ {"count", "rate"} \subseteq DOMAIN RowOfScan(f, scans)
                      /\ RowOfScan(f, scans).count \in Nat /\ RowOfScan(f, scans).rate \in Nat \ {0}
    BY <2>1 DEF AreRows, RowOfScan
  <2>5. \A f \in rowsOf[p] : /\ {"count", "rate"} \subseteq DOMAIN f
                              /\ f.count \in Nat /\ f.rate \in Nat \ {0}
    BY <2>4
  <2> QED
    BY <2>3, <2>5 DEF AreRows
<1>2. IsFiniteSet(chosen)
  BY ProvidersAssumption, FS_Subset
<1>3. DOMAIN rowsOf = chosen
  OBVIOUS
<1>4. ScanRows(outcome, chosen) = rows
  BY DEF ScanRows
<1> HIDE DEF rowsOf
<1>5. IsFiniteSet({rowsOf[p] : p \in chosen})
  BY <1>2, <1>3, FiniteImage
<1>6. IsFiniteSet(rows)
  BY <1>1, <1>5, FS_UNION DEF AreRows
<1> QED
  BY <1>1, <1>4, <1>6 DEF AreRows

(* The results of a scan are rows and servers as the outcomes are. *)
LEMMA NumbersOfScan ==
  ASSUME NumbersInv, ScanCompletes
  PROVE  AreRows(findings') /\ MachinesOK(servers')
<1>1. closure.selected \subseteq Providers /\ AreRows(closure.findings) /\ MachinesOK(servers)
  BY DEF NumbersInv, ScanCompletes
<1>2. PICK outcome \in [closure.selected -> UNION {Outcomes[p] : p \in Providers}] :
        /\ \A p \in closure.selected : outcome[p] \in Outcomes[p]
        /\ findings' = MergeFindings(ScanRows(outcome, closure.selected), closure)
        /\ servers' = [p \in Planned |->
             IF p \in closure.selected /\ outcome[p].servers # {} THEN outcome[p].servers
             ELSE servers[p]]
  BY DEF ScanCompletes, ScanRows
<1> DEFINE rows == ScanRows(outcome, closure.selected)
           kept == {f \in closure.findings : f.provider \in closure.imported \ closure.selected}
<1>3. findings' = kept \cup rows
  BY <1>2 DEF MergeFindings
<1>4. AreRows(rows)
  BY <1>1, <1>2, RowsOfScan
<1>5. AreRows(kept)
  BY <1>1, FewerRows
<1>6. AreRows(findings')
  <2> HIDE DEF rows, kept
  <2> QED
    BY <1>3, <1>4, <1>5, RowsTogether
<1>7. \A p \in closure.selected : AreServers(p, outcome[p].servers)
  BY <1>1, <1>2, OutcomesAssumption
<1>8. MachinesOK(servers')
  BY <1>1, <1>2, <1>7 DEF MachinesOK
<1> QED
  BY <1>6, <1>8

LEMMA FewerCounts ==
  ASSUME NEW typed, NEW K \in SUBSET DOMAIN typed, TypedCounts(typed)
  PROVE  TypedCounts(Restrict(typed, K))
  BY DEF TypedCounts, Restrict

LEMMA NoServersOK == ASSUME NEW p PROVE AreServers(p, {})
  BY FS_EmptySet DEF AreServers

LEMMA NumbersInit == Init => NumbersInv
<1> SUFFICES ASSUME Init PROVE NumbersInv
  OBVIOUS
<1>1. AreRows({})
  BY FS_EmptySet DEF AreRows
<1>2. TypedCounts(<<>>)
  BY DEF TypedCounts
<1>3. MachinesOK(NoServers)
  BY NoServersOK DEF MachinesOK, NoServers
<1> QED
  BY <1>1, <1>2, <1>3 DEF Init, NumbersInv

LEMMA NumbersStep == NumbersInv /\ [Next]_vars => NumbersInv'
<1> SUFFICES ASSUME NumbersInv, [Next]_vars PROVE NumbersInv'
  OBVIOUS
<1> USE DEF choice, data, plan
<1>1. ASSUME UNCHANGED <<closure, findings, overrides, servers, file>>, selected' \subseteq Providers,
             run' = run \/ run' \notin {"asked", "polling"} \/ run \in {"asked", "polling"}
      PROVE  NumbersInv'
  BY <1>1 DEF NumbersInv
<1>2. ASSUME Edit, TypedCounts(overrides') PROVE NumbersInv'
  BY <1>2 DEF NumbersInv, Edit
<1>3. selected \subseteq Providers /\ TypedCounts(overrides)
  BY DEF NumbersInv
<1>4. CASE StartFromSources \/ RetryScan
  <2>1. StartScan
    BY <1>4 DEF StartFromSources, RetryScan
  <2>2. AreRows({})
    BY FS_EmptySet DEF AreRows
  <2>3. TypedCounts(KeptOverrides)
    <3> DEFINE K == {k \in DOMAIN overrides : k[1] \in imported \ selected}
    <3>1. KeptOverrides = Restrict(overrides, K) /\ K \in SUBSET DOMAIN overrides
      BY DEF KeptOverrides
    <3> HIDE DEF K
    <3> QED
      BY <1>3, <3>1, FewerCounts
  <2> QED
    BY <2>1, <2>2, <2>3 DEF StartScan, NumbersInv
<1>5. CASE ScanCompletes
  <2>1. run' = "done" /\ UNCHANGED <<selected, overrides, file>>
    BY <1>5 DEF ScanCompletes
  <2> QED
    BY <1>5, <2>1, NumbersOfScan DEF NumbersInv
<1>6. CASE StartAccepted
  BY <1>1, <1>3, <1>6 DEF StartAccepted
<1>7. CASE ScanFails
  BY <1>7 DEF ScanFails, NumbersInv
<1>8. CASE GoBack
  <2>1. CASE page = "scanning"
    <3>1. run' \notin {"asked", "polling"} /\ UNCHANGED <<selected, findings, overrides, servers, file>>
      BY <1>8, <2>1 DEF GoBack
    <3> QED
      BY <3>1 DEF NumbersInv
  <2>2. CASE page # "scanning"
    BY <1>1, <1>3, <1>8, <2>2 DEF GoBack
  <2> QED
    BY <2>1, <2>2
<1>9. CASE ViewResults
  BY <1>1, <1>3, <1>9 DEF ViewResults
<1>10. ASSUME NEW p \in Providers, ToggleProvider(p) PROVE NumbersInv'
  BY <1>1, <1>3, <1>10 DEF ToggleProvider
<1>11. ASSUME NEW f \in findings, NEW n \in Counts, EditCount(f, n) PROVE NumbersInv'
  <2> DEFINE k == FindingKey(f)
             edit == [count |-> n, origin |-> f.origin]
  <2>1. CASE overrides' = Without(overrides, k)
    BY <1>2, <1>3, <1>11, <2>1, FewerCounts DEF Without, EditCount
  <2>2. CASE overrides' = Put(overrides, k, edit)
    <3>1. n \in Nat
      BY InputsAssumption
    <3>2. TypedCounts(overrides')
      BY <1>3, <2>2, <3>1 DEF Put, TypedCounts
    <3> QED
      BY <1>2, <1>11, <3>2 DEF EditCount
  <2> QED
    BY <1>11, <2>1, <2>2 DEF EditCount
<1>12. ASSUME NEW f \in findings, ResetCount(f) PROVE NumbersInv'
  <2>1. TypedCounts(Without(overrides, FindingKey(f)))
    BY <1>3, FewerCounts DEF Without
  <2> QED
    BY <1>2, <1>12, <2>1 DEF ResetCount
<1>13. CASE ResetCounts
  <2>1. TypedCounts(<<>>)
    BY DEF TypedCounts
  <2> QED
    BY <1>2, <1>13, <2>1 DEF ResetCounts
<1>14. ASSUME NEW p \in Planned,
              \/ ToggleAllMigration(p)
              \/ \E name \in Targets(p) : ToggleMigration(p, name) \/ SetFormFactor(p, name)
       PROVE NumbersInv'
  <2>1. Edit /\ overrides' = overrides
    BY <1>14 DEF ToggleAllMigration, ToggleMigration, SetFormFactor
  <2> QED
    BY <1>2, <1>3, <2>1
<1>15. ASSUME \/ \E field \in Typed :
                   \/ \E m \in Displayed : EditMember(m, field)
                   \/ \E m \in DisplayedControllers : EditController(m, field)
              \/ ResetServers
              \/ \E m \in Displayed : \E configuration \in Configurations(m) : SetVariant(m, configuration)
              \/ \E kind \in DOMAIN growth, percent \in Buffers : SetGrowth(kind, percent)
       PROVE NumbersInv'
  <2>1. Edit /\ overrides' = overrides
    BY <1>15 DEF EditMember, EditController, TypeLoad, ResetLoad, ResetServers, SetVariant, SetGrowth
  <2> QED
    BY <1>2, <1>3, <2>1
<1>16. CASE SaveSession
  <2>1. /\ UNCHANGED <<selected, run, closure, findings, overrides, servers>>
        /\ file'.selected = selected /\ file'.findings = findings /\ file'.overrides = overrides
        /\ file'.servers = servers
    BY <1>16 DEF SaveSession
  <2> QED
    BY <2>1 DEF NumbersInv
<1>17. CASE StartOver
  <2>1. /\ run' = "none" /\ findings' = {} /\ selected' = {} /\ file' = file /\ overrides' = <<>>
        /\ servers' = [servers EXCEPT !["nios"] = {}]
    BY <1>17 DEF StartOver, Restart
  <2>2. AreRows({}) /\ TypedCounts(<<>>)
    BY FS_EmptySet DEF AreRows, TypedCounts
  <2>3. MachinesOK(servers')
    BY <2>1, NoServersOK DEF NumbersInv, MachinesOK, Planned
  <2> QED
    BY <2>1, <2>2, <2>3 DEF NumbersInv
<1>18. CASE LoadSession
  <2>1. /\ file # Nothing /\ run' = "none" /\ file' = file /\ servers' = file.servers
        /\ findings' = file.findings /\ overrides' = file.overrides /\ selected' = file.selected
    BY <1>18 DEF LoadSession, Restart
  <2> QED
    BY <2>1 DEF NumbersInv
<1>19. CASE UNCHANGED vars
  BY <1>1, <1>3, <1>19 DEF vars
<1> QED
  BY <1>4, <1>5, <1>6, <1>7, <1>8, <1>9, <1>10, <1>11, <1>12, <1>13, <1>14, <1>15, <1>16, <1>17,
     <1>18, <1>19
  DEF Next

-----------------------------------------------------------------------------
(* Tokens of servers: those that move are among all.                       *)

(* A server of any load has one of the tiers. *)
LEMMA OneOfTheTiers ==
  \A load : \E i \in 1..6 : CalcServerTokenTier(load, "nios-x") = ServerTiers[i]
<1> SUFFICES ASSUME NEW load
             PROVE  \E i \in 1..6 : CalcServerTokenTier(load, "nios-x") = ServerTiers[i]
  OBVIOUS
<1> DEFINE fitting == {i \in DOMAIN ServerTiers : Covers(ServerTiers[i], load)}
<1>1. DOMAIN ServerTiers = 1..6 /\ Len(ServerTiers) = 6
  BY DEF ServerTiers
<1>2. SmallestTier(ServerTiers, fitting) \in 1..6
  <2>1. CASE fitting = {}
    BY <1>1, <2>1 DEF SmallestTier
  <2>2. CASE fitting # {}
    <3>1. fitting \in SUBSET (1..6) /\ fitting \in SUBSET Nat
      BY <1>1
    <3> HIDE DEF fitting
    <3>2. \E n \in fitting : \A m \in fitting : n <= m
      BY <2>2, <3>1, LeastNumber
    <3> QED
      BY <2>2, <3>1, <3>2 DEF SmallestTier
  <2> QED
    BY <2>1, <2>2
<1>3. CalcServerTokenTier(load, "nios-x") = ServerTiers[SmallestTier(ServerTiers, fitting)]
  BY DEF CalcServerTokenTier, TierFor
<1> HIDE DEF fitting
<1> QED
  BY <1>2, <1>3

(* Its tokens are a number. *)
LEMMA TierTokens == \A load : CalcServerTokenTier(load, "nios-x").tokens \in Nat
<1>1. \A i \in 1..6 : ServerTiers[i].tokens \in Nat
  BY DEF ServerTiers
<1> QED
  BY <1>1, OneOfTheTiers

NiosXOf(loads) == [load \in loads |-> CalcServerTokenTier(load, "nios-x").tokens]

(* More servers need no fewer tokens. *)
LEMMA NiosXGrows ==
  ASSUME NEW A, NEW B, IsFiniteSet(B), A \subseteq B
  PROVE  NiosXTokens(A) <= NiosXTokens(B) /\ NiosXTokens(A) \in Nat /\ NiosXTokens(B) \in Nat
<1>1. NiosXOf(A) \in [A -> Nat] /\ NiosXOf(B) \in [B -> Nat] /\ \A x \in A : NiosXOf(A)[x] <= NiosXOf(B)[x]
  BY TierTokens DEF NiosXOf
<1>2. NiosXTokens(A) = SumFunction(NiosXOf(A)) /\ NiosXTokens(B) = SumFunction(NiosXOf(B))
  BY DEF NiosXTokens, NiosXOf
<1>3. IsFiniteSet(A)
  BY FS_Subset
<1> QED
  BY <1>1, <1>2, <1>3, SumGrows, SumNat

(* No member needs no instance of XaaS. *)
LEMMA XaasNone == XaasTokens({}) = 0
<1>1. ConsolidateXaasInstances({}) = <<>>
  BY DEF ConsolidateXaasInstances
<1> DEFINE f == [i \in DOMAIN <<>> |-> XaasInstanceTokens(<<>>[i])]
<1>2. XaasTokens({}) = SumFunction(f)
  BY <1>1 DEF XaasTokens
<1>3. DOMAIN f = {}
  OBVIOUS
<1> QED
  BY <1>2, <1>3, SumEmpty

OnNiosX(targets) == \A name \in DOMAIN targets : targets[name] = "nios-x"

(* Without members on XaaS the tokens are those of servers. *)
LEMMA AllOnNiosX ==
  ASSUME NEW loads, IsFiniteSet(loads), NEW targets,
         \A load \in loads : load.name \in DOMAIN targets => targets[load.name] = "nios-x"
  PROVE  ServerTokens(loads, targets) = NiosXTokens(loads)
<1> DEFINE onXaas == {load \in loads : load.name \in DOMAIN targets /\ targets[load.name] = "nios-xaas"}
<1>1. onXaas = {} /\ loads \ onXaas = loads
  <2>1. "nios-x" # "nios-xaas"
    OBVIOUS
  <2> QED
    BY <2>1
<1>2. ServerTokens(loads, targets) = NiosXTokens(loads) + XaasTokens({})
  <2>1. ServerTokens(loads, targets) = NiosXTokens(loads \ onXaas) + XaasTokens(onXaas)
    BY DEF ServerTokens
  <2> HIDE DEF onXaas
  <2> QED
    BY <1>1, <2>1
<1>3. NiosXTokens(loads) \in Nat
  BY NiosXGrows
<1> QED
  BY <1>2, <1>3, XaasNone

(* The servers of a provider are finitely many and have names of their     *)
(* own.                                                                    *)
LEMMA FiniteServers ==
  ASSUME NumbersInv, NEW p \in Planned
  PROVE  AreServers(p, ServersOf(p)) /\ IsFiniteSet(ServersOf(p)) /\ Migrateable(p) \subseteq ServersOf(p)
<1>1. AreServers(p, servers[p])
  BY DEF NumbersInv, MachinesOK
<1> QED
  BY <1>1, InputsAssumption DEF AreServers, ServersOf, Migrateable

LEMMA FiniteLoads ==
  ASSUME NEW p, NEW members, IsFiniteSet(members)
  PROVE  IsFiniteSet(LoadsOf(p, members))
<1> DEFINE h == [m \in members |-> ApplyServerOverrides(m, metricOverrides)]
<1>1. LoadsOf(p, members) = {h[m] : m \in members} /\ DOMAIN h = members
  BY DEF LoadsOf
<1> HIDE DEF h
<1> QED
  BY <1>1, FiniteImage

(* The servers that move need no more than all. *)
LEMMA MovingWithinNeeded ==
  ASSUME NumbersInv, NEW p \in Planned, p \in selected, OnNiosX(map[p])
  PROVE  /\ ServerTokens(LoadsOf(p, Selected(p, Migrateable(p))), map[p]) \in Nat
         /\ ServersNeeded(p) \in Nat
         /\ ServerTokens(LoadsOf(p, Selected(p, Migrateable(p))), map[p]) <= ServersNeeded(p)
<1> DEFINE moving == LoadsOf(p, Selected(p, Migrateable(p)))
           some   == LoadsOf(p, Selected(p, ServersOf(p)))
           all    == LoadsOf(p, Migrateable(p))
<1>1. IsFiniteSet(ServersOf(p)) /\ Migrateable(p) \subseteq ServersOf(p)
  BY FiniteServers
<1>2. /\ IsFiniteSet(Migrateable(p)) /\ IsFiniteSet(Selected(p, Migrateable(p)))
      /\ IsFiniteSet(Selected(p, ServersOf(p)))
      /\ Selected(p, Migrateable(p)) \subseteq Selected(p, ServersOf(p))
      /\ Selected(p, Migrateable(p)) \subseteq Migrateable(p)
  BY <1>1, FS_Subset DEF Selected
<1>3. IsFiniteSet(moving) /\ IsFiniteSet(some) /\ IsFiniteSet(all)
  BY <1>2, FiniteLoads
<1>4. moving \subseteq some /\ moving \subseteq all
  BY <1>2 DEF LoadsOf
<1> HIDE DEF moving, some, all
<1>5. ServerTokens(moving, map[p]) = NiosXTokens(moving) /\ ServerTokens(some, map[p]) = NiosXTokens(some)
  BY <1>3, AllOnNiosX DEF OnNiosX
<1>6. /\ NiosXTokens(moving) \in Nat /\ NiosXTokens(some) \in Nat /\ NiosXTokens(all) \in Nat
      /\ NiosXTokens(moving) <= NiosXTokens(some) /\ NiosXTokens(moving) <= NiosXTokens(all)
  BY <1>3, <1>4, NiosXGrows
<1>7. ServersNeeded(p) = NiosXTokens(all) \/ ServersNeeded(p) = ServerTokens(some, map[p])
  BY DEF ServersNeeded, some, all
<1> QED
  BY <1>5, <1>6, <1>7 DEF moving

(* The tokens of the servers of a provider that move. *)
ToServers(p) ==
  IF p \notin selected THEN 0
  ELSE ServerTokens(LoadsOf(p, Selected(p, Migrateable(p))), map[p])

LEMMA HybridServers == HybridScenario.servers = ToServers("nios") + ToServers("microsoft")
  BY DEF HybridScenario, ToServers

(* This is so for both providers. *)
LEMMA HybridFits ==
  ASSUME NumbersInv, \A p \in Planned : OnNiosX(map[p])
  PROVE  HybridScenario.servers <= TotalServerTokens
<1>1. ASSUME NEW p \in Planned
      PROVE  ToServers(p) \in Nat /\ ServersNeeded(p) \in Nat /\ ToServers(p) <= ServersNeeded(p)
  BY MovingWithinNeeded DEF ToServers, ServersNeeded
<1>2. "nios" \in Planned /\ "microsoft" \in Planned
  BY DEF Planned
<1> QED
  BY <1>1, <1>2, HybridServers DEF TotalServerTokens

(* With all servers that move going to NIOS-X, the hybrid scenario needs   *)
(* no more server tokens than the total, whatever loads were typed         *)
(* (HybridWithinTotal: hybridScenario, totalServerTokens).                 *)
THEOREM MovingFits == Spec => []HybridWithinTotal
<1>1. NumbersInv => HybridWithinTotal
  BY HybridFits DEF HybridWithinTotal, OnNiosX
<1> QED
  BY <1>1, NumbersInit, NumbersStep, PTL DEF Spec

-----------------------------------------------------------------------------
(* What is computed in several places.                                     *)

(* No domain controller is a master without workload. *)
LEMMA NoInfraControllers ==
  ASSUME NumbersInv
  PROVE  Migrateable("microsoft") = ServersOf("microsoft")
<1>1. AreServers("microsoft", ServersOf("microsoft"))
  BY FiniteServers DEF Planned
<1> QED
  BY <1>1 DEF AreServers, Migrateable, IsInfraOnlyMember

(* The hybrid totals are those of the cards of the two planners. *)
LEMMA HybridIsItsCard ==
  ASSUME NumbersInv, PlansNios
  PROVE  /\ HybridScenario.management = ScenarioCards.hybrid.management
         /\ HybridScenario.servers = ScenarioCards.hybrid.servers +
              IF "microsoft" \in selected THEN ADScenarioCards.hybrid ELSE 0
<1>1. Effective \ NiosRows = {f \in Effective : f.provider # "nios"}
  BY DEF NiosRows
<1>2. HybridScenario.management = ScenarioCards.hybrid.management
  BY <1>1 DEF HybridScenario, ScenarioCards
<1>3. ToServers("nios") = ScenarioCards.hybrid.servers
  BY DEF PlansNios, ToServers, ScenarioCards
<1>4. ToServers("microsoft") = IF "microsoft" \in selected THEN ADScenarioCards.hybrid ELSE 0
  BY NoInfraControllers DEF ToServers, ADScenarioCards
<1> QED
  BY <1>2, <1>3, <1>4, HybridServers

(* No rows need no licence. *)
LEMMA NoLicences == CalcNiosTokens({}) = 0
<1>1. ASSUME NEW c PROVE CountIn({}, c) = 0
  <2> DEFINE f == [g \in {h \in {} : h.category = c} |-> g.count]
  <2>1. DOMAIN f = {} /\ CountIn({}, c) = SumFunction(f)
    BY DEF CountIn
  <2> QED
    BY <2>1, SumEmpty
<1>2. \A c \in Categories : CeilDiv(CountIn({}, c), NiosTokenRates[c]) = 0
  <2>1. /\ NiosTokenRates["ddi"] = 50 /\ NiosTokenRates["ip"] = 25 /\ NiosTokenRates["asset"] = 13
    BY DEF NiosTokenRates
  <2> QED
    BY <1>1, <2>1 DEF CeilDiv, Categories
<1>3. {CeilDiv(CountIn({}, c), NiosTokenRates[c]) : c \in Categories} = {0}
  BY <1>2 DEF Categories
<1>4. CalcNiosTokens({}) = Max({CeilDiv(CountIn({}, c), NiosTokenRates[c]) : c \in Categories})
  BY DEF CalcNiosTokens
<1>5. Max({0}) = 0
  BY DEF Max
<1> QED
  BY <1>3, <1>4, <1>5

(* The planner and the servers of the document that is saved are those of  *)
(* the cards.                                                              *)
LEMMA DocumentAgrees ==
  ASSUME NumbersInv, PlansNios
  PROVE  /\ ClientDocument.planner.hybrid.uddi + ClientDocument.planner.hybrid.nios
              = HybridScenario.management
         /\ ClientDocument.planner.full.uddi = ScenarioCards.full.management
         /\ ClientDocument.servers = ScenarioCards.hybrid.servers
<1>1. ClientDocument.planner = PlannerSection /\ ClientDocument.servers = ServerSection
  BY DEF ClientDocument, Put, PlansNios
<1>2. Effective \ NiosRows = {f \in Effective : f.provider # "nios"}
  BY DEF NiosRows
<1>3. PlannerSection.full.uddi = ScenarioCards.full.management
  BY <1>2 DEF PlannerSection, ScenarioCards
<1>4. PlannerSection.hybrid.nios = CalcNiosTokens(NiosRows \ Migrating(NiosRows))
  BY NoLicences DEF PlannerSection
<1>5. PlannerSection.hybrid.uddi + PlannerSection.hybrid.nios = HybridScenario.management
  BY <1>4 DEF PlannerSection, HybridScenario
<1>6. ServerSection = ScenarioCards.hybrid.servers
  BY DEF ServerSection, ScenarioCards, PlansNios
<1> QED
  BY <1>1, <1>3, <1>5, <1>6

(* Loads have the names of their servers. *)
LEMMA LoadNames ==
  ASSUME NEW p, NEW members
  PROVE  \A load \in LoadsOf(p, members) : \E m \in members : load.name = m.name
<1> SUFFICES ASSUME NEW m \in members PROVE ApplyServerOverrides(m, metricOverrides).name = m.name
  BY DEF LoadsOf
<1> QED
  BY DEF ApplyServerOverrides

(* Servers none of which is selected count as servers of NIOS-X. *)
LEMMA NoneMoves ==
  ASSUME NumbersInv, NEW p \in Planned, NEW members \in SUBSET ServersOf(p),
         Selected(p, members) = {}
  PROVE  ServerTokens(LoadsOf(p, members), map[p]) = NiosXTokens(LoadsOf(p, members))
<1>1. IsFiniteSet(members)
  BY FiniteServers, FS_Subset
<1>2. IsFiniteSet(LoadsOf(p, members))
  BY <1>1, FiniteLoads
<1>3. \A load \in LoadsOf(p, members) : load.name \notin DOMAIN map[p]
  BY LoadNames DEF Selected
<1> QED
  BY <1>2, <1>3, AllOnNiosX

(* The controllers of the document and of the calculator are those of the  *)
(* cards.                                                                  *)
LEMMA ControllersAgree ==
  ASSUME NumbersInv
  PROVE  /\ "ad" \in DOMAIN ClientDocument =>
              ClientDocument.ad = IF DOMAIN map["microsoft"] = {} THEN ADScenarioCards.full
                                  ELSE ADScenarioCards.hybrid
         /\ "microsoft" \in selected => ControllerCalculator = ServersNeeded("microsoft")
<1> DEFINE all == ServersOf("microsoft")
<1>1. DOMAIN map["microsoft"] = {} =>
        ServerTokens(LoadsOf("microsoft", all), map["microsoft"]) = NiosXTokens(LoadsOf("microsoft", all))
  <2>1. "microsoft" \in Planned
    BY DEF Planned
  <2>2. DOMAIN map["microsoft"] = {} => Selected("microsoft", all) = {}
    BY DEF Selected
  <2> QED
    BY <2>1, <2>2, NoneMoves
<1>2. "ad" \in DOMAIN ClientDocument => ClientDocument.ad = ADServerSection
  BY DEF ClientDocument, Put
<1>3. ADServerSection = IF DOMAIN map["microsoft"] = {} THEN ADScenarioCards.full
                        ELSE ADScenarioCards.hybrid
  BY <1>1 DEF ADServerSection, ADScenarioCards
<1>4. "microsoft" \in selected => ControllerCalculator = ServersNeeded("microsoft")
  BY <1>1, NoInfraControllers DEF ControllerCalculator, DisplayedControllers, ServersNeeded
<1> QED
  BY <1>2, <1>3, <1>4

(* The calculator of members says what the planner says. *)
LEMMA MembersAgree ==
  ASSUME NumbersInv
  PROVE  MemberCalculator = IF Selected("nios", Migrateable("nios")) = {}
                            THEN ScenarioCards.full.servers ELSE ScenarioCards.hybrid.servers
<1>1. "nios" \in Planned /\ Migrateable("nios") \in SUBSET ServersOf("nios")
  BY DEF Planned, Migrateable
<1>2. CASE Selected("nios", Migrateable("nios")) = {}
  <2>1. Displayed = Migrateable("nios")
    BY <1>2 DEF Displayed
  <2>2. ServerTokens(LoadsOf("nios", Migrateable("nios")), map["nios"])
          = NiosXTokens(LoadsOf("nios", Migrateable("nios")))
    BY <1>1, <1>2, NoneMoves
  <2> QED
    BY <1>2, <2>1, <2>2 DEF MemberCalculator, ScenarioCards
<1>3. CASE Selected("nios", Migrateable("nios")) # {}
  BY <1>3 DEF MemberCalculator, Displayed, ScenarioCards
<1> QED
  BY <1>2, <1>3

(* Bars of servers. *)
BarsOf(p, loads) == {<<p, load>> : load \in loads}
ListedServers(p) ==
  IF p \notin selected THEN {} ELSE IF p = "nios" THEN Migrateable(p) ELSE DisplayedControllers

LEMMA PlannedFinite == IsFiniteSet(Planned)
  BY ProvidersAssumption, FS_Subset

(* The servers with a bar are servers of the provider. *)
LEMMA ListedFinite ==
  ASSUME NumbersInv, NEW p \in Planned
  PROVE  IsFiniteSet(LoadsOf(p, ListedServers(p))) /\ ListedServers(p) \subseteq ServersOf(p)
<1>1. ListedServers(p) \subseteq ServersOf(p)
  BY DEF ListedServers, DisplayedControllers, Migrateable, Selected, Planned
<1>2. IsFiniteSet(ListedServers(p))
  BY <1>1, FiniteServers, FS_Subset
<1> QED
  BY <1>1, <1>2, FiniteLoads

(* As long as no controller goes to XaaS, their tokens are those needed. *)
LEMMA ServersListed ==
  ASSUME NumbersInv, OnNiosX(map["microsoft"]), NEW p \in Planned
  PROVE  ServersNeeded(p) = NiosXTokens(LoadsOf(p, ListedServers(p)))
<1>1. NiosXTokens({}) = 0
  <2>1. DOMAIN NiosXOf({}) = {} /\ NiosXTokens({}) = SumFunction(NiosXOf({}))
    BY DEF NiosXOf, NiosXTokens
  <2> QED
    BY <2>1, SumEmpty
<1>2. CASE p \notin selected
  <2>1. LoadsOf(p, ListedServers(p)) = {}
    BY <1>2 DEF LoadsOf, ListedServers
  <2> QED
    BY <1>1, <1>2, <2>1 DEF ServersNeeded
<1>3. CASE p \in selected /\ p = "nios"
  BY <1>3 DEF ServersNeeded, ListedServers
<1>4. CASE p \in selected /\ p = "microsoft"
  <2>1. ListedServers(p) = DisplayedControllers
    BY <1>4 DEF ListedServers
  <2>2. CASE DOMAIN map[p] = {}
    BY <1>4, <2>1, <2>2, NoInfraControllers DEF ServersNeeded, DisplayedControllers
  <2>3. CASE DOMAIN map[p] # {}
    <3>1. ServersNeeded(p) = ServerTokens(LoadsOf(p, ListedServers(p)), map[p])
      BY <1>4, <2>1, <2>3 DEF ServersNeeded, DisplayedControllers
    <3> QED
      BY <1>4, <3>1, ListedFinite, AllOnNiosX DEF OnNiosX
  <2> QED
    BY <2>2, <2>3
<1> QED
  BY <1>2, <1>3, <1>4 DEF Planned

(* The bars of one provider add up to the tokens of its loads. *)
LEMMA BarsOfOne ==
  ASSUME NEW p, NEW loads, IsFiniteSet(loads), NEW f \in [BarsOf(p, loads) -> Int],
         \A load \in loads : f[<<p, load>>] = CalcServerTokenTier(load, "nios-x").tokens
  PROVE  SumFunction(f) = NiosXTokens(loads) /\ IsFiniteSet(BarsOf(p, loads))
<1> DEFINE h == [load \in loads |-> <<p, load>>]
           D == BarsOf(p, loads)
<1>1. D = {h[load] : load \in loads} /\ DOMAIN h = loads /\ h \in [loads -> D]
  BY DEF BarsOf
<1>2. IsFiniteSet(D)
  <2> HIDE DEF h, D
  <2> QED
    BY <1>1, FiniteImage
<1>3. NiosXOf(loads) \in [loads -> Int] /\ \A load \in loads : f[h[load]] = NiosXOf(loads)[load]
  BY TierTokens DEF NiosXOf
<1>5. \A x, y \in loads : h[x] = h[y] => x = y
  OBVIOUS
<1>6. \A bar \in D : \E load \in loads : h[load] = bar
  BY <1>1
<1>7. SumFunction(f) = SumFunction(NiosXOf(loads))
  <2> HIDE DEF h
  <2> QED
    BY <1>1, <1>2, <1>3, <1>5, <1>6, SumRenamed
<1> QED
  BY <1>2, <1>7 DEF NiosXTokens, NiosXOf

(* So the bars of both add up to the total. *)
LEMMA ServerBarsAgree ==
  ASSUME NumbersInv, OnNiosX(map["microsoft"])
  PROVE  SumFunction(ServerBars) = TotalServerTokens
<1> DEFINE loadsOf(p) == LoadsOf(p, ListedServers(p))
           D == UNION {BarsOf(p, loadsOf(p)) : p \in Planned}
           k == [bar \in D |-> bar[1]]
           g == [p \in Planned |-> NiosXTokens(loadsOf(p))]
           f == [bar \in D |-> CalcServerTokenTier(bar[2], "nios-x").tokens]
<1>1. ServerBars = f
  BY DEF ServerBars, ListedServers, BarsOf
<1>2. \A p \in Planned : IsFiniteSet(loadsOf(p)) /\ NiosXTokens(loadsOf(p)) \in Int
  BY ListedFinite, NiosXGrows
<1>3. f \in [D -> Int] /\ k \in [D -> Planned] /\ g \in [Planned -> Int]
  <2>1. f \in [D -> Int]
    BY TierTokens
  <2>2. k \in [D -> Planned]
    BY DEF BarsOf
  <2> QED
    BY <1>2, <2>1, <2>2
<1>4. ASSUME NEW p \in Planned
      PROVE  /\ IsFiniteSet(BarsOf(p, loadsOf(p)))
             /\ g[p] = SumFunction([bar \in {b \in D : k[b] = p} |-> f[bar]])
  <2> DEFINE B == {b \in D : k[b] = p}
             own == [bar \in B |-> f[bar]]
  <2>1. B = BarsOf(p, loadsOf(p))
    BY DEF BarsOf
  <2>2. own \in [BarsOf(p, loadsOf(p)) -> Int]
    BY <1>3, <2>1
  <2>3. \A load \in loadsOf(p) : own[<<p, load>>] = CalcServerTokenTier(load, "nios-x").tokens
    BY <2>1 DEF BarsOf
  <2>4. SumFunction(own) = NiosXTokens(loadsOf(p)) /\ IsFiniteSet(BarsOf(p, loadsOf(p)))
    <3> HIDE DEF own, loadsOf
    <3> QED
      BY <1>2, <2>2, <2>3, BarsOfOne
  <2> QED
    BY <2>4
<1>5. IsFiniteSet(D)
  <2>1. D = BarsOf("nios", loadsOf("nios")) \cup BarsOf("microsoft", loadsOf("microsoft"))
    BY DEF Planned
  <2>2. "nios" \in Planned /\ "microsoft" \in Planned
    BY DEF Planned
  <2> HIDE DEF D, loadsOf
  <2> QED
    BY <1>4, <2>1, <2>2, FS_Union
<1>6. SumFunction(f) = SumFunction(g)
  <2>1. \A p \in Planned : g[p] = SumFunction([bar \in {b \in D : k[b] = p} |-> f[bar]])
    BY <1>4
  <2> HIDE DEF D, k, g, f, loadsOf
  <2> QED
    BY <2>1, <1>3, <1>5, PlannedFinite, SumByGroup
<1>7. SumFunction(g) = g["nios"] + g["microsoft"]
  <2>1. "nios" # "microsoft" /\ g \in [{"nios", "microsoft"} -> Int]
    BY <1>3 DEF Planned
  <2> HIDE DEF g
  <2> QED
    BY <2>1, SumTwo
<1>8. g["nios"] = ServersNeeded("nios") /\ g["microsoft"] = ServersNeeded("microsoft")
  BY ServersListed DEF Planned
<1> QED
  BY <1>1, <1>6, <1>7, <1>8 DEF TotalServerTokens

(* The cards of members. *)
LEMMA MemberCardsAgree ==
  ASSUME NumbersInv, OnNiosX(map["nios"])
  PROVE  SumFunction([m \in DOMAIN MemberCards |-> MemberCards[m].servers]) = MemberCalculator
<1> DEFINE h == [m \in Displayed |-> ApplyServerOverrides(m, metricOverrides)]
           loads == LoadsOf("nios", Displayed)
           f == [m \in Displayed |-> CalcServerTokenTier(h[m], "nios-x").tokens]
<1>1. Displayed \subseteq ServersOf("nios") /\ AreServers("nios", ServersOf("nios"))
  BY FiniteServers DEF Displayed, Migrateable, Selected, Planned
<1>2. IsFiniteSet(Displayed) /\ IsFiniteSet(loads)
  BY <1>1, FS_Subset, FiniteLoads DEF AreServers
<1>3. /\ h \in [Displayed -> loads] /\ \A load \in loads : \E m \in Displayed : h[m] = load
      /\ f \in [Displayed -> Int]
  BY TierTokens DEF LoadsOf
<1>4. \A m, n \in Displayed : h[m] = h[n] => m = n
  <2>1. \A m \in Displayed : h[m].name = m.name
    BY DEF ApplyServerOverrides
  <2> QED
    BY <1>1, <2>1 DEF AreServers
<1>5. NiosXOf(loads) \in [loads -> Int] /\ \A m \in Displayed : NiosXOf(loads)[h[m]] = f[m]
  BY <1>3, TierTokens DEF NiosXOf
<1>6. SumFunction(NiosXOf(loads)) = SumFunction(f)
  <2> HIDE DEF h, loads, f
  <2> QED
    BY <1>2, <1>3, <1>4, <1>5, SumRenamed
<1>7. [m \in DOMAIN MemberCards |-> MemberCards[m].servers] = f
  <2>1. DOMAIN MemberCards = Displayed
    BY DEF MemberCards
  <2>2. ASSUME NEW m \in Displayed PROVE MemberCards[m].servers = f[m]
    <3>1. MemberFF(m) = "nios-x"
      BY DEF MemberFF, OnNiosX
    <3> QED
      BY <3>1 DEF MemberCards
  <2> QED
    BY <2>1, <2>2
<1>8. MemberCalculator = NiosXTokens(loads)
  BY <1>2, AllOnNiosX DEF MemberCalculator, OnNiosX
<1> QED
  BY <1>6, <1>7, <1>8 DEF NiosXTokens, NiosXOf

(* The management tokens of a card are those of the bar of the same        *)
(* source.                                                                 *)
LEMMA SourcesAgree ==
  ASSUME NEW m \in DOMAIN MemberCards
  PROVE  MemberCards[m].management = IF <<"nios", m.name>> \in DOMAIN ManagementBars
                                     THEN ManagementBars[<<"nios", m.name>>] ELSE 0
<1> DEFINE own == {f \in NiosRows : f.source = m.name}
           s == <<"nios", m.name>>
<1>1. MemberCards[m].management = TokensOfRows(own)
  BY DEF MemberCards, SourceTokens
<1>2. own = {f \in Effective : <<f.provider, f.source>> = s}
  BY DEF NiosRows
<1>3. CASE s \in DOMAIN ManagementBars
  <2>1. ManagementBars[s] = TokensOfRows({f \in Effective : <<f.provider, f.source>> = s})
    BY <1>3 DEF ManagementBars
  <2> QED
    BY <1>1, <1>2, <1>3, <2>1
<1>4. CASE s \notin DOMAIN ManagementBars
  <2>1. own = {}
    BY <1>2, <1>4 DEF ManagementBars
  <2>2. TokensOfRows({}) = 0
    <3> DEFINE f == [x \in {} |-> RowTokens(x)]
    <3>1. DOMAIN f = {} /\ TokensOfRows({}) = SumFunction(f)
      BY DEF TokensOfRows
    <3> QED
      BY <3>1, SumEmpty
  <2> QED
    BY <1>1, <1>4, <2>1, <2>2
<1> QED
  BY <1>3, <1>4

(* Rows with the counts that were typed are rows. *)
LEMMA EffectiveRows ==
  ASSUME NumbersInv
  PROVE  AreRows(Effective)
<1> DEFINE h == [f \in findings |->
                   IF FindingKey(f) \in DOMAIN overrides
                   THEN [f EXCEPT !.count = overrides[FindingKey(f)].count] ELSE f]
<1>1. AreRows(findings) /\ TypedCounts(overrides)
  BY DEF NumbersInv
<1>2. Effective = {h[f] : f \in findings} /\ DOMAIN h = findings
  BY DEF Effective, EffectiveFindings
<1>3. IsFiniteSet(Effective)
  <2> HIDE DEF h
  <2> QED
    BY <1>1, <1>2, FiniteImage DEF AreRows
<1>4. ASSUME NEW f \in findings
      PROVE  {"count", "rate"} \subseteq DOMAIN h[f] /\ h[f].count \in Nat /\ h[f].rate \in Nat \ {0}
  <2>1. {"count", "rate"} \subseteq DOMAIN f /\ f.count \in Nat /\ f.rate \in Nat \ {0}
    BY <1>1 DEF AreRows
  <2>2. CASE FindingKey(f) \in DOMAIN overrides
    <3> DEFINE n == overrides[FindingKey(f)].count
    <3>1. n \in Nat /\ h[f] = [f EXCEPT !.count = n]
      BY <1>1, <2>2 DEF TypedCounts
    <3> HIDE DEF n, h
    <3> QED
      BY <2>1, <3>1
  <2>3. CASE FindingKey(f) \notin DOMAIN overrides
    BY <2>1, <2>3
  <2> QED
    BY <2>2, <2>3
<1> QED
  BY <1>2, <1>3, <1>4 DEF AreRows

(* Tokens of rows are numbers. *)
LEMMA TokensNat ==
  ASSUME NEW rows, AreRows(rows)
  PROVE  [f \in rows |-> RowTokens(f)] \in [rows -> Nat]
  BY CeilIs DEF AreRows, RowTokens

(* The bars of a category round up row by row, grouped by source; its      *)
(* total rounds up once for each rate. So the bars, grouped by rate        *)
(* instead, are no less.                                                   *)
LEMMA CategoryBarsReach ==
  ASSUME NumbersInv, OwnTotals, NEW c \in Categories
  PROVE  SumFunction(CategoryBars(c)) >= CategoryTotals[c]
<1> DEFINE rows == {f \in Effective : f.category = c}
           tokens == [f \in rows |-> RowTokens(f)]
           sources == {<<f.provider, f.source>> : f \in rows}
           sourceOf == [f \in rows |-> <<f.provider, f.source>>]
           ofSource(s) == {f \in rows : sourceOf[f] = s}
           bars == [s \in sources |-> TokensOfRows(ofSource(s))]
           rates == {f.rate : f \in Effective}
           rateOf == [f \in rows |-> f.rate]
           ofRate(r) == {f \in rows : rateOf[f] = r}
           upByRow == [r \in rates |-> TokensOfRows(ofRate(r))]
           upByRate == [r \in rates |-> CeilDiv(CountIn(ofRate(r), c), r)]
<1>1. AreRows(Effective) /\ AreRows(rows) /\ IsFiniteSet(rows)
  BY EffectiveRows, FewerRows DEF AreRows
<1>2. \A part \in SUBSET rows : AreRows(part) /\ IsFiniteSet(part) /\ TokensOfRows(part) \in Nat
  <2> SUFFICES ASSUME NEW part \in SUBSET rows
               PROVE  AreRows(part) /\ IsFiniteSet(part) /\ TokensOfRows(part) \in Nat
    OBVIOUS
  <2>1. AreRows(part) /\ IsFiniteSet(part)
    BY <1>1, FewerRows DEF AreRows
  <2> DEFINE own == [f \in part |-> RowTokens(f)]
  <2>2. own \in [part -> Nat]
    BY <2>1, TokensNat
  <2>3. SumFunction(own) \in Nat
    <3> HIDE DEF own
    <3> QED
      BY <2>1, <2>2, SumNat
  <2> QED
    BY <2>1, <2>3 DEF TokensOfRows
<1>3. tokens \in [rows -> Nat]
  BY <1>1, TokensNat
<1>4. CategoryBars(c) = bars
  BY DEF CategoryBars
<1>5. SumFunction(bars) = SumFunction(tokens)
  <2>1. sources = {sourceOf[f] : f \in rows} /\ DOMAIN sourceOf = rows
    OBVIOUS
  <2>2. IsFiniteSet(sources)
    <3> HIDE DEF sourceOf, sources, rows
    <3> QED
      BY <1>1, <2>1, FiniteImage
  <2>3. sourceOf \in [rows -> sources] /\ tokens \in [rows -> Int]
    BY <1>3
  <2>4. bars \in [sources -> Int]
    <3>1. ASSUME NEW s \in sources PROVE TokensOfRows(ofSource(s)) \in Int
      <4>1. ofSource(s) \in SUBSET rows
        OBVIOUS
      <4> HIDE DEF ofSource, rows
      <4> QED
        BY <1>2, <4>1
    <3> QED
      BY <3>1
  <2>5. ASSUME NEW s \in sources
        PROVE  bars[s] = SumFunction([f \in {g \in rows : sourceOf[g] = s} |-> tokens[f]])
    <3> DEFINE part == {g \in rows : sourceOf[g] = s}
    <3>1. [f \in part |-> tokens[f]] = [f \in part |-> RowTokens(f)]
      OBVIOUS
    <3>2. bars[s] = SumFunction([f \in part |-> RowTokens(f)])
      BY DEF TokensOfRows
    <3> QED
      BY <3>1, <3>2
  <2> HIDE DEF sourceOf, sources, rows, tokens, bars
  <2> QED
    BY <1>1, <2>2, <2>3, <2>4, <2>5, SumByGroup
<1>6. IsFiniteSet(rates)
  <2> DEFINE h == [f \in Effective |-> f.rate]
  <2>1. rates = {h[f] : f \in Effective} /\ DOMAIN h = Effective
    OBVIOUS
  <2> HIDE DEF h, rates
  <2> QED
    BY <1>1, <2>1, FiniteImage DEF AreRows
<1>7. SumFunction(upByRow) = SumFunction(tokens)
  <2>1. rateOf \in [rows -> rates] /\ tokens \in [rows -> Int]
    BY <1>3
  <2>2. upByRow \in [rates -> Int]
    <3>1. ASSUME NEW r \in rates PROVE TokensOfRows(ofRate(r)) \in Int
      <4>1. ofRate(r) \in SUBSET rows
        OBVIOUS
      <4> HIDE DEF ofRate, rows
      <4> QED
        BY <1>2, <4>1
    <3> QED
      BY <3>1
  <2>3. ASSUME NEW r \in rates
        PROVE  upByRow[r] = SumFunction([f \in {g \in rows : rateOf[g] = r} |-> tokens[f]])
    <3> DEFINE part == {g \in rows : rateOf[g] = r}
    <3>1. [f \in part |-> tokens[f]] = [f \in part |-> RowTokens(f)]
      OBVIOUS
    <3>2. upByRow[r] = SumFunction([f \in part |-> RowTokens(f)])
      BY DEF TokensOfRows
    <3> QED
      BY <3>1, <3>2
  <2> HIDE DEF rateOf, rates, rows, tokens, upByRow
  <2> QED
    BY <1>1, <1>6, <2>1, <2>2, <2>3, SumByGroup
<1>8. ASSUME NEW r \in rates
      PROVE  upByRate[r] \in Nat /\ upByRow[r] \in Nat /\ upByRate[r] <= upByRow[r]
  <2> DEFINE part == ofRate(r)
             counts == [f \in part |-> f.count]
             ups == [f \in part |-> RowTokens(f)]
  <2>1. r \in Nat \ {0}
    BY <1>1 DEF AreRows
  <2>2. AreRows(part) /\ IsFiniteSet(part)
    BY <1>2
  <2>3. counts \in [part -> Nat] /\ ups \in [part -> Nat]
    BY <2>2, TokensNat DEF AreRows
  <2>4. \A f \in part : ups[f] = CeilDiv(counts[f], r)
    BY DEF RowTokens
  <2>5. CountIn(part, c) = SumFunction(counts)
    <3>1. {g \in part : g.category = c} = part
      OBVIOUS
    <3> HIDE DEF part
    <3> QED
      BY <3>1 DEF CountIn
  <2>6. upByRow[r] = SumFunction(ups) /\ upByRate[r] = CeilDiv(SumFunction(counts), r)
    BY <2>5 DEF TokensOfRows
  <2> HIDE DEF counts, ups, part, upByRow, upByRate
  <2>7. SumFunction(counts) \in Nat
    BY <2>2, <2>3, SumNat
  <2>8. SumFunction(ups) \in Nat
    BY <2>2, <2>3, SumNat
  <2>9. CeilDiv(SumFunction(counts), r) \in Nat
    BY <2>1, <2>7, CeilIs
  <2>10. CeilDiv(SumFunction(counts), r) <= SumFunction(ups)
    BY <2>1, <2>2, <2>3, <2>4, CeilOfParts
  <2> QED
    BY <2>6, <2>8, <2>9, <2>10
<1>9. SumFunction(upByRate) <= SumFunction(upByRow)
  <2>1. upByRate \in [rates -> Nat] /\ upByRow \in [rates -> Nat]
    BY <1>8
  <2>2. \A r \in rates : upByRate[r] <= upByRow[r]
    BY <1>8
  <2> HIDE DEF rates, upByRate, upByRow
  <2> QED
    BY <1>6, <2>1, <2>2, SumGrows
<1>10. CategoryTotals[c] = SumFunction(upByRate)
  <2>1. CategoryTotals[c] = CategoryTokens(Effective, c)
    BY DEF OwnTotals, CategoryTotals
  <2>2. \A r \in rates : {f \in Effective : f.category = c /\ f.rate = r} = ofRate(r)
    OBVIOUS
  <2>3. upByRate = [r \in rates |->
          CeilDiv(CountIn({f \in Effective : f.category = c /\ f.rate = r}, c), r)]
    BY <2>2
  <2> QED
    BY <2>1, <2>3 DEF CategoryTokens
<1>11. SumFunction(upByRate) \in Nat /\ SumFunction(tokens) \in Nat
  <2>1. upByRate \in [rates -> Nat]
    BY <1>8
  <2> HIDE DEF rates, upByRate, tokens, rows
  <2> QED
    BY <1>1, <1>3, <1>6, <2>1, SumNat
<1> HIDE DEF tokens, bars, upByRow, upByRate
<1> QED
  BY <1>4, <1>5, <1>7, <1>9, <1>10, <1>11

(* The packs in the document are those of the bill of materials. *)
LEMMA BillIsShown == ClientDocument.skus = BillOfMaterials
  BY DEF ClientDocument, Put, PacksSection, BillOfMaterials

(* The hybrid totals, the cards of the planners, the document that is      *)
(* saved, the calculators and the bars by source and by server agree in    *)
(* every state (ScreensAgree: wizard.tsx, results-surface.tsx,             *)
(* results-migration-planner.tsx): they follow from NumbersInv alone, that *)
(* is from rows with counts and servers with names of their own.           *)
THEOREM ScreensStayEqual == Spec => []ScreensAgree
<1>1. ASSUME NumbersInv PROVE BreakdownsAgree(ClientDocument, ScenarioCards)
  <2> DEFINE planned == IF Selected("nios", Migrateable("nios")) = {}
                        THEN ScenarioCards.full.servers ELSE ScenarioCards.hybrid.servers
  <2>1. MemberCalculator = planned
    BY <1>1, MembersAgree
  <2>2. OnNiosX(map["nios"]) =>
          SumFunction([m \in DOMAIN MemberCards |-> MemberCards[m].servers]) = planned
    BY <1>1, <2>1, MemberCardsAgree
  <2>3. OnNiosX(map["microsoft"]) => SumFunction(ServerBars) = TotalServerTokens
    BY <1>1, ServerBarsAgree
  <2>4. "microsoft" \in selected => ControllerCalculator = ServersNeeded("microsoft")
    BY <1>1, ControllersAgree
  <2>5. OwnTotals => \A c \in Categories : SumFunction(CategoryBars(c)) >= CategoryTotals[c]
    BY <1>1, CategoryBarsReach
  <2>6. \A m \in DOMAIN MemberCards :
          MemberCards[m].management = IF <<"nios", m.name>> \in DOMAIN ManagementBars
                                      THEN ManagementBars[<<"nios", m.name>>] ELSE 0
    BY SourcesAgree
  <2> QED
    BY <2>1, <2>2, <2>3, <2>4, <2>5, <2>6, BillIsShown DEF BreakdownsAgree, OnNiosX
<1>2. NumbersInv => ScreensAgree
  <2> SUFFICES ASSUME NumbersInv PROVE ScreensAgree
    OBVIOUS
  <2>1. PlansNios =>
          /\ HybridScenario.management = ScenarioCards.hybrid.management
          /\ HybridScenario.servers = ScenarioCards.hybrid.servers +
               IF "microsoft" \in selected THEN ADScenarioCards.hybrid ELSE 0
    BY HybridIsItsCard
  <2>2. PlansNios =>
          /\ ClientDocument.planner.hybrid.uddi + ClientDocument.planner.hybrid.nios
               = HybridScenario.management
          /\ ClientDocument.planner.full.uddi = ScenarioCards.full.management
          /\ ClientDocument.servers = ScenarioCards.hybrid.servers
    BY DocumentAgrees
  <2>3. "ad" \in DOMAIN ClientDocument =>
          ClientDocument.ad = IF DOMAIN map["microsoft"] = {} THEN ADScenarioCards.full
                              ELSE ADScenarioCards.hybrid
    BY ControllersAgree
  <2>4. PlannersAgree(ClientDocument, ScenarioCards, HybridScenario, ADScenarioCards)
    BY <1>1, <2>1, <2>2, <2>3 DEF PlannersAgree
  <2> QED
    BY <2>4 DEF ScreensAgree
<1> QED
  BY <1>2, NumbersInit, NumbersStep, PTL DEF Spec

-----------------------------------------------------------------------------
(* The workbook of the server.  Its tables and its rules are its own: what  *)
(* it computes with them is what the pages compute with theirs.            *)

(* The server adds and counts as the pages do.                             *)
LEMMA GoSums == ASSUME NEW f PROVE Go!SumFunction(f) = SumFunction(f)
  BY DEF SumFunction, SumFunctionOnSet, FoldFunctionOnSet, MapThenFoldSet,
  Go!SumFunction, Go!SumFunctionOnSet, Go!FoldFunctionOnSet, Go!MapThenFoldSet

LEMMA GoCounts == ASSUME NEW S PROVE Go!Cardinality(S) = Cardinality(S)
  BY DEF Cardinality, Go!Cardinality

(* For any load, the server finds the tier that the pages find, by its     *)
(* name and by its tokens (nios_sheets.go and scanner.go of Active         *)
(* Directory, token-tiers.ts).                                             *)
THEOREM TiersAgree ==
  ASSUME NEW m PROVE TierOf(m)[1] = CalcServerTokenTier(m, "nios-x").name
                     /\ TokensOf(m) = CalcServerTokenTier(m, "nios-x").tokens
<1> DEFINE takes(t) == m.qps <= t[2] /\ m.lps <= t[3] /\ m.objects <= t[4]
           I == {i \in 1..Len(NiosXTiers) : takes(NiosXTiers[i])}
           J == {i \in DOMAIN ServerTiers : Covers(ServerTiers[i], m)}
<1>1. Len(NiosXTiers) = 6 /\ DOMAIN ServerTiers = 1..6 /\ Len(ServerTiers) = 6
  BY DEF NiosXTiers, ServerTiers
<1>2. \A i \in 1..6 : /\ NiosXTiers[i][1] = ServerTiers[i].name
                      /\ NiosXTiers[i][2] = ServerTiers[i].qps
                      /\ NiosXTiers[i][3] = ServerTiers[i].lps
                      /\ NiosXTiers[i][4] = ServerTiers[i].objects
                      /\ NiosXTiers[i][5] = ServerTiers[i].tokens
  BY DEF NiosXTiers, ServerTiers
<1>3. I = J
  BY <1>1, <1>2 DEF Covers
<1>4. TierOf(m) = NiosXTiers[LET i == IF I # {} THEN CHOOSE x \in I : \A y \in I : x <= y ELSE 0
                             IN  IF i = 0 THEN 6 ELSE i]
  BY <1>1 DEF TierOf, SelectInSeq, Min
<1>5. CalcServerTokenTier(m, "nios-x")
        = ServerTiers[IF J = {} THEN 6 ELSE CHOOSE x \in J : \A y \in J : x <= y]
  <2>1. CalcServerTokenTier(m, "nios-x") = ServerTiers[TierFor(ServerTiers, m)]
    BY DEF CalcServerTokenTier
  <2>2. TierFor(ServerTiers, m) = SmallestTier(ServerTiers, J)
    BY DEF TierFor
  <2> HIDE DEF J
  <2> QED
    BY <1>1, <2>1, <2>2 DEF SmallestTier
<1>6. I # {} => (CHOOSE x \in I : \A y \in I : x <= y) \in 1..6
  BY <1>1, LeastNumber
<1> DEFINE least == CHOOSE x \in J : \A y \in J : x <= y
           k == IF J = {} THEN 6 ELSE least
<1>7. k \in 1..6 /\ CalcServerTokenTier(m, "nios-x") = ServerTiers[k]
  <2>1. CASE J = {}
    BY <1>5, <2>1
  <2>2. CASE J # {}
    <3>1. least \in 1..6
      <4>1. I = J
        BY <1>3
      <4> HIDE DEF I, J
      <4> QED
        BY <1>6, <2>2, <4>1
    <3>2. k = least /\ CalcServerTokenTier(m, "nios-x") = ServerTiers[least]
      BY <1>5, <2>2
    <3> QED
      BY <3>1, <3>2
  <2> QED
    BY <2>1, <2>2
<1>8. TierOf(m) = NiosXTiers[k]
  <2>1. J = I
    BY <1>3
  <2> HIDE DEF I, J
  <2>2. CASE J = {}
    BY <1>4, <2>1, <2>2
  <2>3. CASE J # {}
    <3>1. least \in 1..6 /\ k = least
      BY <1>6, <2>1, <2>3
    <3>2. TierOf(m) = NiosXTiers[IF least = 0 THEN 6 ELSE least]
      BY <1>4, <2>1, <2>3
    <3> HIDE DEF least
    <3> QED
      BY <3>1, <3>2
  <2> QED
    BY <2>2, <2>3
<1> HIDE DEF k
<1> QED
  BY <1>2, <1>7, <1>8 DEF TokensOf

-----------------------------------------------------------------------------
(* Tables of appliances.                                                   *)

(* A row of the server as a row of the pages.                              *)
RowAs(row, scale) ==
  <<row[1], [i \in DOMAIN row[2] |-> [vCPU |-> row[2][i], ram |-> scale * row[3][i]]]>>
TableAs(table, scale) == {RowAs(row, scale) : row \in table}

(* What becomes of rows with one, two and three configurations.            *)
LEMMA OneConfiguration ==
  ASSUME NEW n, NEW a, NEW b, NEW s
  PROVE  RowAs(<<n, <<a>>, <<b>>>>, s) = <<n, <<[vCPU |-> a, ram |-> s * b]>>>>
<1>1. [i \in DOMAIN <<a>> |-> [vCPU |-> <<a>>[i], ram |-> s * <<b>>[i]]]
        = <<[vCPU |-> a, ram |-> s * b]>>
  OBVIOUS
<1> QED
  BY <1>1 DEF RowAs

LEMMA TwoConfigurations ==
  ASSUME NEW n, NEW a, NEW b, NEW c, NEW d, NEW s
  PROVE  RowAs(<<n, <<a, c>>, <<b, d>>>>, s)
           = <<n, <<[vCPU |-> a, ram |-> s * b], [vCPU |-> c, ram |-> s * d]>>>>
<1>1. [i \in DOMAIN <<a, c>> |-> [vCPU |-> <<a, c>>[i], ram |-> s * <<b, d>>[i]]]
        = <<[vCPU |-> a, ram |-> s * b], [vCPU |-> c, ram |-> s * d]>>
  OBVIOUS
<1> QED
  BY <1>1 DEF RowAs

LEMMA ThreeConfigurations ==
  ASSUME NEW n, NEW a, NEW b, NEW c, NEW d, NEW e, NEW f, NEW s
  PROVE  RowAs(<<n, <<a, c, e>>, <<b, d, f>>>>, s)
           = <<n, <<[vCPU |-> a, ram |-> s * b], [vCPU |-> c, ram |-> s * d],
                    [vCPU |-> e, ram |-> s * f]>>>>
<1>1. [i \in DOMAIN <<a, c, e>> |-> [vCPU |-> <<a, c, e>>[i], ram |-> s * <<b, d, f>>[i]]]
        = <<[vCPU |-> a, ram |-> s * b], [vCPU |-> c, ram |-> s * d], [vCPU |-> e, ram |-> s * f]>>
  OBVIOUS
<1> QED
  BY <1>1 DEF RowAs

(* The same in the words of the tables.                                    *)
LEMMA OneGb == \A n, a, b : RowAs(<<n, <<a>>, <<b>>>>, 4) = Model(n, <<Gb(a, b)>>)
  BY OneConfiguration DEF Model, Gb

LEMMA TwoGb ==
  \A n, a, b, c, d : RowAs(<<n, <<a, c>>, <<b, d>>>>, 4) = Model(n, <<Gb(a, b), Gb(c, d)>>)
  BY TwoConfigurations DEF Model, Gb

LEMMA ThreeGb ==
  \A n, a, b, c, d, e, f :
    RowAs(<<n, <<a, c, e>>, <<b, d, f>>>>, 4) = Model(n, <<Gb(a, b), Gb(c, d), Gb(e, f)>>)
  BY ThreeConfigurations DEF Model, Gb

LEMMA ThreeQuarters ==
  \A n, a, c, e : \A b, d, f \in Nat :
    RowAs(<<n, <<a, c, e>>, <<b, d, f>>>>, 1)
      = Model(n, <<Quarters(a, b), Quarters(c, d), Quarters(e, f)>>)
<1>1. \A b \in Nat : 1 * b = b
  OBVIOUS
<1> QED
  BY <1>1, ThreeConfigurations DEF Model, Quarters

(* A table of five rows, row by row.                                       *)
LEMMA FiveRows ==
  \A a, b, c, d, e, s :
    TableAs({a, b, c, d, e}, s)
      = {RowAs(a, s), RowAs(b, s), RowAs(c, s), RowAs(d, s), RowAs(e, s)}
  BY DEF TableAs

(* Each table of the server is that of the pages.                          *)
LEMMA X5VMwareRows == TableAs(Go!X5VMware, 4) = X5VMware
<1> DEFINE a == <<"IB-V815", <<2>>, <<16>>>>
           b == <<"IB-V825", <<2>>, <<16>>>>
           c == <<"IB-V1415", <<4>>, <<32>>>>
           d == <<"IB-V1425", <<4>>, <<32>>>>
           e == <<"IB-V2215", <<8>>, <<64>>>>
           f == <<"IB-V2225", <<8>>, <<64>>>>
           g == <<"IB-V4015", <<14>>, <<128>>>>
           h == <<"IB-V4025", <<14>>, <<128>>>>
<1>1. Go!X5VMware = {a, b, c, d, e, f, g, h}
  BY DEF Go!X5VMware
<1>2. /\ RowAs(a, 4) = Model("IB-V815", <<Gb(2, 16)>>)
      /\ RowAs(b, 4) = Model("IB-V825", <<Gb(2, 16)>>)
      /\ RowAs(c, 4) = Model("IB-V1415", <<Gb(4, 32)>>)
      /\ RowAs(d, 4) = Model("IB-V1425", <<Gb(4, 32)>>)
      /\ RowAs(e, 4) = Model("IB-V2215", <<Gb(8, 64)>>)
      /\ RowAs(f, 4) = Model("IB-V2225", <<Gb(8, 64)>>)
      /\ RowAs(g, 4) = Model("IB-V4015", <<Gb(14, 128)>>)
      /\ RowAs(h, 4) = Model("IB-V4025", <<Gb(14, 128)>>)
  BY OneGb
<1> HIDE DEF a, b, c, d, e, f, g, h
<1>3. TableAs({a, b, c, d, e, f, g, h}, 4)
        = {RowAs(a, 4), RowAs(b, 4), RowAs(c, 4), RowAs(d, 4),
           RowAs(e, 4), RowAs(f, 4), RowAs(g, 4), RowAs(h, 4)}
  BY DEF TableAs
<1> QED
  BY <1>1, <1>2, <1>3 DEF X5VMware

LEMMA X6VMwareRows == TableAs(Go!X6VMware, 4) = X6VMware
<1> DEFINE a == <<"IB-V926", <<4, 8>>, <<32, 32>>>>
           b == <<"IB-V1516", <<6, 12>>, <<64, 64>>>>
           c == <<"IB-V1526", <<8, 16>>, <<64, 64>>>>
           d == <<"IB-V2326", <<12, 20>>, <<128, 192>>>>
           e == <<"IB-V4126", <<16, 32>>, <<256, 384>>>>
<1>1. Go!X6VMware = {a, b, c, d, e}
  BY DEF Go!X6VMware
<1>2. /\ RowAs(a, 4) = Model("IB-V926", <<Gb(4, 32), Gb(8, 32)>>)
      /\ RowAs(b, 4) = Model("IB-V1516", <<Gb(6, 64), Gb(12, 64)>>)
      /\ RowAs(c, 4) = Model("IB-V1526", <<Gb(8, 64), Gb(16, 64)>>)
      /\ RowAs(d, 4) = Model("IB-V2326", <<Gb(12, 128), Gb(20, 192)>>)
      /\ RowAs(e, 4) = Model("IB-V4126", <<Gb(16, 256), Gb(32, 384)>>)
  BY TwoGb
<1> HIDE DEF a, b, c, d, e
<1>3. TableAs({a, b, c, d, e}, 4)
        = {RowAs(a, 4), RowAs(b, 4), RowAs(c, 4), RowAs(d, 4), RowAs(e, 4)}
  BY FiveRows
<1> QED
  BY <1>1, <1>2, <1>3 DEF X6VMware

LEMMA X5AzureRows == TableAs(Go!X5Azure, 4) = X5Azure
<1> DEFINE a == <<"IB-V825", <<2>>, <<14>>>>
           b == <<"IB-V1425", <<4>>, <<28>>>>
           c == <<"IB-V2225", <<8>>, <<56>>>>
           d == <<"IB-V4015", <<16>>, <<112>>>>
           e == <<"IB-V4025", <<16>>, <<112>>>>
<1>1. Go!X5Azure = {a, b, c, d, e}
  BY DEF Go!X5Azure
<1>2. /\ RowAs(a, 4) = Model("IB-V825", <<Gb(2, 14)>>)
      /\ RowAs(b, 4) = Model("IB-V1425", <<Gb(4, 28)>>)
      /\ RowAs(c, 4) = Model("IB-V2225", <<Gb(8, 56)>>)
      /\ RowAs(d, 4) = Model("IB-V4015", <<Gb(16, 112)>>)
      /\ RowAs(e, 4) = Model("IB-V4025", <<Gb(16, 112)>>)
  BY OneGb
<1> HIDE DEF a, b, c, d, e
<1>3. TableAs({a, b, c, d, e}, 4)
        = {RowAs(a, 4), RowAs(b, 4), RowAs(c, 4), RowAs(d, 4), RowAs(e, 4)}
  BY FiveRows
<1> QED
  BY <1>1, <1>2, <1>3 DEF X5Azure

LEMMA X6AzureRows == TableAs(Go!X6Azure, 4) = X6Azure
<1> DEFINE a == <<"IB-V926", <<4>>, <<32>>>>
           b == <<"IB-V1516", <<8>>, <<64>>>>
           c == <<"IB-V1526", <<16>>, <<128>>>>
           d == <<"IB-V2326", <<20>>, <<160>>>>
           e == <<"IB-V4126", <<32>>, <<256>>>>
<1>1. Go!X6Azure = {a, b, c, d, e}
  BY DEF Go!X6Azure
<1>2. /\ RowAs(a, 4) = Model("IB-V926", <<Gb(4, 32)>>)
      /\ RowAs(b, 4) = Model("IB-V1516", <<Gb(8, 64)>>)
      /\ RowAs(c, 4) = Model("IB-V1526", <<Gb(16, 128)>>)
      /\ RowAs(d, 4) = Model("IB-V2326", <<Gb(20, 160)>>)
      /\ RowAs(e, 4) = Model("IB-V4126", <<Gb(32, 256)>>)
  BY OneGb
<1> HIDE DEF a, b, c, d, e
<1>3. TableAs({a, b, c, d, e}, 4)
        = {RowAs(a, 4), RowAs(b, 4), RowAs(c, 4), RowAs(d, 4), RowAs(e, 4)}
  BY FiveRows
<1> QED
  BY <1>1, <1>2, <1>3 DEF X6Azure

LEMMA X5AwsRows == TableAs(Go!X5AWS, 1) = X5Aws
<1> DEFINE a == <<"IB-V825", <<2, 2, 2>>, <<64, 32, 61>>>>
           b == <<"IB-V1425", <<4, 4, 4>>, <<128, 64, 122>>>>
           c == <<"IB-V2225", <<8, 8, 8>>, <<256, 128, 244>>>>
           d == <<"IB-V4015", <<16, 16, 16>>, <<512, 256, 488>>>>
           e == <<"IB-V4025", <<16, 16, 16>>, <<512, 256, 488>>>>
<1>1. Go!X5AWS = {a, b, c, d, e}
  BY DEF Go!X5AWS
<1>2. /\ RowAs(a, 1) = Model("IB-V825", <<Quarters(2, 64), Quarters(2, 32), Quarters(2, 61)>>)
      /\ RowAs(b, 1) = Model("IB-V1425", <<Quarters(4, 128), Quarters(4, 64), Quarters(4, 122)>>)
      /\ RowAs(c, 1) = Model("IB-V2225", <<Quarters(8, 256), Quarters(8, 128), Quarters(8, 244)>>)
      /\ RowAs(d, 1) = Model("IB-V4015", <<Quarters(16, 512), Quarters(16, 256), Quarters(16, 488)>>)
      /\ RowAs(e, 1) = Model("IB-V4025", <<Quarters(16, 512), Quarters(16, 256), Quarters(16, 488)>>)
  BY ThreeQuarters, SMTT(20)
<1>4. /\ Quarters(2, 64) = Gb(2, 16) /\ Quarters(2, 32) = Gb(2, 8)
      /\ Quarters(4, 128) = Gb(4, 32) /\ Quarters(4, 64) = Gb(4, 16)
      /\ Quarters(8, 256) = Gb(8, 64) /\ Quarters(8, 128) = Gb(8, 32)
      /\ Quarters(8, 244) = Gb(8, 61) /\ Quarters(16, 512) = Gb(16, 128)
      /\ Quarters(16, 256) = Gb(16, 64) /\ Quarters(16, 488) = Gb(16, 122)
  BY DEF Quarters, Gb
<1> HIDE DEF a, b, c, d, e
<1>3. TableAs({a, b, c, d, e}, 1)
        = {RowAs(a, 1), RowAs(b, 1), RowAs(c, 1), RowAs(d, 1), RowAs(e, 1)}
  BY FiveRows
<1> QED
  BY <1>1, <1>2, <1>3, <1>4 DEF X5Aws

LEMMA X6AwsRows == TableAs(Go!X6AWS, 4) = X6Aws
<1> DEFINE a == <<"IB-V926", <<4, 8>>, <<32, 32>>>>
           b == <<"IB-V1516", <<8, 16>>, <<64, 64>>>>
           c == <<"IB-V1526", <<16, 16>>, <<64, 128>>>>
           d == <<"IB-V2326", <<32, 32>>, <<128, 256>>>>
           e == <<"IB-V4126", <<32, 48>>, <<256, 384>>>>
<1>1. Go!X6AWS = {a, b, c, d, e}
  BY DEF Go!X6AWS
<1>2. /\ RowAs(a, 4) = Model("IB-V926", <<Gb(4, 32), Gb(8, 32)>>)
      /\ RowAs(b, 4) = Model("IB-V1516", <<Gb(8, 64), Gb(16, 64)>>)
      /\ RowAs(c, 4) = Model("IB-V1526", <<Gb(16, 64), Gb(16, 128)>>)
      /\ RowAs(d, 4) = Model("IB-V2326", <<Gb(32, 128), Gb(32, 256)>>)
      /\ RowAs(e, 4) = Model("IB-V4126", <<Gb(32, 256), Gb(48, 384)>>)
  BY TwoGb
<1> HIDE DEF a, b, c, d, e
<1>3. TableAs({a, b, c, d, e}, 4)
        = {RowAs(a, 4), RowAs(b, 4), RowAs(c, 4), RowAs(d, 4), RowAs(e, 4)}
  BY FiveRows
<1> QED
  BY <1>1, <1>2, <1>3 DEF X6Aws

LEMMA X5GcpRows == TableAs(Go!X5GCP, 4) = X5Gcp
<1> DEFINE a == <<"IB-V825", <<2>>, <<16>>>>
           b == <<"IB-V1425", <<4>>, <<32>>>>
           c == <<"IB-V2225", <<8>>, <<64>>>>
           d == <<"IB-V4015", <<16>>, <<128>>>>
           e == <<"IB-V4025", <<16>>, <<128>>>>
<1>1. Go!X5GCP = {a, b, c, d, e}
  BY DEF Go!X5GCP
<1>2. /\ RowAs(a, 4) = Model("IB-V825", <<Gb(2, 16)>>)
      /\ RowAs(b, 4) = Model("IB-V1425", <<Gb(4, 32)>>)
      /\ RowAs(c, 4) = Model("IB-V2225", <<Gb(8, 64)>>)
      /\ RowAs(d, 4) = Model("IB-V4015", <<Gb(16, 128)>>)
      /\ RowAs(e, 4) = Model("IB-V4025", <<Gb(16, 128)>>)
  BY OneGb
<1> HIDE DEF a, b, c, d, e
<1>3. TableAs({a, b, c, d, e}, 4)
        = {RowAs(a, 4), RowAs(b, 4), RowAs(c, 4), RowAs(d, 4), RowAs(e, 4)}
  BY FiveRows
<1> QED
  BY <1>1, <1>2, <1>3 DEF X5Gcp

LEMMA X6GcpRows == TableAs(Go!X6GCP, 4) = X6Gcp
<1> DEFINE a == <<"IB-V926", <<8, 8, 8>>, <<16, 32, 64>>>>
           b == <<"IB-V1516", <<16, 16, 16>>, <<32, 64, 128>>>>
           c == <<"IB-V1526", <<16, 16, 32>>, <<64, 128, 64>>>>
           d == <<"IB-V2326", <<32, 32, 32>>, <<64, 128, 256>>>>
           e == <<"IB-V4126", <<64, 80, 80>>, <<512, 160, 320>>>>
<1>1. Go!X6GCP = {a, b, c, d, e}
  BY DEF Go!X6GCP
<1>2. /\ RowAs(a, 4) = Model("IB-V926", <<Gb(8, 16), Gb(8, 32), Gb(8, 64)>>)
      /\ RowAs(b, 4) = Model("IB-V1516", <<Gb(16, 32), Gb(16, 64), Gb(16, 128)>>)
      /\ RowAs(c, 4) = Model("IB-V1526", <<Gb(16, 64), Gb(16, 128), Gb(32, 64)>>)
      /\ RowAs(d, 4) = Model("IB-V2326", <<Gb(32, 64), Gb(32, 128), Gb(32, 256)>>)
      /\ RowAs(e, 4) = Model("IB-V4126", <<Gb(64, 512), Gb(80, 160), Gb(80, 320)>>)
  BY ThreeGb
<1> HIDE DEF a, b, c, d, e
<1>3. TableAs({a, b, c, d, e}, 4)
        = {RowAs(a, 4), RowAs(b, 4), RowAs(c, 4), RowAs(d, 4), RowAs(e, 4)}
  BY FiveRows
<1> QED
  BY <1>1, <1>2, <1>3 DEF X6Gcp

LEMMA PhysicalRows == TableAs(Go!Physical, 4) = {Model("IB-4030", <<Gb(8, 32)>>)}
<1> DEFINE a == <<"IB-4030", <<8>>, <<32>>>>
<1>1. Go!Physical = {a} /\ RowAs(a, 4) = Model("IB-4030", <<Gb(8, 32)>>)
  BY OneGb DEF Go!Physical
<1> HIDE DEF a
<1> QED
  BY <1>1 DEF TableAs

(* A row of the pages as a spec of the server. *)
SpecOf(platform, row) == [model |-> row[1], platform |-> platform, variants |-> row[2]]

(* So are its specs the rows of the pages, table by table and in all.      *)
LEMMA SpecsOfTableAre ==
  \A P, table, scale, spec :
    spec \in Go!SpecsOfTable(P, table, scale)
      <=> \E row \in TableAs(table, scale) : spec = SpecOf(P, row)
<1>1. \A P, row, scale : SpecOf(P, RowAs(row, scale)) =
        [model |-> row[1], platform |-> P,
         variants |-> [i \in DOMAIN row[2] |-> Go!Hardware(row[2][i], scale * row[3][i])]]
  BY DEF RowAs, SpecOf, Go!Hardware
<1>2. \A P, table, scale :
        Go!SpecsOfTable(P, table, scale) = {SpecOf(P, RowAs(row, scale)) : row \in table}
  BY <1>1 DEF Go!SpecsOfTable
<1> QED
  BY <1>2 DEF TableAs

LEMMA TablesTogether ==
  \A A, B, scale : TableAs(A \cup B, scale) = TableAs(A, scale) \cup TableAs(B, scale)
  BY DEF TableAs

LEMMA SpecsAre ==
  \A spec : spec \in Go!Specs <=> \E P \in Platforms : \E row \in SpecsOf(P) : spec = SpecOf(P, row)
<1> DEFINE V == Go!SpecsOfTable("VMware", Go!X5VMware \cup Go!X6VMware, 4)
           Z == Go!SpecsOfTable("Azure", Go!X5Azure \cup Go!X6Azure, 4)
           A == Go!SpecsOfTable("AWS", Go!X5AWS, 1)
           B == Go!SpecsOfTable("AWS", Go!X6AWS, 4)
           G == Go!SpecsOfTable("GCP", Go!X5GCP \cup Go!X6GCP, 4)
           H == Go!SpecsOfTable("Physical", Go!Physical, 4)
<1>1. Go!Specs = UNION {V, Z, A, B, G, H}
  BY DEF Go!Specs
<1>2. \A spec :
        /\ spec \in V <=> \E row \in X5VMware \cup X6VMware : spec = SpecOf("VMware", row)
        /\ spec \in Z <=> \E row \in X5Azure \cup X6Azure : spec = SpecOf("Azure", row)
        /\ spec \in A <=> \E row \in X5Aws : spec = SpecOf("AWS", row)
        /\ spec \in B <=> \E row \in X6Aws : spec = SpecOf("AWS", row)
        /\ spec \in G <=> \E row \in X5Gcp \cup X6Gcp : spec = SpecOf("GCP", row)
        /\ spec \in H <=> \E row \in {Model("IB-4030", <<Gb(8, 32)>>)} : spec = SpecOf("Physical", row)
  BY SpecsOfTableAre, TablesTogether, X5VMwareRows, X6VMwareRows, X5AzureRows, X6AzureRows,
    X5AwsRows, X6AwsRows, X5GcpRows, X6GcpRows, PhysicalRows
<1>3. /\ SpecsOf("VMware") = X5VMware \cup X6VMware
      /\ SpecsOf("Azure") = X5Azure \cup X6Azure
      /\ SpecsOf("AWS") = X5Aws \cup X6Aws
      /\ SpecsOf("GCP") = X5Gcp \cup X6Gcp
      /\ SpecsOf("Physical") = {Model("IB-4030", <<Gb(8, 32)>>)}
  BY DEF SpecsOf
<1>4. Platforms = {"VMware", "Azure", "AWS", "GCP", "Physical"}
  BY DEF Platforms
<1> HIDE DEF V, Z, A, B, G, H
<1>5. \A spec : (\E P \in Platforms : \E row \in SpecsOf(P) : spec = SpecOf(P, row)) <=>
                 spec \in V \/ spec \in Z \/ spec \in A \/ spec \in B \/ spec \in G \/ spec \in H
  BY <1>2, <1>3, <1>4
<1> QED
  BY <1>1, <1>5

(* Lookups by model, of a model that is known at all, by family and by     *)
(* sibling.                                                                *)
LEMMA LookupsAgree ==
  ASSUME NEW model, NEW platform
  PROVE  Go!LookupApplianceSpec(model, platform) = Having(SpecsOf(platform), model)
<1>1. ASSUME NEW P \in Platforms, NEW row \in SpecsOf(P), NEW spec, spec = SpecOf(P, row)
      PROVE  spec.model = row[1] /\ spec.platform = P /\ spec.variants = row[2]
  BY <1>1 DEF SpecOf
<1>2. platform \notin Platforms => SpecsOf(platform) = {}
  BY DEF Platforms, SpecsOf
<1>3. \A v : v \in Go!LookupApplianceSpec(model, platform) <=>
              \E spec \in Go!Specs : spec.model = model /\ spec.platform = platform /\ v = spec.variants
  BY DEF Go!LookupApplianceSpec
<1>4. \A v : v \in Having(SpecsOf(platform), model) <=>
              \E row \in SpecsOf(platform) : row[1] = model /\ v = row[2]
  BY DEF Having
<1>5. \A v : v \in Go!LookupApplianceSpec(model, platform) => v \in Having(SpecsOf(platform), model)
  BY <1>1, <1>3, <1>4, SpecsAre
<1>6. ASSUME NEW v \in Having(SpecsOf(platform), model)
      PROVE  v \in Go!LookupApplianceSpec(model, platform)
  <2>1. PICK row \in SpecsOf(platform) : row[1] = model /\ v = row[2]
    BY <1>4
  <2>2. platform \in Platforms
    BY <1>2
  <2>3. PICK spec : spec = SpecOf(platform, row)
    OBVIOUS
  <2>4. spec \in Go!Specs /\ spec.model = model /\ spec.platform = platform /\ v = spec.variants
    BY <1>1, <2>1, <2>2, <2>3, SpecsAre
  <2> QED
    BY <1>3, <2>4
<1> QED
  BY <1>5, <1>6

LEMMA KnownAgree == \A model : Go!ModelExistsOnAnyPlatform(model) <=> KnownSomewhere(model)
<1> SUFFICES ASSUME NEW model PROVE Go!ModelExistsOnAnyPlatform(model) <=> KnownSomewhere(model)
  OBVIOUS
<1>1. \A P, row : SpecOf(P, row).model = row[1]
  BY DEF SpecOf
<1> QED
  BY <1>1, SpecsAre DEF Go!ModelExistsOnAnyPlatform, KnownSomewhere

LEMMA FamiliesAgree == \A family : Go!LookupPhysicalFamily(family) = Having(FamilyDefaults, family)
<1> SUFFICES ASSUME NEW family
             PROVE  Go!LookupPhysicalFamily(family) = Having(FamilyDefaults, family)
  OBVIOUS
<1> DEFINE a == <<Gb(16, 128)>>
           b == <<Gb(12, 64)>>
           c == <<Gb(4, 16)>>
<1>1. FamilyDefaults = {<<"4", a>>, <<"22", b>>, <<"14", c>>, <<"1", c>>, <<"8", c>>}
  BY DEF FamilyDefaults, Model
<1>2. Go!LookupPhysicalFamily(family) =
        CASE family = "4"  -> {a}
          [] family = "22" -> {b}
          [] family \in {"14", "1", "8"} -> {c}
          [] OTHER -> {}
  BY DEF Go!LookupPhysicalFamily, Go!Hardware, Gb
<1> HIDE DEF a, b, c
<1>3. \A v : v \in Having(FamilyDefaults, family) <=>
               \E row \in FamilyDefaults : row[1] = family /\ v = row[2]
  BY DEF Having
<1>4. \A v : v \in Having(FamilyDefaults, family) <=>
               \/ family = "4" /\ v = a
               \/ family = "22" /\ v = b
               \/ family \in {"14", "1", "8"} /\ v = c
  BY <1>1, <1>3
<1>5. \A v : v \in Go!LookupPhysicalFamily(family) <=>
               \/ family = "4" /\ v = a
               \/ family = "22" /\ v = b
               \/ family \in {"14", "1", "8"} /\ v = c
  BY <1>2
<1> QED
  BY <1>4, <1>5

LEMMA AliasesAgree ==
  \A model : Go!LookupAwsLegacy(model) =
    UNION {Having(SpecsOf("AWS"), sibling) : sibling \in Having(AwsLegacyAliases, model)}
<1> SUFFICES ASSUME NEW model
             PROVE  Go!LookupAwsLegacy(model) =
               UNION {Having(SpecsOf("AWS"), sibling) : sibling \in Having(AwsLegacyAliases, model)}
  OBVIOUS
<1>1. Go!LookupAwsLegacy(model) =
        UNION {Having(SpecsOf("AWS"), pair[2]) : pair \in {p \in AwsLegacyAliases : p[1] = model}}
  BY LookupsAgree DEF Go!LookupAwsLegacy, AwsLegacyAliases
<1> QED
  BY <1>1 DEF Having

(* The configurations of an appliance are the same.                        *)
LEMMA RowsAgreeOn == \A m : Go!Lookup(m) = RowsOf(m, m.platform)
  BY LookupsAgree, FamiliesAgree, AliasesAgree DEF Go!Lookup, RowsOf

-----------------------------------------------------------------------------
(* Savings.                                                                *)

(* A row of a table has a configuration, and numbers for each of them. *)
Numbered(hardware) == hardware.vCPU \in Nat /\ hardware.ram \in Nat
Configured(spec) == 1 \in DOMAIN spec /\ \A i \in DOMAIN spec : Numbered(spec[i])

(* Every row is such a row.                                                *)
LEMMA InNumbers == \A a, b \in Nat : Numbered(Gb(a, b)) /\ Numbered(Quarters(a, b))
  BY DEF Numbered, Gb, Quarters

LEMMA OneConfigured ==
  \A n, x : Numbered(x) => Configured(Model(n, <<x>>)[2])
  BY DEF Configured, Model

LEMMA TwoConfigured ==
  \A n, x, y : Numbered(x) /\ Numbered(y) => Configured(Model(n, <<x, y>>)[2])
  BY DEF Configured, Model

LEMMA ThreeConfigured ==
  \A n, x, y, z :
    Numbered(x) /\ Numbered(y) /\ Numbered(z) => Configured(Model(n, <<x, y, z>>)[2])
  BY DEF Configured, Model

LEMMA VMwareConfigured == \A row \in X5VMware \cup X6VMware : Configured(row[2])
  BY InNumbers, OneConfigured, TwoConfigured DEF X5VMware, X6VMware

LEMMA AzureConfigured == \A row \in X5Azure \cup X6Azure : Configured(row[2])
  BY InNumbers, OneConfigured DEF X5Azure, X6Azure

LEMMA AwsConfigured == \A row \in X5Aws \cup X6Aws : Configured(row[2])
  BY InNumbers, TwoConfigured, ThreeConfigured DEF X5Aws, X6Aws

LEMMA GcpConfigured == \A row \in X5Gcp \cup X6Gcp : Configured(row[2])
  BY InNumbers, OneConfigured, ThreeConfigured DEF X5Gcp, X6Gcp

(* So whatever is looked up has a configuration.                           *)
LEMMA AllConfigured ==
  ASSUME NEW m, NEW platform, NEW spec \in RowsOf(m, platform)
  PROVE  Configured(spec)
<1>1. \A row \in {Model("IB-4030", <<Gb(8, 32)>>)} : Configured(row[2])
  BY InNumbers, OneConfigured
<1>2. \A row \in FamilyDefaults : Configured(row[2])
  BY InNumbers, OneConfigured DEF FamilyDefaults
<1>3. \A row \in SpecsOf(platform) : Configured(row[2])
  BY <1>1, VMwareConfigured, AzureConfigured, AwsConfigured, GcpConfigured DEF SpecsOf
<1>4. \A row \in SpecsOf("AWS") : Configured(row[2])
  BY AwsConfigured DEF SpecsOf
<1>5. \A rows, name : \A s \in Having(rows, name) : \E row \in rows : s = row[2]
  BY DEF Having
<1>6. \/ spec \in Having(SpecsOf(platform), m.model)
      \/ spec \in Having(FamilyDefaults, m.family)
      \/ \E sibling \in Having(AwsLegacyAliases, m.model) : spec \in Having(SpecsOf("AWS"), sibling)
  BY DEF RowsOf
<1> QED
  BY <1>2, <1>3, <1>4, <1>5, <1>6

(* The hardware of a server of each tier.                                  *)
TierNames == {"2XS", "XS", "S", "M", "L", "XL"}

LEMMA HardwareAgrees ==
  \A tier \in TierNames : /\ TierHardware(tier) = Go!NiosXTierMinima(tier)
                          /\ TierHardware(tier).vCPU \in Nat /\ TierHardware(tier).ram \in Nat
  BY DEF TierNames, TierHardware, Go!NiosXTierMinima, Go!Hardware, Gb

(* The tier of a server has one of these names.                            *)
LEMMA TierNamed == \A m : CalcServerTokenTier(m, "nios-x").name \in TierNames
<1>1. \A i \in 1..6 : ServerTiers[i].name \in TierNames
  BY DEF ServerTiers, TierNames
<1> QED
  BY <1>1, OneOfTheTiers

(* The hardware of a saving is counted in numbers.                         *)
HasHardware(saving) ==
  /\ saving.before.vCPU \in Int /\ saving.before.ram \in Int
  /\ saving.after.vCPU \in Int /\ saving.after.ram \in Int

(* For any member, on any platform and of any model, known or not, with    *)
(* any configuration chosen, the server finds the savings that the pages   *)
(* find (vnios_specs.go, resource-savings.ts): both look the appliance up  *)
(* in a table of their own and fall back to its family or its sibling by a *)
(* rule of their own.                                                      *)
THEOREM MemberSavingsAgree ==
  ASSUME NEW m, NEW chosen, NEW tier \in TierNames, NEW target
  PROVE  /\ CalcMemberSavings(m, m.platform, tier, target, chosen)
              = Go!CalcMemberSavings(m, tier, target, chosen)
         /\ HasHardware(CalcMemberSavings(m, m.platform, tier, target, chosen))
<1> DEFINE rows == RowsOf(m, m.platform)
           spec == CHOOSE s \in rows : TRUE
           look == LookupApplianceSpec(m, m.platform)
<1>1. Go!Lookup(m) = rows
  BY RowsAgreeOn
<1>2. Go!ModelExistsOnAnyPlatform(m.model) <=> KnownSomewhere(m.model)
  BY KnownAgree
<1>3. Go!NotCounted("missing") = Excluded("missing") /\ Go!NotCounted("invalid") = Excluded("invalid")
  BY DEF Go!NotCounted, Excluded, Go!Hardware, NoHardware, Gb
<1>4. HasHardware(Excluded("missing")) /\ HasHardware(Excluded("invalid"))
  BY DEF HasHardware, Excluded, NoHardware, Gb
<1>5. rows # {} => Configured(spec) /\ spec # <<>>
  <2>1. rows # {} => spec \in rows
    OBVIOUS
  <2>2. \A s \in rows : Configured(s)
    BY AllConfigured
  <2>3. ~Configured(<<>>)
    BY DEF Configured
  <2> HIDE DEF rows, spec
  <2> QED
    BY <2>1, <2>2, <2>3
<1>6. look = IF rows = {} THEN <<>> ELSE spec
  BY DEF LookupApplianceSpec
<1> HIDE DEF rows, spec
<1>7. CASE m.model = ""
  BY <1>3, <1>4, <1>7 DEF CalcMemberSavings, Go!CalcMemberSavings
<1>8. CASE m.model # "" /\ rows = {}
  <2>1. CASE KnownSomewhere(m.model)
    BY <1>1, <1>2, <1>3, <1>4, <1>6, <1>8, <2>1 DEF CalcMemberSavings, Go!CalcMemberSavings
  <2>2. CASE ~KnownSomewhere(m.model)
    BY <1>1, <1>2, <1>3, <1>4, <1>6, <1>8, <2>2 DEF CalcMemberSavings, Go!CalcMemberSavings
  <2> QED
    BY <2>1, <2>2
<1>9. CASE m.model # "" /\ rows # {}
  <2> DEFINE before == spec[IF chosen \in DOMAIN spec THEN chosen ELSE 1]
             after == IF target = "nios-xaas" THEN NoHardware ELSE TierHardware(tier)
             kind == IF m.platform = "Physical" THEN "physical" ELSE target
  <2>1. look = spec /\ look # <<>>
    BY <1>5, <1>6, <1>9
  <2>2. CalcMemberSavings(m, m.platform, tier, target, chosen)
          = [kind |-> kind, before |-> before, after |-> after]
    BY <1>9, <2>1 DEF CalcMemberSavings
  <2>3. Go!ResolveVariant(CHOOSE s \in Go!Lookup(m) : TRUE, chosen) = before
    BY <1>1 DEF Go!ResolveVariant, spec
  <2>4. Go!CalcMemberSavings(m, tier, target, chosen)
          = [kind |-> kind, before |-> before, after |-> after]
    <3>1. Go!Hardware(0, 0) = NoHardware /\ Go!NiosXTierMinima(tier) = TierHardware(tier)
      BY HardwareAgrees DEF Go!Hardware, NoHardware, Gb
    <3> QED
      BY <1>1, <1>9, <2>3, <3>1 DEF Go!CalcMemberSavings
  <2>5. before.vCPU \in Nat /\ before.ram \in Nat
    BY <1>5, <1>9 DEF Configured, Numbered
  <2>6. after.vCPU \in Nat /\ after.ram \in Nat
    BY HardwareAgrees DEF NoHardware, Gb
  <2> HIDE DEF before, after, kind
  <2> QED
    BY <2>2, <2>4, <2>5, <2>6 DEF HasHardware
<1> QED
  BY <1>7, <1>8, <1>9

(* Totals of savings: differences of sums here, sums of differences there. *)
LEMMA GainsAgree ==
  ASSUME NEW savings, NEW S \in SUBSET DOMAIN savings, IsFiniteSet(S),
         NEW field, \A m \in S : savings[m].after[field] \in Int /\ savings[m].before[field] \in Int
  PROVE  SumFunction([m \in S |-> savings[m].after[field]])
           - SumFunction([m \in S |-> savings[m].before[field]])
         = Go!SumFunction([m \in S |-> savings[m].after[field] - savings[m].before[field]])
<1> DEFINE h == [m \in S |-> savings[m].after[field] - savings[m].before[field]]
           f == [m \in S |-> savings[m].before[field]]
           g == [m \in S |-> savings[m].after[field]]
<1>1. h \in [S -> Int] /\ f \in [S -> Int] /\ g \in [S -> Int] /\ \A m \in S : g[m] = h[m] + f[m]
  OBVIOUS
<1>2. Go!SumFunction(h) = SumFunction(h)
  BY GoSums
<1> HIDE DEF f, g, h
<1>3. SumFunction(g) = SumFunction(h) + SumFunction(f)
  BY <1>1, SumPlus
<1>4. SumFunction(h) \in Int /\ SumFunction(f) \in Int
  BY <1>1, SummingOf
<1>5. SumFunction(g) - SumFunction(f) = Go!SumFunction(h)
  BY <1>2, <1>3, <1>4
<1> QED
  BY <1>5 DEF f, g, h

(* For the savings of any members, the totals of the server are those of   *)
(* the pages (calcFleetSavings of both).                                   *)
THEOREM FleetsAgree ==
  ASSUME NEW savings, IsFiniteSet(DOMAIN savings), \A m \in DOMAIN savings : HasHardware(savings[m])
  PROVE  CalcFleetSavings(savings) = Go!CalcFleetSavings(savings)
<1> DEFINE of(kind) == {m \in DOMAIN savings : savings[m].kind = kind}
           ofKinds(kinds) == {m \in DOMAIN savings : savings[m].kind \in kinds}
           sum(members, side, field) == SumFunction([m \in members |-> savings[m][side][field]])
           gain(members, field) == sum(members, "after", field) - sum(members, "before", field)
           gains(members) == [vCPU |-> gain(members, "vCPU"), ram |-> gain(members, "ram"),
                              members |-> Cardinality(members)]
           delta(m, field) == savings[m].after[field] - savings[m].before[field]
           goSum(members) == [vCPU    |-> Go!SumFunction([m \in members |-> delta(m, "vCPU")]),
                              ram     |-> Go!SumFunction([m \in members |-> delta(m, "ram")]),
                              members |-> Go!Cardinality(members)]
<1>1. ASSUME NEW S \in SUBSET DOMAIN savings
      PROVE  gains(S) = goSum(S)
  <2>1. IsFiniteSet(S)
    BY FS_Subset
  <2>2. /\ \A m \in S : savings[m].after["vCPU"] \in Int /\ savings[m].before["vCPU"] \in Int
        /\ \A m \in S : savings[m].after["ram"] \in Int /\ savings[m].before["ram"] \in Int
    BY DEF HasHardware
  <2>3. gain(S, "vCPU") = Go!SumFunction([m \in S |-> delta(m, "vCPU")])
    BY <2>1, <2>2, GainsAgree
  <2>4. gain(S, "ram") = Go!SumFunction([m \in S |-> delta(m, "ram")])
    BY <2>1, <2>2, GainsAgree
  <2>5. Go!Cardinality(S) = Cardinality(S)
    BY GoCounts
  <2> QED
    BY <2>3, <2>4, <2>5
<1>2. /\ of("nios-x") = ofKinds({"nios-x"}) /\ of("nios-xaas") = ofKinds({"nios-xaas"})
      /\ of("nios-x") \cup of("nios-xaas") = ofKinds({"nios-x", "nios-xaas"})
      /\ of("physical") = ofKinds({"physical"}) /\ of("missing") = ofKinds({"missing"})
      /\ of("invalid") = ofKinds({"invalid"})
  OBVIOUS
<1>3. \A S : Go!Cardinality(S) = Cardinality(S)
  BY GoCounts
<1>4. CalcFleetSavings(savings) =
        [all |-> gains(of("nios-x") \cup of("nios-xaas")),
         niosX |-> gains(of("nios-x")), xaas |-> gains(of("nios-xaas")),
         retired |-> Cardinality(of("physical")),
         unknown |-> Cardinality(of("missing")), invalid |-> Cardinality(of("invalid"))]
  BY DEF CalcFleetSavings
<1>5. Go!CalcFleetSavings(savings) =
        [all |-> goSum(ofKinds({"nios-x", "nios-xaas"})),
         niosX |-> goSum(ofKinds({"nios-x"})), xaas |-> goSum(ofKinds({"nios-xaas"})),
         retired |-> Go!Cardinality(ofKinds({"physical"})),
         unknown |-> Go!Cardinality(ofKinds({"missing"})),
         invalid |-> Go!Cardinality(ofKinds({"invalid"}))]
  BY DEF Go!CalcFleetSavings
<1>6. /\ of("nios-x") \in SUBSET DOMAIN savings /\ of("nios-xaas") \in SUBSET DOMAIN savings
      /\ of("nios-x") \cup of("nios-xaas") \in SUBSET DOMAIN savings
  OBVIOUS
<1>7. /\ gains(of("nios-x")) = goSum(ofKinds({"nios-x"}))
      /\ gains(of("nios-xaas")) = goSum(ofKinds({"nios-xaas"}))
      /\ gains(of("nios-x") \cup of("nios-xaas")) = goSum(ofKinds({"nios-x", "nios-xaas"}))
  <2> HIDE DEF of, ofKinds, gains, goSum
  <2> QED
    BY <1>1, <1>2, <1>6
<1> HIDE DEF of, ofKinds, gains, goSum
<1> QED
  BY <1>2, <1>3, <1>4, <1>5, <1>7

-----------------------------------------------------------------------------
(* The session and its sheets.                                             *)

(* What the session of the server has are rows and servers, and the totals *)
(* the page holds are of those rows.                                       *)
RatesOfCategories(rows) ==
  \A f \in rows : f.provider # "nios" => f.category \in Categories /\ f.rate = TokenRates[f.category]

SessionInv ==
  /\ run \in {"asked", "polling"} => aggregates = Nothing
  /\ aggregates # Nothing => backend # Nothing /\ aggregates = Calculate(backend.rows).tokens
  /\ backend # Nothing =>
       AreRows(backend.rows) /\ RatesOfCategories(backend.rows) /\ MachinesOK(backend.servers)

(* As long as no load is typed, a load is that of its server.              *)
LEMMA BareLoad ==
  ASSUME NEW m, NEW typed, typed = <<>>
  PROVE  \A t : Covers(t, ApplyServerOverrides(m, typed)) <=> Covers(t, m)
<1>1. \A k : k \notin DOMAIN typed
  OBVIOUS
<1> QED
  BY <1>1 DEF ApplyServerOverrides, Covers

LEMMA BareTier ==
  ASSUME NEW m, NEW typed, typed = <<>>
  PROVE  CalcServerTokenTier(ApplyServerOverrides(m, typed), "nios-x") = CalcServerTokenTier(m, "nios-x")
  BY BareLoad DEF CalcServerTokenTier, TierFor

(* The sheet of savings. *)
LEMMA SavingsSheetAgrees ==
  ASSUME NumbersInv, backend # Nothing
  PROVE  SavingsAgree(Build(backend, variants))
<1> SUFFICES ASSUME metricOverrides = <<>>,
                    backend.servers["nios"] # {}, backend.servers["nios"] = servers["nios"],
                    \A m \in servers["nios"] : m.platform # "",
                    Displayed = Migrateable("nios"),
                    \A name \in DOMAIN map["nios"] : map["nios"][name] = "nios-x"
             PROVE  CalcFleetSavings(MemberSavings) = Build(backend, variants).savings
  BY DEF SavingsAgree
<1> DEFINE M == Migrateable("nios")
           chosen(m) == IF m.name \in DOMAIN variants THEN variants[m.name] ELSE 0
           tier(m) == CalcServerTokenTier(m, "nios-x").name
           there == [m \in M |-> Go!CalcMemberSavings(m, TierOf(m)[1], "nios-x", chosen(m))]
<1>1. ServersOf("nios") = servers["nios"]
  BY DEF ServersOf
<1>2. M = {n \in backend.servers["nios"] : ~InfraOnly(n)} /\ \A m \in M : m.platform # ""
  BY <1>1 DEF Migrateable, InfraOnly, IsInfraOnlyMember
<1>3. Build(backend, variants).savings = Go!CalcFleetSavings(there)
  <2>1. "savings" \in SheetsOf(backend)
    BY DEF SheetsOf
  <2>2. Build(backend, variants).savings = ResourceSavingsSheet(backend, variants)
    BY <2>1 DEF Build
  <2> QED
    BY <1>2, <2>2 DEF ResourceSavingsSheet
<1>4. ASSUME NEW m \in M
      PROVE  /\ MemberSavings[m] = CalcMemberSavings(m, m.platform, tier(m), "nios-x", chosen(m))
             /\ MemberSavings[m] = there[m] /\ HasHardware(MemberSavings[m])
  <2>1. MemberFF(m) = "nios-x" /\ PlatformOf(m) = m.platform
    BY <1>2 DEF MemberFF, PlatformOf
  <2>2. CalcServerTokenTier(ApplyServerOverrides(m, metricOverrides), "nios-x")
          = CalcServerTokenTier(m, "nios-x")
    BY BareTier
  <2>3. MemberSavings[m] = CalcMemberSavings(m, m.platform, tier(m), "nios-x", chosen(m))
    BY <2>1, <2>2 DEF MemberSavings
  <2>4. TierOf(m)[1] = tier(m) /\ tier(m) \in TierNames
    BY TiersAgree, TierNamed
  <2>5. there[m] = Go!CalcMemberSavings(m, tier(m), "nios-x", chosen(m))
    BY <2>4
  <2> HIDE DEF chosen, tier, there, M
  <2> QED
    BY <2>3, <2>4, <2>5, MemberSavingsAgree
<1>5. DOMAIN MemberSavings = M /\ MemberSavings = [m \in M |-> MemberSavings[m]]
  BY DEF MemberSavings
<1>6. IsFiniteSet(M)
  <2>1. "nios" \in Planned
    BY DEF Planned
  <2> QED
    BY <2>1, FiniteServers, FS_Subset
<1>7. MemberSavings = there
  <2> DEFINE here == MemberSavings
  <2>1. here = [m \in M |-> here[m]] /\ \A m \in M : here[m] = there[m]
    BY <1>4, <1>5
  <2>2. there = [m \in M |-> there[m]]
    OBVIOUS
  <2> HIDE DEF here, there, M
  <2>3. here = there
    BY <2>1, <2>2
  <2> QED
    BY <2>3 DEF here
<1>8. CalcFleetSavings(MemberSavings) = Go!CalcFleetSavings(MemberSavings)
  BY <1>4, <1>5, <1>6, FleetsAgree
<1> QED
  BY <1>3, <1>7, <1>8

(* The server tokens of servers with no load typed, as both compute them. *)
LEMMA ServersAsScanned ==
  ASSUME NumbersInv, metricOverrides = <<>>, NEW p \in Planned, NEW S \in SUBSET ServersOf(p)
  PROVE  SumFunction([m \in S |-> TokensOf(m)]) = NiosXTokens(LoadsOf(p, S))
<1> DEFINE loads == LoadsOf(p, S)
           f == [m \in S |-> TokensOf(m)]
           g == NiosXOf(loads)
           k == [m \in S |-> ApplyServerOverrides(m, metricOverrides)]
<1>1. IsFiniteSet(S) /\ IsFiniteSet(loads)
  BY FiniteServers, FiniteLoads, FS_Subset
<1>2. \A m, n \in S : m.name = n.name => m = n
  BY FiniteServers DEF AreServers
<1>3. loads = {k[m] : m \in S} /\ k \in [S -> loads]
  BY DEF LoadsOf
<1>4. \A m \in S : k[m].name = m.name
  BY DEF ApplyServerOverrides
<1>5. \A m \in S : TokensOf(m) = CalcServerTokenTier(m, "nios-x").tokens
  BY TiersAgree
<1>6. \A m \in S : CalcServerTokenTier(k[m], "nios-x") = CalcServerTokenTier(m, "nios-x")
  BY BareTier
<1>7. f \in [S -> Int] /\ g \in [loads -> Int]
  BY <1>5, TierTokens DEF NiosXOf
<1>8. \A m \in S : f[m] = CalcServerTokenTier(m, "nios-x").tokens
  BY <1>5
<1>9. \A load \in loads : g[load] = CalcServerTokenTier(load, "nios-x").tokens
  BY DEF NiosXOf
<1>10. NiosXTokens(loads) = SumFunction(g)
  BY DEF NiosXTokens, NiosXOf
<1> HIDE DEF loads, f, g, k
<1>11. \A m, n \in S : k[m] = k[n] => m = n
  BY <1>2, <1>4
<1>12. \A m \in S : g[k[m]] = f[m]
  BY <1>3, <1>6, <1>8, <1>9
<1>13. \A load \in loads : \E m \in S : k[m] = load
  BY <1>3
<1>14. SumFunction(g) = SumFunction(f)
  BY <1>1, <1>3, <1>7, <1>11, <1>12, <1>13, SumRenamed
<1> QED
  BY <1>10, <1>14 DEF f, loads

(* No servers need no tokens.                                              *)
LEMMA NoTokens == ASSUME NEW S, S = {} PROVE SumFunction([m \in S |-> TokensOf(m)]) = 0
<1> DEFINE f == [m \in S |-> TokensOf(m)]
<1>1. DOMAIN f = {}
  OBVIOUS
<1> HIDE DEF f
<1>2. SumFunction(f) = 0
  BY <1>1, SumEmpty
<1> QED
  BY <1>2 DEF f

(* The sheets of servers. *)
LEMMA ServerSheetsAgree ==
  ASSUME NumbersInv, backend # Nothing
  PROVE  ServersAgree(Build(backend, variants))
<1> DEFINE book == Build(backend, variants)
           inSession(p) == backend.servers[p]
           tokens(S) == SumFunction([m \in S |-> TokensOf(m)])
<1> SUFFICES ASSUME metricOverrides = <<>>,
                    \A p \in Planned : inSession(p) = IF p \in selected THEN ServersOf(p) ELSE {}
             PROVE  /\ "servers" \in DOMAIN book =>
                         /\ book.servers.total = ScenarioCards.full.servers
                         /\ {m.name : m \in Migrateable("nios")} = {r.member : r \in book.servers.rows}
                    /\ "ad" \in DOMAIN book => book.ad.total = ADScenarioCards.full
                    /\ map["microsoft"] = <<>> => book.skus.servers = CeilDiv(TotalServerTokens, 500)
  BY DEF ServersAgree
<1>1. "nios" \in Planned /\ "microsoft" \in Planned
  BY DEF Planned
<1>2. DOMAIN book = SheetsOf(backend)
  BY DEF Build
<1>3. /\ "servers" \in DOMAIN book => book.servers = NiosServerTokensSheet(backend)
      /\ "ad" \in DOMAIN book => book.ad = ADMigrationSheet(backend)
      /\ book.skus = SKUSheet(backend)
  <2>1. "skus" \in SheetsOf(backend)
    BY DEF SheetsOf
  <2> QED
    BY <1>2, <2>1 DEF Build
<1>4. /\ "servers" \in DOMAIN book => inSession("nios") # {}
      /\ "ad" \in DOMAIN book => inSession("microsoft") # {}
  BY <1>2 DEF SheetsOf
<1>5. \A p \in Planned : inSession(p) # {} => p \in selected /\ inSession(p) = ServersOf(p)
  OBVIOUS
<1> DEFINE listed == {m \in inSession("nios") : ~InfraOnly(m)}
<1>6. listed = IF "nios" \in selected THEN Migrateable("nios") ELSE {}
  BY <1>1 DEF Migrateable, InfraOnly, IsInfraOnlyMember
<1>7. /\ NiosServerTokensSheet(backend).total = tokens(listed)
      /\ {r.member : r \in NiosServerTokensSheet(backend).rows} = {m.name : m \in listed}
  <2> DEFINE rowOf(m) == [member |-> m.name, tier |-> TierOf(m)[1], tokens |-> TokensOf(m)]
  <2>1. NiosServerTokensSheet(backend)
          = [rows |-> {rowOf(m) : m \in listed}, total |-> tokens(listed)]
    BY DEF NiosServerTokensSheet
  <2>2. \A m : rowOf(m).member = m.name
    OBVIOUS
  <2> HIDE DEF tokens, listed, rowOf
  <2> QED
    BY <2>1, <2>2
<1>8. ADMigrationSheet(backend).total = tokens(inSession("microsoft"))
  BY DEF ADMigrationSheet, ADServerTokens
<1>9. \A p \in Planned : \A S \in SUBSET ServersOf(p) : tokens(S) = NiosXTokens(LoadsOf(p, S))
  BY ServersAsScanned
<1>10. /\ tokens(Migrateable("nios")) = NiosXTokens(LoadsOf("nios", Migrateable("nios")))
       /\ tokens(ServersOf("microsoft")) = NiosXTokens(LoadsOf("microsoft", ServersOf("microsoft")))
  <2>1. Migrateable("nios") \in SUBSET ServersOf("nios")
    BY DEF Migrateable
  <2> HIDE DEF tokens
  <2> QED
    BY <1>1, <1>9, <2>1
<1>11. tokens({}) = 0
  BY NoTokens
<1>12. /\ ScenarioCards.full.servers = NiosXTokens(LoadsOf("nios", Migrateable("nios")))
       /\ ADScenarioCards.full = NiosXTokens(LoadsOf("microsoft", ServersOf("microsoft")))
  BY DEF ScenarioCards, ADScenarioCards
<1>13. SKUSheet(backend).servers = CeilDiv(tokens(listed) + tokens(inSession("microsoft")), 500)
  BY <1>7, <1>8 DEF SKUSheet
<1>14. tokens(listed) = ServersNeeded("nios")
  <2> HIDE DEF tokens, listed
  <2> QED
    BY <1>6, <1>10, <1>11 DEF ServersNeeded
<1>15. map["microsoft"] = <<>> => tokens(inSession("microsoft")) = ServersNeeded("microsoft")
  <2>1. map["microsoft"] = <<>> => DOMAIN map["microsoft"] = {}
    OBVIOUS
  <2> HIDE DEF tokens
  <2> QED
    BY <1>1, <1>10, <1>11, <2>1, NoInfraControllers DEF ServersNeeded
<1> HIDE DEF book, tokens, listed, inSession
<1>16. "servers" \in DOMAIN book =>
         /\ book.servers.total = ScenarioCards.full.servers
         /\ {m.name : m \in Migrateable("nios")} = {r.member : r \in book.servers.rows}
  BY <1>1, <1>3, <1>4, <1>5, <1>6, <1>7, <1>10, <1>12
<1>17. "ad" \in DOMAIN book => book.ad.total = ADScenarioCards.full
  BY <1>1, <1>3, <1>4, <1>5, <1>8, <1>10, <1>12
<1>18. map["microsoft"] = <<>> => book.skus.servers = CeilDiv(TotalServerTokens, 500)
  BY <1>3, <1>13, <1>14, <1>15 DEF TotalServerTokens
<1> QED
  BY <1>16, <1>17, <1>18

(* Rows at the rate of their category: one division is that of their rate. *)
LEMMA OneRate ==
  ASSUME NEW rows, AreRows(rows), NEW c \in Categories,
         \A f \in rows : f.category \in Categories /\ f.rate = TokenRates[f.category]
  PROVE  CategoryTokens(rows, c) = CeilDiv(CountIn(rows, c), TokenRates[c])
<1> DEFINE D == {f.rate : f \in rows}
           ofRate(r) == {f \in rows : f.category = c /\ f.rate = r}
           up == [r \in D |-> CeilDiv(CountIn(ofRate(r), c), r)]
           rate == TokenRates[c]
<1>1. rate \in Nat \ {0}
  BY DEF TokenRates, Categories
<1>2. IsFiniteSet(D)
  <2> DEFINE h == [f \in rows |-> f.rate]
  <2>1. D = {h[f] : f \in rows} /\ DOMAIN h = rows
    OBVIOUS
  <2> HIDE DEF D, h
  <2> QED
    BY <2>1, FiniteImage DEF AreRows
<1>3. \A r \in D : r \in Nat \ {0}
  BY DEF AreRows
<1>4. ASSUME NEW S, S = {} PROVE CountIn(S, c) = 0
  <2> DEFINE f == [g \in {h \in S : h.category = c} |-> g.count]
  <2>1. DOMAIN f = {} /\ CountIn(S, c) = SumFunction(f)
    BY <1>4 DEF CountIn
  <2> QED
    BY <2>1, SumEmpty
<1>5. ASSUME NEW r, r # rate PROVE CountIn(ofRate(r), c) = 0
  <2>1. ofRate(r) = {}
    BY <1>5
  <2> HIDE DEF ofRate
  <2> QED
    BY <1>4, <2>1
<1>6. CountIn(ofRate(rate), c) = CountIn(rows, c)
  <2>1. {g \in ofRate(rate) : g.category = c} = {g \in rows : g.category = c}
    OBVIOUS
  <2> HIDE DEF ofRate, rate
  <2> QED
    BY <2>1 DEF CountIn
<1>7. CountIn(rows, c) \in Nat
  <2> DEFINE S == {g \in rows : g.category = c}
             f == [g \in S |-> g.count]
  <2>1. IsFiniteSet(S)
    BY FS_Subset DEF AreRows
  <2>2. f \in [S -> Nat] /\ CountIn(rows, c) = SumFunction(f)
    BY DEF AreRows, CountIn
  <2> HIDE DEF S, f
  <2> QED
    BY <2>1, <2>2, SumNat
<1>8. \A r \in D : r # rate => up[r] = 0
  BY <1>3, <1>5, CeilOfNone
<1>9. rate \in D => up[rate] = CeilDiv(CountIn(rows, c), rate)
  BY <1>6
<1>10. CeilDiv(CountIn(rows, c), rate) \in Nat
  BY <1>1, <1>7, CeilIs
<1>11. CategoryTokens(rows, c) = SumFunction(up)
  BY DEF CategoryTokens
<1>12. rate \notin D => CountIn(rows, c) = 0
  <2>1. rate \notin D => ofRate(rate) = {}
    OBVIOUS
  <2> HIDE DEF ofRate, D, rate
  <2> QED
    BY <1>4, <1>6, <2>1
<1>13. DOMAIN up = D /\ up = [r \in D |-> up[r]]
  OBVIOUS
<1> HIDE DEF D, up, ofRate, rate
<1>14. up \in [D -> Int]
  <2>1. \A r \in D : up[r] \in Int
    BY <1>8, <1>9, <1>10
  <2> QED
    BY <1>13, <2>1
<1>15. CASE rate \in D
  <2> DEFINE g == [r \in {rate} |-> up[rate]]
  <2>1. g \in [{rate} -> Int] /\ g[rate] = up[rate] /\ \A r \in {rate} : g[r] = up[r]
    BY <1>14, <1>15
  <2>2. {rate} \in SUBSET D /\ \A r \in D \ {rate} : up[r] = 0
    BY <1>8, <1>15
  <2> HIDE DEF g
  <2>3. SumFunction(g) = SumFunction(up)
    BY <1>2, <1>14, <2>1, <2>2, SumOfNonzero
  <2>4. SumFunction(g) = up[rate]
    BY <2>1, SumOne
  <2> QED
    BY <1>9, <1>11, <1>15, <2>3, <2>4 DEF rate
<1>16. CASE rate \notin D
  <2>1. \A r \in D : up[r] = 0
    BY <1>8, <1>16
  <2>2. SumFunction(up) = Cardinality(D) * 0 /\ Cardinality(D) \in Nat
    BY <1>2, <1>14, <2>1, SumConstant, FS_CardinalityType
  <2>3. CeilDiv(CountIn(rows, c), rate) = 0
    BY <1>1, <1>12, <1>16, CeilOfNone
  <2> QED
    BY <1>11, <2>2, <2>3 DEF rate
<1> QED
  BY <1>15, <1>16

(* The rates of the server are those of the pages.                         *)
LEMMA SameRates == PerToken = TokenRates /\ NiosPerToken = NiosTokenRates
  BY DEF PerToken, TokenRates, NiosPerToken, NiosTokenRates

(* The sheets of rows. *)
LEMMA RowSheetsAgree ==
  ASSUME NumbersInv, SessionInv, backend # Nothing
  PROVE  RowsAgree(Build(backend, variants))
<1> DEFINE book == Build(backend, variants)
           rows == backend.rows
           sheet(p) == {r \in TokenCalculationSheet(backend) : r.row.provider = p}
<1> SUFFICES ASSUME findings = rows, overrides = <<>>
             PROVE  /\ (aggregates # Nothing \/ NiosRows = {}) =>
                         \A c \in Categories : book.summary.tokens[c] = CategoryTotals[c]
                    /\ \A p \in selected : {f \in Effective : f.provider = p} =
                         IF p \in DOMAIN book.providers THEN {r.row : r \in book.providers[p]} ELSE {}
                    /\ "scenarios" \in DOMAIN book =>
                         book.scenarios.current.management = CalcNiosTokens(NiosRows)
  BY DEF RowsAgree
<1>1. Effective = rows
  <2>1. \A k : k \notin DOMAIN overrides
    OBVIOUS
  <2>2. Effective = {f : f \in findings}
    BY <2>1 DEF Effective, EffectiveFindings
  <2> QED
    BY <2>2
<1>2. AreRows(rows) /\ RatesOfCategories(rows)
  BY DEF SessionInv
<1>3. DOMAIN book = SheetsOf(backend)
  BY DEF Build
<1>4. /\ book.summary = SummarySheet(backend)
      /\ book.providers = [p \in {f.provider : f \in rows} |-> ProviderSheet(backend, p)]
      /\ "scenarios" \in DOMAIN book => book.scenarios = NiosMigrationScenariosSheet(backend)
  <2>1. "summary" \in SheetsOf(backend) /\ "providers" \in SheetsOf(backend)
    BY DEF SheetsOf
  <2> QED
    BY <1>3, <2>1 DEF Build
<1>5. book.summary.tokens = Tokens(rows, PerToken)
  BY <1>4 DEF SummarySheet, Calculate
<1>6. ASSUME aggregates # Nothing, NEW c \in Categories
      PROVE  book.summary.tokens[c] = CategoryTotals[c]
  <2>1. CategoryTotals = aggregates
    BY <1>6 DEF CategoryTotals
  <2>2. aggregates = Tokens(rows, PerToken)
    BY <1>6 DEF SessionInv, Calculate
  <2> QED
    BY <1>5, <2>1, <2>2
<1>7. ASSUME NiosRows = {}, aggregates = Nothing, NEW c \in Categories
      PROVE  book.summary.tokens[c] = CategoryTotals[c]
  <2>1. \A f \in rows : f.category \in Categories /\ f.rate = TokenRates[f.category]
    BY <1>1, <1>2, <1>7 DEF NiosRows, RatesOfCategories
  <2>2. CategoryTokens(rows, c) = CeilDiv(CountIn(rows, c), TokenRates[c])
    BY <1>2, <2>1, OneRate
  <2>3. CategoryTotals[c] = CategoryTokens(rows, c)
    BY <1>1, <1>7 DEF CategoryTotals
  <2>4. Tokens(rows, PerToken)[c] = CeilDiv(CountIn(rows, c), TokenRates[c])
    BY SameRates DEF Tokens
  <2> QED
    BY <1>5, <2>2, <2>3, <2>4
<1>8. \A p \in selected : {f \in Effective : f.provider = p} =
        IF p \in DOMAIN book.providers THEN {r.row : r \in book.providers[p]} ELSE {}
  <2> DEFINE line(f) == [row |-> f, tokens |-> CeilDiv(f.count, f.rate)]
  <2>1. TokenCalculationSheet(backend) = {line(f) : f \in rows}
    BY DEF TokenCalculationSheet
  <2>2. \A f : line(f).row = f
    OBVIOUS
  <2>3. \A p : ProviderSheet(backend, p) = {r \in TokenCalculationSheet(backend) : r.row.provider = p}
    BY DEF ProviderSheet
  <2> DEFINE there == {f.provider : f \in rows}
  <2>4. DOMAIN book.providers = there
        /\ \A p \in there : book.providers[p] = ProviderSheet(backend, p)
    BY <1>4
  <2> HIDE DEF book, rows, line
  <2>5. \A p : {r.row : r \in ProviderSheet(backend, p)} = {f \in rows : f.provider = p}
    BY <2>1, <2>2, <2>3
  <2>6. ASSUME NEW p, p \notin there PROVE {f \in rows : f.provider = p} = {}
    BY <2>6
  <2> HIDE DEF there
  <2> QED
    BY <1>1, <2>4, <2>5, <2>6
<1>9. "scenarios" \in DOMAIN book =>
        book.scenarios.current.management = CalcNiosTokens(NiosRows)
  <2> DEFINE grid == OfProvider(rows, "nios")
             licences(c) == CeilDiv(CountIn(grid, c), NiosTokenRates[c])
  <2>1. "scenarios" \in DOMAIN book => book.scenarios.current.management = NiosTokens(grid)
    BY <1>4 DEF NiosMigrationScenariosSheet
  <2>2. grid = NiosRows
    BY <1>1 DEF OfProvider, NiosRows
  <2>3. CalcNiosTokens(NiosRows) = Max({licences(c) : c \in Categories})
    BY <2>2 DEF CalcNiosTokens
  <2>4. NiosTokens(grid) = Largest(Tokens(grid, NiosPerToken))
    BY DEF NiosTokens
  <2>5. \A c \in Categories : Tokens(grid, NiosPerToken)[c] = licences(c)
    BY SameRates DEF Tokens
  <2> DEFINE t == Tokens(grid, NiosPerToken)
  <2>6. Largest(t) = Max({t[c] : c \in Categories})
    BY DEF Largest
  <2> HIDE DEF t, licences
  <2>7. {t[c] : c \in Categories} = {licences(c) : c \in Categories}
    BY <2>5 DEF t
  <2>8. Largest(t) = Max({licences(c) : c \in Categories})
    BY <2>6, <2>7
  <2> QED
    BY <2>1, <2>3, <2>4, <2>8 DEF t
<1> QED
  BY <1>6, <1>7, <1>8, <1>9

(* Rows of a scan are at the rate of their category, but for those of a    *)
(* grid.                                                                   *)
LEMMA RatesOfScan ==
  ASSUME NEW chosen \in SUBSET Providers, NEW outcome,
         \A p \in chosen : outcome[p] \in Outcomes[p]
  PROVE  RatesOfCategories(ScanRows(outcome, chosen))
<1> SUFFICES ASSUME NEW p \in chosen, NEW g \in outcome[p].rows, NEW f,
                    f = RowOfScan(g, scans), f.provider # "nios"
             PROVE  f.category \in Categories /\ f.rate = TokenRates[f.category]
  BY DEF RatesOfCategories, ScanRows
<1>1. f.provider = g.provider /\ f.category = g.category /\ f.rate = g.rate
  BY DEF RowOfScan
<1>2. g.provider = p /\ outcome[p] \in Outcomes[p]
  BY OutcomesAssumption
<1> QED
  BY <1>1, <1>2, OutcomesAssumption

(* What a scan leaves in the session and on the page.                      *)
LEMMA SessionOfScan ==
  ASSUME NumbersInv, ScanCompletes
  PROVE  SessionInv'
<1>1. closure.selected \subseteq Providers
  BY DEF NumbersInv, ScanCompletes
<1>2. PICK outcome \in [closure.selected -> UNION {Outcomes[p] : p \in Providers}] :
        /\ \A p \in closure.selected : outcome[p] \in Outcomes[p]
        /\ aggregates' = Calculate(ScanRows(outcome, closure.selected)).tokens
        /\ backend' = [complete |-> TRUE, rows |-> ScanRows(outcome, closure.selected), servers |->
             [p \in Planned |-> IF p \in closure.selected THEN outcome[p].servers ELSE {}]]
  BY DEF ScanCompletes, ScanRows
<1> DEFINE rows == ScanRows(outcome, closure.selected)
           found == [p \in Planned |-> IF p \in closure.selected THEN outcome[p].servers ELSE {}]
<1>3. AreRows(rows) /\ RatesOfCategories(rows)
  BY <1>1, <1>2, RowsOfScan, RatesOfScan
<1>4. MachinesOK(found)
  <2>1. \A p \in closure.selected : AreServers(p, outcome[p].servers)
    BY <1>1, <1>2, OutcomesAssumption
  <2> QED
    BY <2>1, NoServersOK DEF MachinesOK
<1>5. backend'.rows = rows /\ backend'.servers = found /\ backend' # Nothing
  <2>1. \A x : x = [complete |-> TRUE, rows |-> rows, servers |-> found] => x # <<>>
    <3> HIDE DEF rows, found
    <3> QED
      OBVIOUS
  <2> QED
    BY <1>2, <2>1 DEF Nothing
<1>6. aggregates' = Calculate(backend'.rows).tokens
  BY <1>2, <1>5
<1>7. run' = "done"
  BY DEF ScanCompletes
<1> HIDE DEF rows, found
<1> QED
  BY <1>3, <1>4, <1>5, <1>6, <1>7
  DEF SessionInv, AreRows, RatesOfCategories, MachinesOK, AreServers, Nothing, Calculate, Tokens

(* No step lets the session and the totals part.                           *)
LEMMA SessionInit == Init => SessionInv
  BY DEF Init, SessionInv

LEMMA SessionStep == NumbersInv /\ SessionInv /\ [Next]_vars => SessionInv'
<1> SUFFICES ASSUME NumbersInv, SessionInv, [Next]_vars PROVE SessionInv'
  OBVIOUS
<1> USE DEF choice, data, plan
<1>1. ASSUME UNCHANGED backend, UNCHANGED aggregates \/ aggregates' = Nothing,
             \/ run' = run \/ run' \notin {"asked", "polling"}
             \/ run \in {"asked", "polling"} \/ aggregates' = Nothing
      PROVE  SessionInv'
  BY <1>1 DEF SessionInv
<1>2. ASSUME Edit PROVE SessionInv'
  BY <1>1, <1>2 DEF Edit
<1>3. CASE StartFromSources \/ RetryScan
  BY <1>1, <1>3 DEF StartFromSources, RetryScan, StartScan
<1>4. CASE ScanCompletes
  BY <1>4, SessionOfScan
<1>5. CASE StartAccepted
  <2> DEFINE begun == [complete |-> FALSE, rows |-> {}, servers |-> NoServers]
  <2>1. backend' = begun /\ aggregates' = Nothing
    BY <1>5 DEF StartAccepted, SessionInv
  <2>2. AreRows({}) /\ RatesOfCategories({}) /\ MachinesOK(NoServers)
    BY FS_EmptySet, NoServersOK DEF AreRows, RatesOfCategories, MachinesOK, NoServers
  <2>3. begun.rows = {} /\ begun.servers = NoServers
    OBVIOUS
  <2> HIDE DEF begun
  <2> QED
    BY <2>1, <2>2, <2>3 DEF SessionInv
<1>6. CASE ScanFails
  BY <1>1, <1>6 DEF ScanFails
<1>7. CASE GoBack
  BY <1>1, <1>7 DEF GoBack
<1>8. CASE ViewResults
  BY <1>1, <1>8 DEF ViewResults
<1>9. ASSUME NEW p \in Providers, ToggleProvider(p) PROVE SessionInv'
  BY <1>1, <1>9 DEF ToggleProvider
<1>10. ASSUME NEW f \in findings, ResetCount(f) \/ \E n \in Counts : EditCount(f, n)
       PROVE  SessionInv'
  BY <1>2, <1>10 DEF ResetCount, EditCount
<1>11. CASE ResetCounts
  BY <1>2, <1>11 DEF ResetCounts
<1>12. ASSUME NEW p \in Planned,
              \/ ToggleAllMigration(p)
              \/ \E name \in Targets(p) : ToggleMigration(p, name) \/ SetFormFactor(p, name)
       PROVE SessionInv'
  BY <1>2, <1>12 DEF ToggleAllMigration, ToggleMigration, SetFormFactor
<1>13. ASSUME \/ \E field \in Typed :
                   \/ \E m \in Displayed : EditMember(m, field)
                   \/ \E m \in DisplayedControllers : EditController(m, field)
              \/ ResetServers
              \/ \E m \in Displayed : \E configuration \in Configurations(m) : SetVariant(m, configuration)
              \/ \E kind \in DOMAIN growth, percent \in Buffers : SetGrowth(kind, percent)
       PROVE SessionInv'
  <2>1. Edit
    BY <1>13 DEF EditMember, EditController, TypeLoad, ResetLoad, ResetServers, SetVariant, SetGrowth
  <2> QED
    BY <1>2, <2>1
<1>14. CASE SaveSession
  BY <1>1, <1>14 DEF SaveSession
<1>15. CASE StartOver
  BY <1>1, <1>15 DEF StartOver, Restart
<1>16. CASE LoadSession
  BY <1>1, <1>16 DEF LoadSession, Restart
<1>17. CASE UNCHANGED vars
  BY <1>1, <1>17 DEF vars
<1> QED
  BY <1>3, <1>4, <1>5, <1>6, <1>7, <1>8, <1>9, <1>10, <1>11, <1>12, <1>13, <1>14, <1>15, <1>16, <1>17
  DEF Next

(* The workbook that the server builds of a complete scan is about the     *)
(* numbers on show in every state (WorkbookAgrees: DownloadedXlsx of       *)
(* results-surface.tsx; exporter.go and its sheets, calculator.go,         *)
(* vnios_specs.go): the tokens by category, the rows of each provider, the *)
(* licences, the tokens of servers and the savings, each computed twice,   *)
(* by the server and by the pages, come out the same.                      *)
THEOREM WorkbooksAgree == Spec => []WorkbookAgrees
<1>1. ASSUME NumbersInv, SessionInv PROVE WorkbookAgrees
  <2> SUFFICES ASSUME backend # Nothing, backend.complete
               PROVE  NumbersAgree(DownloadedXlsx)
    BY DEF WorkbookAgrees
  <2>1. DownloadedXlsx = Build(backend, variants)
    BY DEF DownloadedXlsx
  <2> QED
    BY <1>1, <2>1, RowSheetsAgree, ServerSheetsAgree, SavingsSheetAgrees DEF NumbersAgree
<1> QED
  BY <1>1, NumbersInit, NumbersStep, SessionInit, SessionStep, PTL DEF Spec

=============================================================================
