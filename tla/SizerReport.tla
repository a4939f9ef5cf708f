---------------------------- MODULE SizerReport -----------------------------
(***************************************************************************)
(* Step 4 of the sizer, its settings, and the report they lead to          *)
(* (sizer-step-settings.tsx, step-settings/*, sizer-state.ts,              *)
(* sizer-step-results.tsx).  The sites, members and service points come    *)
(* and go on the other steps, which are the subject of Sizer.tla: here the *)
(* user replaces them at once while another page is shown.                 *)
(*                                                                         *)
(* A section of step 4 is mounted only while it is open and the step is    *)
(* shown.  The security section fills in the numbers of assets when it is  *)
(* mounted, if it is enabled and they are both zero and not filled in yet. *)
(***************************************************************************)
EXTENDS SizerReportCalc

CONSTANTS
  Documents,  \* what the other steps lead to: sites, niosx and xaas
  Percents,   \* positions of the sliders
  Counts,     \* numbers of assets and addresses the user types
  Queries,    \* numbers of queries and of domains the user types
  Switched,   \* the toggles the user uses
  Tuned,      \* the categories the user gives an overhead of their own
  Folded,     \* the sections the user opens and closes
  MaxEdits    \* changes, in all

(* A site with its numbers, a member and a service point of a known size.  *)
(* A lease takes time; a name is a sequence.                               *)
IsSite(s) ==
  /\ DOMAIN s = {"id", "region", "multiplier", "activeIPs", "dnsRecords", "dhcpScopes", "assets",
                 "verified", "unverified", "qps", "lease"}
  /\ s.multiplier \in Nat \ {0}
  /\ \A f \in DOMAIN s \ {"id", "region", "multiplier", "lease"} : s[f] \in Nat \cup {Undefined}
  /\ s.lease \in (Nat \ {0}) \cup {Undefined}

IsMember(n) ==
  /\ n.id \in Nat
  /\ \E i \in DOMAIN ServerTiers : ServerTiers[i].name = n.tier
  /\ Len(n.name) \in Nat /\ n.name = [i \in 1..Len(n.name) |-> n.name[i]]

IsPoint(x) ==
  /\ x.connections \in Nat
  /\ \E i \in DOMAIN XaasTiers : XaasTiers[i].name = x.tier

OneForEachId(nodes) == IsFiniteSet(nodes) /\ \A a, b \in nodes : a.id = b.id => a = b

WellFormed(d) ==
  /\ DOMAIN d = {"sites", "niosx", "xaas"}
  /\ OneForEachId(d.sites) /\ OneForEachId(d.niosx) /\ OneForEachId(d.xaas)
  /\ (\A s \in d.sites : IsSite(s)) /\ (\A n \in d.niosx : IsMember(n))
  /\ \A x \in d.xaas : IsPoint(x)

ASSUME DocumentsAssumption == \A d \in Documents : WellFormed(d)
ASSUME TypedAssumption == Percents \cup Counts \cup Queries \subseteq Nat

VARIABLES
  doc,       \* core.regions and core.infrastructure
  settings,  \* core.globalSettings
  sec,       \* core.security
  ui,        \* sectionsOpen, growthBufferAdvanced, securityAutoFilled
  page,      \* what is shown: "settings", "report" or "elsewhere"
  typed,     \* the numbers of assets the user typed last: not in the code
  summed,    \* what the sites had when they were last summed: not in the code
  edits      \* the changes so far: a bound, not in the code

reportVars == <<doc, settings, sec, ui, page, typed, summed, edits>>

Categories == {"mgmt", "server", "reporting", "security"}
Sections == {"modules", "growth", "security"}
AssetFields == {"verified", "unverified"}

(* What is shown as turned on before the user touches it. *)
OnByDefault == {"ipam", "dnsModule", "dhcpModule", "csp"}

NoAssets == [f \in AssetFields |-> 0]

NoSettings ==
  [growth |-> 20, advanced |-> FALSE,
   overhead |-> [c \in Categories |-> Undefined], on |-> {}, off |-> {}]

NoSecurity ==
  [enabled |-> FALSE, soc |-> FALSE, verified |-> 0, unverified |-> 0,
   dossier |-> 0, lookalikes |-> 0]

NoUi == [open |-> Sections, advanced |-> FALSE, auto |-> {}]

NoDocument == [sites |-> {}, niosx |-> {}, xaas |-> {}]

ReportInit ==
  /\ doc = NoDocument
  /\ settings = NoSettings
  /\ sec = NoSecurity
  /\ ui = NoUi
  /\ page = "elsewhere"
  /\ typed = NoAssets
  /\ summed = NoAssets
  /\ edits = 0

Change == edits < MaxEdits /\ edits' = edits + 1

-----------------------------------------------------------------------------
(* Security.                                                               *)

Mounted(u, p) == p = "settings" /\ "security" \in u.open

Sums(sites) ==
  LET verified(s)   == Known(s.verified) * s.multiplier
      unverified(s) == Known(s.unverified) * s.multiplier
  IN  [verified |-> SumOver(sites, verified), unverified |-> SumOver(sites, unverified)]

WithSums(s, sums) == [s EXCEPT !.verified = sums.verified, !.unverified = sums.unverified]

(* SECURITY_RECALC_FROM_SITES on top of u *)
Recalculated(u) ==
  LET sums == Sums(doc.sites)
  IN  /\ sec' = WithSums(sec, sums)
      /\ ui' = [u EXCEPT !.auto = AssetFields]
      /\ summed' = sums

MayFill == sec.enabled /\ ui.auto = {} /\ sec.verified = 0 /\ sec.unverified = 0

(* The user interface becomes u and the page p; a section that is mounted  *)
(* by that may be filled.                                                  *)
FillIfNew(u, p) ==
  IF Mounted(u, p) /\ ~Mounted(ui, page) /\ MayFill THEN Recalculated(u)
  ELSE ui' = u /\ UNCHANGED <<sec, summed>>

Recalculate ==
  /\ Mounted(ui, page)
  /\ sec.enabled
  /\ Change
  /\ Recalculated(ui)
  /\ UNCHANGED <<doc, settings, page, typed>>

(* Slip: the badges stay. *)
TypeAssetsKeepingBadge(f, n) ==
  /\ Mounted(ui, page)
  /\ sec.enabled
  /\ Change
  /\ sec' = [sec EXCEPT ![f] = n]
  /\ typed' = [typed EXCEPT ![f] = n]
  /\ UNCHANGED <<doc, settings, ui, page, summed>>

(* SET_SECURITY with a number of assets *)
TypeAssets(f, n) ==
  /\ Mounted(ui, page)
  /\ sec.enabled
  /\ Change
  /\ sec' = [sec EXCEPT ![f] = n]
  /\ ui' = [ui EXCEPT !.auto = @ \ {f}]
  /\ typed' = [typed EXCEPT ![f] = n]
  /\ UNCHANGED <<doc, settings, page, summed>>

(* SET_SECURITY with anything else *)
SetSecurity(s) ==
  /\ Mounted(ui, page)
  /\ s # sec
  /\ Change
  /\ sec' = s
  /\ UNCHANGED <<doc, settings, ui, page, typed, summed>>

Enable == SetSecurity([sec EXCEPT !.enabled = ~@])
SetSoc == sec.enabled /\ SetSecurity([sec EXCEPT !.soc = ~@])
TypeQueries(n) ==
  /\ sec.enabled
  /\ \/ SetSecurity([sec EXCEPT !.dossier = n])
     \/ SetSecurity([sec EXCEPT !.lookalikes = n])

-----------------------------------------------------------------------------
(* Modules and growth.                                                     *)

SetSettings(section, s) ==
  /\ page = "settings"
  /\ section \in ui.open
  /\ s # settings
  /\ Change
  /\ settings' = s
  /\ UNCHANGED <<doc, sec, page, typed, summed>>

IsShownOn(t) == t \in settings.on \/ t \in OnByDefault \ settings.off

(* SET_MODULE_TOGGLE; the rows of a module that is off are only dimmed *)
SetModuleToggle(t) ==
  /\ SetSettings("modules",
       IF IsShownOn(t) THEN [settings EXCEPT !.on = @ \ {t}, !.off = @ \cup {t}]
       ELSE [settings EXCEPT !.on = @ \cup {t}, !.off = @ \ {t}])
  /\ UNCHANGED ui

SetGrowthBuffer(n) == SetSettings("growth", [settings EXCEPT !.growth = n]) /\ UNCHANGED ui

(* SET_OVERHEAD, with Undefined by the reset button *)
SetOverhead(c, n) ==
  /\ ui.advanced
  /\ SetSettings("growth", [settings EXCEPT !.overhead[c] = n])
  /\ UNCHANGED ui

(* Slip: only what is shown is toggled. *)
ToggleAdvancedInUi ==
  /\ page = "settings"
  /\ "growth" \in ui.open
  /\ Change
  /\ ui' = [ui EXCEPT !.advanced = ~@]
  /\ UNCHANGED <<doc, settings, sec, page, typed, summed>>

(* TOGGLE_GROWTH_ADVANCED *)
ToggleAdvanced ==
  /\ SetSettings("growth", [settings EXCEPT !.advanced = ~ui.advanced])
  /\ ui' = [ui EXCEPT !.advanced = ~@]

-----------------------------------------------------------------------------
(* Pages.                                                                  *)

ToggleSection(k) ==
  LET u == [ui EXCEPT !.open = IF k \in @ THEN @ \ {k} ELSE @ \cup {k}]
  IN  /\ page = "settings"
      /\ FillIfNew(u, page)
      /\ UNCHANGED <<doc, settings, page, typed, edits>>

Turn(p) ==
  /\ p # page
  /\ FillIfNew(ui, p)
  /\ page' = p
  /\ UNCHANGED <<doc, settings, typed, edits>>

(* The other steps, or the import of a scan. *)
Work(d) ==
  /\ page = "elsewhere"
  /\ d # doc
  /\ Change
  /\ doc' = d
  /\ UNCHANGED <<settings, sec, ui, page, typed, summed>>

(* A cell of the table in the report, saved. *)
EditAddresses(s, n) ==
  /\ page = "report"
  /\ Change
  /\ doc' = [doc EXCEPT !.sites = (@ \ {s}) \cup {[s EXCEPT !.activeIPs = n]}]
  /\ UNCHANGED <<settings, sec, ui, page, typed, summed>>

(* RESET_STATE, and back to the choice of providers; the report is empty   *)
(* and has no button before there are sites.                               *)
ReportStartOver ==
  /\ page = "report"
  /\ doc.sites # {}
  /\ Change
  /\ doc' = NoDocument
  /\ settings' = NoSettings
  /\ sec' = NoSecurity
  /\ ui' = NoUi
  /\ page' = "elsewhere"
  /\ typed' = NoAssets
  /\ summed' = NoAssets

ReportNext ==
  \/ Recalculate \/ Enable \/ SetSoc \/ ToggleAdvanced \/ ReportStartOver
  \/ \E f \in AssetFields, n \in Counts : TypeAssets(f, n)
  \/ \E n \in Queries : TypeQueries(n)
  \/ \E t \in Switched : SetModuleToggle(t)
  \/ \E n \in Percents : SetGrowthBuffer(n)
  \/ \E c \in Tuned, n \in Percents \cup {Undefined} : SetOverhead(c, n)
  \/ \E k \in Folded : ToggleSection(k)
  \/ \E p \in {"settings", "report", "elsewhere"} : Turn(p)
  \/ \E d \in Documents : Work(d)
  \/ \E s \in doc.sites, n \in Counts : EditAddresses(s, n)

ReportSpec == ReportInit /\ [][ReportNext]_reportVars

-----------------------------------------------------------------------------
(* What is calculated from this.                                           *)

(* resolveOverheads *)
Overheads ==
  [c \in Categories |->
    IF settings.advanced THEN Or(settings.overhead[c], settings.growth) ELSE settings.growth]

(* What the growth section shows of a category: its own slider, or the one *)
(* for all.                                                                *)
ShownOverhead(c) ==
  IF ui.advanced THEN Or(settings.overhead[c], settings.growth) ELSE settings.growth

(* What the report says, below the bill, that the tokens of a category     *)
(* include: growthBufferPct and serverGrowthBufferPct of sizer-derive.ts,  *)
(* which are the slider for all.                                           *)
Billed == {"mgmt", "server", "reporting"}
CaptionedOverhead(c) == settings.growth

(* reportingTogglesFromState, and twice more in the exports *)
ReportingToggles == settings.on \cap {"csp", "s3", "cdc", "dns", "dhcp"}

Totals ==
  [management |-> ManagementTokens(doc.sites, Overheads["mgmt"]),
   server     |-> ServerTokens(doc.niosx, doc.xaas, Overheads["server"]),
   reporting  |-> ReportingTokens(doc.sites, Overheads["reporting"], ReportingToggles),
   security   |-> SecurityTokens(sec, Overheads["security"])]

(* What the workbook adds to the totals: a row per region, per site and    *)
(* per member.  The numbers of assets per region leave multipliers out.    *)
SummarySheet ==
  [r \in RegionsOf(doc.sites) |->
    LET sites == InRegion(doc.sites, r)
    IN  [management |-> ManagementTokens(sites, Overheads["mgmt"]),
         reporting  |-> ReportingTokens(sites, Overheads["reporting"], ReportingToggles)]]

SiteSheet == [s \in doc.sites |-> SourceTokens(s, Overheads["mgmt"])]

PlanSheet ==
  {<<UniqueName(n, doc.niosx), ServerTiers[TierNamed(ServerTiers, n.tier)].tokens>> : n \in doc.niosx}

(* The bars "By Source" of the report *)
Sources ==
  [s \in {n \in doc.sites : SourceTokens(n, Overheads["mgmt"]) > 0} |->
    SourceTokens(s, Overheads["mgmt"])]

(* The preview of the security section has formulas of its own. *)
Preview ==
  IF ~sec.enabled THEN [td |-> 0, dossier |-> 0, lookalikes |-> 0]
  ELSE LET o      == Overheads["security"]
           assets == (sec.verified + sec.unverified) * 3
           units  == CeilDiv(sec.dossier, 25)
       IN  [td |-> IF sec.soc
                   THEN CeilDouble(assets * 135 * (100 + o), 10000, <<assets, 135, o>>)
                   ELSE CeilDouble(assets * (100 + o), 100, <<assets, o>>),
            dossier |-> CeilDouble(units * 450 * (100 + o), 100, <<units, 450, o>>),
            lookalikes |-> RoundDiv(CeilDiv(sec.lookalikes, 25) * 1200 * (100 + o), 100)]

-----------------------------------------------------------------------------

(* A number of assets is what the badge beside it says: the sum over the   *)
(* sites when they were last summed, or else the number the user typed     *)
(* last.                                                                   *)
AssetsFromTheirSource ==
  \A f \in AssetFields : sec[f] = IF f \in ui.auto THEN summed[f] ELSE typed[f]

(* The percentage that the growth section shows for a category is the one  *)
(* the totals are calculated with; so is the one below the bill, unless    *)
(* the category has an overhead of its own in the advanced mode.  A        *)
(* destination or log the user has set counts just if it is shown as       *)
(* turned on.                                                              *)
SettingsAsShown ==
  /\ \A c \in Categories : ShownOverhead(c) = Overheads[c]
  /\ \A c \in Billed : ~(ui.advanced /\ settings.overhead[c] # Undefined) =>
       CaptionedOverhead(c) = Overheads[c]
  /\ \A t \in {"csp", "s3", "cdc", "dns", "dhcp"} \cap (settings.on \cup settings.off) :
       IsShownOn(t) <=> t \in ReportingToggles

(* In the report no total is more than its parts, but for one token of     *)
(* rounding in each product: management by site and by region, the share   *)
(* of a site by its members, reporting by region, and the table of regions *)
(* by row.  What is calculated in two places comes out the same: the       *)
(* preview of the security section, the bill that is copied, and the plan, *)
(* which names its members apart unless the user typed a name that looks   *)
(* like the ones made for duplicates.                                      *)
PartsCoverTotals ==
  LET total == Totals
      o     == Overheads["mgmt"]
      summary       == SummarySheet
      source(s)     == Sources[s]
      byRegion(r)   == summary[r].management
      logsOf(r)     == summary[r].reporting
      row(r)        == RowTokens(InRegion(doc.sites, r))
      share(n)      == MemberTokens(n, doc.niosx, doc.sites, o)
      membersOf(s)  == {n \in doc.niosx : n.site = s.id}
      tokens(line)  == line[2]
  IN  /\ page = "report" =>
           /\ total.management <= SumOver(DOMAIN Sources, source) + 1
           /\ total.management <= SumOver(DOMAIN summary, byRegion) + 1
           /\ total.reporting <= SumOver(DOMAIN summary, logsOf) + Cardinality(DOMAIN Rates)
           /\ RowTokens(doc.sites) <= SumOver(DOMAIN summary, row)
           /\ \A s \in doc.sites :
                membersOf(s) # {} => SumOver(membersOf(s), share) >= SiteSheet[s]
           /\ CopiedBill(total) = ShownBill(total)
           /\ (\A n \in doc.niosx : Len(n.name) = 1) =>
                SumOver(PlanSheet, tokens) = ServerTokens(doc.niosx, {}, 0)
      /\ Mounted(ui, page) =>
           Preview.td + Preview.dossier + Preview.lookalikes
             = SecurityTokens(sec, Overheads["security"])
=============================================================================
