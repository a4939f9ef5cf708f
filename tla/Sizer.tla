------------------------------- MODULE Sizer --------------------------------
(***************************************************************************)
(* The sizer as its user drives it: the four steps, the report, the scan   *)
(* results whose import fills it, and what React does after each dispatch  *)
(* (sizer-state.ts, the sizer-step-*.tsx files, wizard.tsx).               *)
(*                                                                         *)
(* One provider holds the live document for as long as the page is open    *)
(* and writes it to sessionStorage 300 ms after the last change; the       *)
(* import is the only other writer.  The form of step 2 derives the fields *)
(* of the site it shows 150 ms after its users change; the rows of step 3  *)
(* choose a tier while they are mounted.  The two timers fire at any time. *)
(***************************************************************************)
EXTENDS SizerImport, SizerValidate

CONSTANTS
  Scans,       \* the scans that can be imported
  UserCounts,  \* numbers of users the user types
  Edits,       \* pairs of a field and a value typed into it
  Typed,       \* keys of regions and names of sites the user types
  Tiers,       \* tiers the user picks
  Selectable,  \* the kinds of node the user selects in the tree
  MaxClones,   \* clones made at a time, 50 in the code
  Hasty,       \* BOOLEAN: the user makes further changes before the copy is written
  MaxChanges,  \* changes to the contents, in all
  Most         \* the largest id of each kind of node

ASSUME ScansAssumption == \A scan \in Scans : IsScan(scan)
ASSUME NamesAssumption == \A scan \in Scans : NamedByKey(scan)
ASSUME ClonesAssumption == MaxClones \in Nat

VARIABLES
  live,    \* the state of the provider
  stored,  \* the copy in sessionStorage, Nothing when there is none
  saving,  \* the 300 ms timer is set
  view,    \* "sizer", "report", or "elsewhere": the wizard shows something else
  pane,    \* the region whose sites step 2 lists, 0 when it is not mounted
  due,     \* the 150 ms timer of the form is set
  changes  \* the changes to the contents so far: a bound, not in the code

vars == <<live, stored, saving, view, pane, due, changes>>

Nothing == <<>>

(* loadPersisted() ?? initialSizerState() *)
Loaded(copy) == IF copy = Nothing THEN Empty ELSE copy

-----------------------------------------------------------------------------
(* What is shown of a document.                                            *)

OnStep(s, v, step) == v = "sizer" /\ s.step = step

(* Step 2 begins with the first region. *)
PaneOf(s, v, p) ==
  IF ~OnStep(s, v, 2) \/ s.regions = {} THEN 0
  ELSE IF p \in Ids(s.regions) THEN p ELSE First(Ids(s.regions))

(* The site of the form: the selected one, when it is in the pane. *)
Shown(s, p) ==
  {n \in SitesOfRegion(s, p) : s.selected = <<"site", n.id>>}

ModeOf(s, n) ==
  IF n.id \in DOMAIN s.mode THEN s.mode[n.id]
  ELSE IF n.users # Undefined THEN "users" ELSE "manual"

(* The overridden values the derivation is given. *)
Given(s, n) ==
  [f \in OverridableFields |->
    IF f \in Fields /\ <<n.id, f>> \in s.overrides THEN n.field[f] ELSE Undefined]

(* What the effect of the form depends on: it is set up again, and its     *)
(* timer with it, when this changes.                                       *)
Deps(s, p) ==
  {[id |-> n.id, users |-> IF ModeOf(s, n) = "users" THEN n.users ELSE Undefined,
    given |-> Given(s, n)] : n \in Shown(s, p)}

Stored(n, f) == IF f \in Fields THEN n.field[f] ELSE Undefined

(* The load of a site: stored fields, else what its users imply; none for  *)
(* a site that is gone.                                                    *)
SiteLoad(s, site) ==
  IF site \notin Ids(s.sites) THEN [qps |-> 0, lps |-> 0, objects |-> 0]
  ELSE LET n == SiteOf(s, site)
           implied == IF n.users > 0 THEN DeriveFromUsers(n.users, NoneGiven)
                      ELSE [f \in DerivedFields |-> 0]
           load(f) == Or(Stored(n, f), implied[f])
       IN  [qps |-> load("qps"), lps |-> load("lps"),
            objects |-> load("networksPerSite") + load("dnsZones") + load("dhcpScopes")]

Recommended(s, site) == ServerTiers[PickServerTier(SiteLoad(s, site))].name

-----------------------------------------------------------------------------
(* What mounted components dispatch by themselves.                         *)

(* Step 2 selects the first site of a region it turns to, in tree order,   *)
(* when no site of it is selected.                                         *)
AutoSelect(s, p) ==
  LET sites   == SitesOfRegion(s, p)
      country(n) == (CHOOSE c \in s.cities : c.id = n.of).of
      before(n, m) == \/ country(n) < country(m)
                      \/ country(n) = country(m) /\ n.of < m.of
                      \/ n.of = m.of /\ n.id <= m.id
      first   == CHOOSE n \in sites : \A m \in sites : before(n, m)
  IN  IF p \in {0, pane} \/ sites = {} \/ Shown(s, p) # {} THEN s
      ELSE Select(s, <<"site", first.id>>)

(* The rows of step 3 take the recommended tier unless the user chose one. *)
AutoTier(s, v) ==
  IF ~OnStep(s, v, 3) THEN s
  ELSE [s EXCEPT !.niosx =
         {IF n.manual \/ n.site = 0 THEN n ELSE [n EXCEPT !.tier = Recommended(s, n.site)] : n \in @}]

(* All but what is selected and shown. *)
Contents(s) == [s EXCEPT !.selected = <<>>, !.step = 1]

(* Every id is within the bounds. *)
Bounded(s) ==
  /\ \A i \in Ids(s.regions) : i <= Most.region
  /\ \A i \in Ids(s.countries) : i <= Most.country
  /\ \A i \in Ids(s.cities) : i <= Most.city
  /\ \A i \in Ids(s.sites) : i <= Most.site
  /\ \A i \in Ids(s.niosx) \cup Ids(s.xaas) : i <= Most.box

(* The document becomes s and the view v, with pane p if step 2 is shown;  *)
(* then effects run, and timers are set for what changed.  pending says    *)
(* whether the timer of the form is set so far.                            *)
Commit(s, v, p, pending) ==
  /\ view' = v
  /\ pane' = PaneOf(s, v, p)
  /\ live' = AutoTier(AutoSelect(s, pane'), v)
  /\ Bounded(live')
  /\ saving' = (saving \/ live' # live)
  /\ changes' = IF Contents(live') = Contents(live) THEN changes ELSE changes + 1
  /\ changes' <= MaxChanges
  /\ due' = IF Deps(live', pane') = Deps(live, pane) THEN pending
            ELSE \E d \in Deps(live', pane') : d.users > 0

(* Dispatch without a change of view. *)
Dispatch(s) == (saving => Hasty) /\ Commit(s, view, pane, due) /\ UNCHANGED stored

Init ==
  /\ live = Empty
  /\ stored = Nothing
  /\ saving = TRUE
  /\ view = "elsewhere"
  /\ pane = 0
  /\ due = FALSE
  /\ changes = 0

(* The ids of each kind that a document has: of nodes that are there and   *)
(* of nodes that are still referred to.                                    *)
RegionIds(s) == Ids(s.regions) \cup {x.region : x \in s.xaas}
SiteIds(s) ==
  Ids(s.sites) \cup {m.site : m \in s.niosx} \cup {o[1] : o \in s.overrides} \cup DOMAIN s.mode
    \cup UNION {x.sites : x \in s.xaas}
BoxIds(s) == Ids(s.niosx) \cup Ids(s.xaas)

(* Ids behind the last one in use in the live document or the stored one.  *)
Top(ids) == IF ids = {} THEN 0 ELSE Last(ids)
Free ==
  LET s == live
      t == Loaded(stored)
  IN  [region  |-> Top(RegionIds(s) \cup RegionIds(t)),
       country |-> Top(Ids(s.countries) \cup Ids(t.countries)),
       city    |-> Top(Ids(s.cities) \cup Ids(t.cities)),
       site    |-> Top(SiteIds(s) \cup SiteIds(t)),
       box     |-> Top(BoxIds(s) \cup BoxIds(t))]

-----------------------------------------------------------------------------
(* Step 1: the tree of regions, countries, cities and sites.               *)

NewRegion == OnStep(live, view, 1) /\ Dispatch(AddRegion(live, Free.region + 1))

EditRegion(r, key) ==
  /\ OnStep(live, view, 1)
  /\ live.selected = <<"region", r.id>>
  /\ Dispatch(UpdateRegion(live, r.id, [key |-> key]))

NewCountry(r) ==
  OnStep(live, view, 1) /\ Dispatch(AddCountry(live, r.id, Free.country + 1))

NewCity(c) ==
  OnStep(live, view, 1) /\ Dispatch(AddCity(live, c.id, Free.city + 1))

NewSiteInCity(c) ==
  OnStep(live, view, 1) /\ Dispatch(AddSiteToCity(live, c.id, Free.site + 1))

NewSiteInRegion(r) ==
  /\ OnStep(live, view, 1)
  /\ Dispatch(AddSiteToRegion(live, r.id, Free.country + 1, Free.city + 1, Free.site + 1))

SelectNode(kind, id) ==
  OnStep(live, view, 1) /\ Dispatch(Select(live, <<kind, id>>))

(* The confirmed deletion of a node also clears the selection. *)
Deleted(kind, id) ==
  CASE kind = "region"  -> DeleteRegion(live, id)
    [] kind = "country" -> DeleteCountry(live, id)
    [] kind = "city"    -> DeleteCity(live, id)
    [] kind = "site"    -> DeleteSite(live, id)

DeleteNode(kind, id) ==
  OnStep(live, view, 1) /\ Dispatch(Select(Deleted(kind, id), <<>>))

Nodes ==
  [region |-> live.regions, country |-> live.countries, city |-> live.cities, site |-> live.sites]

StepRegions ==
  \/ NewRegion
  \/ \E r \in live.regions : NewCountry(r) \/ NewSiteInRegion(r) \/ \E k \in Typed : EditRegion(r, k)
  \/ \E c \in live.countries : NewCity(c)
  \/ \E c \in live.cities : NewSiteInCity(c)
  \/ \E kind \in Selectable : \E n \in Nodes[kind] : SelectNode(kind, n.id)
  \/ \E kind \in DOMAIN Nodes : \E n \in Nodes[kind] : DeleteNode(kind, n.id)

-----------------------------------------------------------------------------
(* Step 2: the form of one site.                                           *)

PickPane(r) ==
  OnStep(live, view, 2) /\ Commit(live, view, r.id, due) /\ UNCHANGED stored

PickSite(n) ==
  /\ OnStep(live, view, 2)
  /\ n \in SitesOfRegion(live, pane)
  /\ Dispatch(Select(live, <<"site", n.id>>))

InForm(n) == OnStep(live, view, 2) /\ n \in Shown(live, pane)

Rename(n, name) == InForm(n) /\ Dispatch(UpdateSite(live, n.id, [name |-> name]))

EditUsers(n, users) ==
  /\ InForm(n)
  /\ ModeOf(live, n) = "users"
  /\ Dispatch(UpdateSite(live, n.id, [users |-> users]))

WithField(n, f, v) == [field |-> [n.field EXCEPT ![f] = v]]

(* Typing into a field marks it as overridden, if it can be. *)
EditField(n, f, v) ==
  /\ InForm(n)
  /\ Dispatch(UpdateSite(IF f \in OverridableFields THEN MarkOverride(live, n.id, f) ELSE live,
                         n.id, WithField(n, f, v)))

ChooseMode(n, mode) == InForm(n) /\ Dispatch(SetMode(live, n.id, mode))

Clone(n, count) ==
  InForm(n) /\ Dispatch(CloneSite(live, n.id, Free.site + 1 .. Free.site + count))

(* The timer of the form: what the users imply, with the overridden values *)
(* of when it was set, which are those of now.                             *)
DeriveFires ==
  /\ due /\ (saving => Hasty)
  /\ \E d \in Deps(live, pane) :
       Commit(SiteDerive(live, d.id, DeriveFromUsers(d.users, d.given)), view, pane, FALSE)
  /\ UNCHANGED stored

StepSites ==
  \/ \E r \in live.regions : PickPane(r)
  \/ \E n \in live.sites :
       \/ PickSite(n)
       \/ \E name \in Typed : Rename(n, name)
       \/ \E u \in UserCounts \cup {Undefined} : EditUsers(n, u)
       \/ \E e \in Edits : EditField(n, e[1], e[2])
       \/ \E mode \in {"users", "manual"} : ChooseMode(n, mode)
       \/ \E count \in 1 .. MaxClones : Clone(n, count)
  \/ DeriveFires

-----------------------------------------------------------------------------
(* Step 3: members and service points.                                     *)

OnInfra == OnStep(live, view, 3)

NewNiosx == OnInfra /\ Dispatch(AddNiosx(live, Free.box + 1))

(* A site, or 0 for none. *)
AssignNiosx(m, site) == OnInfra /\ Dispatch(UpdateNiosx(live, m.id, [site |-> site]))

PickTier(m, tier) ==
  OnInfra /\ Dispatch(UpdateNiosx(live, m.id, [tier |-> tier, manual |-> TRUE]))

AcceptRecommendation(m) ==
  /\ OnInfra
  /\ m.manual /\ m.site # 0 /\ m.tier # Recommended(live, m.site)
  /\ Dispatch(UpdateNiosx(live, m.id, [tier |-> Recommended(live, m.site), manual |-> FALSE]))

RemoveNiosx(m) == OnInfra /\ Dispatch(DeleteNiosx(live, m.id))

NewXaas(r) == OnInfra /\ Dispatch(AddXaas(live, r.id, Free.box + 1))

(* Picks a site of the list, or takes it away. *)
ToggleSite(x, site) ==
  /\ OnInfra
  /\ Dispatch(UpdateXaas(live, x.id,
       [sites |-> IF site \in x.sites THEN x.sites \ {site} ELSE x.sites \cup {site}]))

RemoveXaas(x) == OnInfra /\ Dispatch(DeleteXaas(live, x.id))

StepInfra ==
  \/ NewNiosx
  \/ \E m \in live.niosx :
       \/ \E site \in Ids(live.sites) \cup {0} : AssignNiosx(m, site)
       \/ \E tier \in Tiers : PickTier(m, tier)
       \/ AcceptRecommendation(m)
       \/ RemoveNiosx(m)
  \/ \E r \in live.regions : NewXaas(r)
  \* The service point is shown under its region.
  \/ \E x \in {y \in live.xaas : y.region \in Ids(live.regions)} :
       \/ \E site \in Ids(live.sites) : ToggleSite(x, site)
       \/ RemoveXaas(x)

-----------------------------------------------------------------------------
(* Steps, report and the rest of the wizard.                               *)

(* The stepper, or Back and Next of the footer. *)
GoToStep(step) ==
  view = "sizer" /\ step # live.step /\ Dispatch(SetStep(live, step))

(* Go to in the banner selects the path of the issue, which names no node: *)
(* nothing is shown as selected.                                           *)
GoToIssue(issue) ==
  /\ view = "sizer"
  /\ ~IsSuppressed(issue, live.step)
  /\ issue.code # "STATE_EMPTY"
  /\ Dispatch(Select(SetStep(live, StepFor(issue)), <<>>))

(* Next on the last step: the report. *)
ViewReport == OnStep(live, view, 4) /\ Commit(live, "report", 0, due) /\ UNCHANGED stored

(* Back on the first step. *)
Retreat == OnStep(live, view, 1) /\ Commit(live, "elsewhere", 0, due) /\ UNCHANGED stored

(* The user chooses the sizer among the providers. *)
Enter == view = "elsewhere" /\ Commit(live, "sizer", 0, due) /\ UNCHANGED stored

(* A number typed into the table of the report; nothing is marked. *)
EditInReport(n, f, v) ==
  /\ view = "report"
  /\ Dispatch(UpdateSite(live, n.id, WithField(n, f, v)))

EditUsersInReport(n, users) ==
  view = "report" /\ Dispatch(UpdateSite(live, n.id, [users |-> users]))

(* Slip: only the copy goes. *)
StartOverStoredOnly ==
  /\ view = "report" /\ live.regions # {}
  /\ stored' = Nothing
  /\ Commit(live, "elsewhere", 0, due)

(* Start over: the copy goes, the document is the initial one, and the     *)
(* wizard restarts.                                                        *)
StartOver ==
  /\ view = "report" /\ live.regions # {}
  /\ stored' = Nothing
  /\ Commit(SetStep(Empty, 1), "elsewhere", 0, due)

(* The import of a scan: merged with the copy, whose result is written at  *)
(* once and decides the step to land on; then with the live document.      *)
Incoming(scan) == ImportFromScan(scan, Free)
Containers(scan) ==
  LET n == Len(scan.groups) + Len(scan.members)
  IN  [country |-> Free.country + n, city |-> Free.city + n]

LandingStep(s) == IF s.regions # {} THEN 2 ELSE IF s.niosx # {} THEN 3 ELSE 1

Import(scan) ==
  LET merged  == Merge(Loaded(stored), Incoming(scan), Containers(scan))
      landing == LandingStep(merged)
  IN  /\ view = "elsewhere"
      /\ Bounded(merged)
      /\ stored' = SetStep(merged, landing)
      /\ Commit(SetStep(Merge(live, Incoming(scan), Containers(scan)), landing), "sizer", 0, due)

Elsewhere ==
  \/ \E step \in 1 .. 4 : GoToStep(step)
  \/ \E issue \in Validate(live) : GoToIssue(issue)
  \/ ViewReport \/ Retreat \/ Enter \/ StartOver
  \/ \E n \in live.sites :
       \/ \E e \in Edits : EditInReport(n, e[1], e[2])
       \/ \E u \in UserCounts : EditUsersInReport(n, u)
  \/ \E scan \in Scans : Import(scan)

-----------------------------------------------------------------------------
(* Storage.                                                                *)

SaveFires ==
  /\ saving
  /\ stored' = live
  /\ saving' = FALSE
  /\ UNCHANGED <<live, view, pane, due, changes>>

(* A new page: the provider starts with the copy and the wizard anew. *)
Restarted(copy) ==
  /\ live' = Loaded(copy)
  /\ saving' = TRUE
  /\ view' = "elsewhere"
  /\ pane' = 0
  /\ due' = FALSE
  /\ UNCHANGED changes

(* The page is left or reloaded: pagehide writes the document first. *)
Reload == stored' = live /\ Restarted(live)

(* The tab is killed without pagehide. *)
Crash == Restarted(stored) /\ UNCHANGED stored

Next ==
  \/ StepRegions \/ StepSites \/ StepInfra \/ Elsewhere
  \/ SaveFires \/ Reload \/ Crash

Spec == Init /\ [][Next]_vars

-----------------------------------------------------------------------------
(* Properties.                                                             *)

(* What a new page would start with is the live document, or a write is    *)
(* under way: an import and Start over reach both, an edit waits for the   *)
(* timer.                                                                  *)
UnsavedPending == Loaded(stored) # live => saving

(* Nodes, members and service points stay as they are, with modes and      *)
(* overrides; only tiers the user did not choose may change, when the      *)
(* import lands on step 3.                                                 *)
DocumentKept ==
  /\ live.regions \subseteq live'.regions
  /\ live.countries \subseteq live'.countries
  /\ live.cities \subseteq live'.cities
  /\ live.sites \subseteq live'.sites
  /\ \A m \in live.niosx : \E k \in live'.niosx : k.id = m.id /\ (m.manual => k = m)
  /\ live'.xaas = live.xaas
  /\ live'.mode = live.mode /\ live'.overrides = live.overrides

(* An import made again, with new ids, adds nothing: what it would add is  *)
(* found by its key and name, whatever was typed, deleted or imported      *)
(* before.                                                                 *)
AddsOnce(scan) ==
  LET once  == Merge(live, Incoming(scan), Containers(scan))
      later == [k \in DOMAIN Free |-> Free[k] + 100]
  IN  Merge(once, ImportFromScan(scan, later), later) = once

(* Entering the sizer, with an import or without, keeps the document, and  *)
(* any import would add the same once as twice.                            *)
ImportKeeps ==
  [][view = "elsewhere" /\ view' = "sizer" =>
       DocumentKept /\ \A scan \in Scans : AddsOnce(scan)]_vars

(* A site id is in one city; an import breaks it when two regions have the *)
(* same type and name.                                                     *)
OnePlace(s) == \A m, n \in s.sites : m.id = n.id => m = n

(* When no timer of the form is set, the site it shows has the values its  *)
(* users imply, but for the fields the user set: no edit, change of mode,  *)
(* selection or clone leaves stale numbers in the form.  While step 3 is   *)
(* shown, a tier the user did not choose is the one that the load of the   *)
(* assigned site asks for.                                                 *)
DerivedCurrent ==
  /\ OnePlace(live) /\ ~due =>
       \A n \in Shown(live, pane) :
         ModeOf(live, n) = "users" /\ n.users > 0 =>
           \A f \in Fields \cap OverridableFields :
             \/ <<n.id, f>> \in live.overrides
             \/ n.field[f] = DeriveFromUsers(n.users, Given(live, n))[f]
  /\ OnStep(live, view, 3) =>
       \A m \in live.niosx : ~m.manual /\ m.site \in Ids(live.sites) =>
         LET i == CHOOSE j \in DOMAIN ServerTiers : ServerTiers[j].name = m.tier
         IN  /\ i = Len(ServerTiers) \/ Covers(ServerTiers[i], SiteLoad(live, m.site))
             /\ i = 1 \/ ~Covers(ServerTiers[i - 1], SiteLoad(live, m.site))
=============================================================================
