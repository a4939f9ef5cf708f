----------------------------- MODULE SizerTree ------------------------------
(***************************************************************************)
(* The document of the sizer and what its reducer does to it               *)
(* (sizer-state.ts), with the import of a scan (sizer-import.ts) and the   *)
(* validator (sizer-validate.ts).  Everything here is a function of a      *)
(* document; Sizer.tla says who applies it and when.                       *)
(*                                                                         *)
(* The nested arrays of the code are sets of nodes that name the node they *)
(* are in; an id is a number and a later node of an array has a larger     *)
(* one, so the first node of a list is the one with the smallest id.  Ids  *)
(* are random in the code: the caller passes ids that are not in use.      *)
(*                                                                         *)
(* Names matter where the import compares them: a region has a key, its    *)
(* type and name in lower case, and a site or member a name in lower case; *)
(* Own stands for every one no scan produces.  Multipliers, connections,   *)
(* security and settings do not take part in what is modelled here.        *)
(***************************************************************************)
EXTENDS SizerCalc

CONSTANTS Fields,  \* the derived fields a site stores in this model
          Own      \* a key or name that no scan has

ASSUME FieldsAssumption == Fields \subseteq DerivedFields

NoField == [f \in Fields |-> Undefined]

(* SizerFullState: overrides holds the pairs of siteOverrides that are     *)
(* set, mode the entries of siteMode.                                      *)
Empty ==
  [regions |-> {}, countries |-> {}, cities |-> {}, sites |-> {},
   niosx |-> {}, xaas |-> {}, overrides |-> {}, mode |-> <<>>,
   selected |-> <<>>, step |-> 1]

Ids(nodes) == {n.id : n \in nodes}
Within(nodes, parents) == {n \in nodes : n.of \in parents}
First(ids) == CHOOSE i \in ids : \A j \in ids : i <= j
Last(ids) == CHOOSE i \in ids : \A j \in ids : j <= i

(* { ...node, ...patch }, and the same for the nodes with this id *)
With(node, patch) ==
  [f \in DOMAIN node \cup DOMAIN patch |-> IF f \in DOMAIN patch THEN patch[f] ELSE node[f]]
Patched(nodes, id, patch) == {IF n.id = id THEN With(n, patch) ELSE n : n \in nodes}

CitiesOfRegion(s, region) == Ids(Within(s.cities, Ids(Within(s.countries, {region}))))
SitesOfRegion(s, region) == Within(s.sites, CitiesOfRegion(s, region))

(* The city of the site the code finds first: the id can be in several     *)
(* regions after an import.                                                *)
PlaceOf(s, site) ==
  LET holders == {r \in Ids(s.regions) : site \in Ids(SitesOfRegion(s, r))}
  IN  First({n.of : n \in {m \in SitesOfRegion(s, First(holders)) : m.id = site}})

SiteOf(s, site) == CHOOSE n \in s.sites : n.id = site /\ n.of = PlaceOf(s, site)

-----------------------------------------------------------------------------
(* The cases of the reducer.                                               *)

AddRegion(s, id) ==
  [s EXCEPT !.regions = @ \cup {[id |-> id, key |-> Own]}, !.selected = <<"region", id>>]

UpdateRegion(s, id, patch) == [s EXCEPT !.regions = Patched(@, id, patch)]

(* A node goes with what is in it; members, service points, modes and      *)
(* overrides that name a site of it stay.                                  *)
WithoutLost(s) ==
  LET countries == Within(s.countries, Ids(s.regions))
      cities    == Within(s.cities, Ids(countries))
  IN  [s EXCEPT !.countries = countries, !.cities = cities,
                !.sites = Within(@, Ids(cities))]

DeleteRegion(s, id) == WithoutLost([s EXCEPT !.regions = {r \in @ : r.id # id}])
DeleteCountry(s, id) == WithoutLost([s EXCEPT !.countries = {c \in @ : c.id # id}])
DeleteCity(s, id) == WithoutLost([s EXCEPT !.cities = {c \in @ : c.id # id}])
DeleteSite(s, id) == [s EXCEPT !.sites = {n \in @ : n.id # id}]

AddCountry(s, region, id) == [s EXCEPT !.countries = @ \cup {[id |-> id, of |-> region]}]
AddCity(s, country, id) == [s EXCEPT !.cities = @ \cup {[id |-> id, of |-> country]}]

(* Puts the nodes in the first city of the first country of the region;    *)
(* the ids are for a country and a city that are not there.                *)
UnderFirstCity(s, region, nodes, country, city) ==
  LET own    == Ids(Within(s.countries, {region}))
      into   == IF own = {} THEN country ELSE First(own)
      places == Ids(Within(s.cities, {into}))
      place  == IF places = {} THEN city ELSE First(places)
  IN  [s EXCEPT
        !.countries = IF own = {} THEN @ \cup {[id |-> country, of |-> region]} ELSE @,
        !.cities    = IF places = {} THEN @ \cup {[id |-> city, of |-> into]} ELSE @,
        !.sites     = @ \cup {With(n, [of |-> place]) : n \in nodes}]

DefaultUsers == 500

NewSite(id) == [id |-> id, name |-> Own, users |-> DefaultUsers, field |-> NoField]

AddSiteToCity(s, city, id) == [s EXCEPT !.sites = @ \cup {With(NewSite(id), [of |-> city])}]
AddSiteToRegion(s, region, country, city, id) ==
  UnderFirstCity(s, region, {NewSite(id)}, country, city)

UpdateSite(s, id, patch) ==
  IF id \notin Ids(s.sites) THEN s
  ELSE LET n == SiteOf(s, id) IN [s EXCEPT !.sites = (@ \ {n}) \cup {With(n, patch)}]

(* Clones go to the same city, with copies of the overrides. *)
CloneSite(s, id, clones) ==
  IF id \notin Ids(s.sites) THEN s
  ELSE [s EXCEPT
         !.sites = @ \cup {With(SiteOf(s, id), [id |-> c, name |-> Own]) : c \in clones},
         !.overrides = @ \cup {<<c, f>> : c \in clones, f \in {o[2] : o \in {p \in @ : p[1] = id}}}]

(* Slip: a field is derived once. *)
SiteDeriveOnce(s, id, derived) ==
  UpdateSite(s, id,
    [field |-> [f \in Fields |-> IF SiteOf(s, id).field[f] # Undefined
                                 THEN SiteOf(s, id).field[f] ELSE derived[f]]])

(* Derived values go to the fields that are not overridden. *)
SiteDerive(s, id, derived) ==
  IF id \notin Ids(s.sites) THEN s
  ELSE UpdateSite(s, id,
         [field |-> [f \in Fields |-> IF <<id, f>> \in s.overrides
                                      THEN SiteOf(s, id).field[f] ELSE derived[f]]])

SetMode(s, id, mode) == [s EXCEPT !.mode = With(@, [n \in {id} |-> mode])]
MarkOverride(s, id, f) == [s EXCEPT !.overrides = @ \cup {<<id, f>>}]

AddNiosx(s, id) ==
  [s EXCEPT !.niosx = @ \cup {[id |-> id, name |-> Own, site |-> 0, tier |-> "M", manual |-> FALSE]}]
UpdateNiosx(s, id, patch) == [s EXCEPT !.niosx = Patched(@, id, patch)]
DeleteNiosx(s, id) == [s EXCEPT !.niosx = {n \in @ : n.id # id}]

AddXaas(s, region, id) == [s EXCEPT !.xaas = @ \cup {[id |-> id, region |-> region, sites |-> {}]}]
UpdateXaas(s, id, patch) == [s EXCEPT !.xaas = Patched(@, id, patch)]
DeleteXaas(s, id) == [s EXCEPT !.xaas = {x \in @ : x.id # id}]

SetStep(s, step) == [s EXCEPT !.step = step]
Select(s, path) == [s EXCEPT !.selected = path]
=============================================================================
