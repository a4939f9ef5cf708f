---------------------------- MODULE SizerImport -----------------------------
(***************************************************************************)
(* A scan turned into a sizer document and merged into the one there is    *)
(* (sizer-import.ts).                                                      *)
(*                                                                         *)
(* A scan is what the importers group the findings into: for each cloud    *)
(* account and region, and for the AD domain, a group that becomes a       *)
(* region with one site; and the members of a NIOS grid, each with the     *)
(* country and city its host name is taken for.  Keys and names are those  *)
(* the importers form: accounts whose shortened names agree have one key.  *)
(***************************************************************************)
EXTENDS SizerTree

CONSTANT GridKey  \* the key of the "Imported NIOS Grid" region

(* What importers make of findings: a sequence of groups, and of members.  *)
IsScan(scan) ==
  /\ {Len(scan.groups), Len(scan.members)} \subseteq Nat
  /\ scan.groups = [i \in 1 .. Len(scan.groups) |-> scan.groups[i]]
  /\ scan.members = [i \in 1 .. Len(scan.members) |-> scan.members[i]]

(* A region and its site are named after the same account and cloud        *)
(* region, so regions with one key have one name for their sites.          *)
NamedByKey(scan) ==
  \A i, j \in DOMAIN scan.groups :
    scan.groups[i].key = scan.groups[j].key => scan.groups[i].site.name = scan.groups[j].site.name

(* The site of a cloud account has addresses, that of a domain users, that *)
(* of a member addresses, queries and leases.                              *)
ImportedSite(id, site) ==
  [id |-> id, name |-> site.name, users |-> site.users,
   field |-> [f \in Fields |-> IF f \in DOMAIN site THEN site[f] ELSE Undefined]]

(* Each group becomes a region with an (Unassigned) country and city. *)
ImportGroups(scan, free) ==
  LET group == DOMAIN scan.groups
  IN  [regions   |-> {[id |-> free.region + i, key |-> scan.groups[i].key] : i \in group},
       countries |-> {[id |-> free.country + i, of |-> free.region + i] : i \in group},
       cities    |-> {[id |-> free.city + i, of |-> free.country + i] : i \in group},
       sites     |-> {With(ImportedSite(free.site + i, scan.groups[i].site), [of |-> free.city + i])
                        : i \in group}]

ImportMembers(scan, free) ==
  {[id |-> free.box + i, name |-> scan.members[i].name, site |-> 0, tier |-> "M",
    manual |-> FALSE] : i \in DOMAIN scan.members}

(* A grid without cloud or AD findings becomes one region, with a site for *)
(* each member under the country and city of its host name.                *)
ImportGrid(scan, free) ==
  LET member     == DOMAIN scan.members
      country(i) == First({j \in member : scan.members[j].country = scan.members[i].country})
      city(i)    == First({j \in member : /\ scan.members[j].country = scan.members[i].country
                                          /\ scan.members[j].city = scan.members[i].city})
  IN  [regions   |-> {[id |-> free.region + 1, key |-> GridKey]},
       countries |-> {[id |-> free.country + country(i), of |-> free.region + 1] : i \in member},
       cities    |-> {[id |-> free.city + city(i), of |-> free.country + country(i)] : i \in member},
       sites     |-> {With(ImportedSite(free.site + i, scan.members[i]), [of |-> free.city + city(i)])
                        : i \in member}]

(* Members are linked to a site only when the sites were made from them. *)
ImportFromScan(scan, free) ==
  LET members == ImportMembers(scan, free)
      linked  == {[m EXCEPT !.site = free.site + (m.id - free.box)] : m \in members}
  IN  IF scan.groups = <<>> /\ scan.members # <<>>
      THEN With(ImportGrid(scan, free), [niosx |-> linked])
      ELSE With(ImportGroups(scan, free), [niosx |-> members])

-----------------------------------------------------------------------------
(* The names of sites that count as there already: those of the last       *)
(* region with this key.                                                   *)
KnownNames(s, key) ==
  {n.name : n \in SitesOfRegion(s, Last({r.id : r \in {q \in s.regions : q.key = key}}))}

(* The sites of incoming regions with this key that have a new name, the   *)
(* first of each name.                                                     *)
NewSites(s, incoming, key) ==
  LET coming == UNION {SitesOfRegion(incoming, r.id) : r \in {q \in incoming.regions : q.key = key}}
      new    == {n \in coming : n.name \notin KnownNames(s, key)}
  IN  {n \in new : \A m \in new : m.name = n.name => n.id <= m.id}

Keys(s) == {r.key : r \in s.regions}

(* Appends incoming regions whose key is new, with what is in them. *)
AppendRegions(s, incoming) ==
  LET regions   == {r \in incoming.regions : r.key \notin Keys(s)}
      countries == Within(incoming.countries, Ids(regions))
      cities    == Within(incoming.cities, Ids(countries))
  IN  [s EXCEPT !.regions = @ \cup regions, !.countries = @ \cup countries,
                !.cities = @ \cup cities, !.sites = @ \cup Within(incoming.sites, Ids(cities))]

(* The new sites of a key go to every region that has it, under its first  *)
(* country and city.  Each such region has ids for a country and a city,   *)
(* used when it has none.                                                  *)
FillRegions(s, incoming, free) ==
  LET matched   == {r \in s.regions : r.key \in Keys(incoming)}
      gaining   == {r \in matched : NewSites(s, incoming, r.key) # {}}
      rank(r)   == Cardinality({i \in Ids(matched) : i <= r.id})
      filled(r) == UnderFirstCity(s, r.id, NewSites(s, incoming, r.key),
                                  free.country + rank(r), free.city + rank(r))
  IN  [s EXCEPT !.countries = @ \cup UNION {filled(r).countries : r \in gaining},
                !.cities    = @ \cup UNION {filled(r).cities : r \in gaining},
                !.sites     = @ \cup UNION {filled(r).sites : r \in gaining}]

(* Members whose name is new, the first of each name. *)
NewMembers(s, incoming) ==
  LET new == {n \in incoming.niosx : n.name \notin {m.name : m \in s.niosx}}
  IN  {n \in new : \A m \in new : m.name = n.name => n.id <= m.id}

(* Slip: the imported document replaces what is there. *)
MergeReplacing(s, incoming, free) ==
  With([s EXCEPT !.xaas = {}], incoming)

(* mergeFullState: nothing that is there changes, the selection, step,     *)
(* modes and overrides stay.                                               *)
Merge(s, incoming, free) ==
  [AppendRegions(FillRegions(s, incoming, free), incoming) EXCEPT
    !.niosx = @ \cup NewMembers(s, incoming)]
=============================================================================
