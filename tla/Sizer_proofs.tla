---------------------------- MODULE Sizer_proofs ----------------------------
(***************************************************************************)
(* Theorems about the sizer.  Its document (Sizer.tla): for any scans and  *)
(* any sequence of changes it stays well formed, its save is pending until *)
(* it is stored, and what is derived from it is current.  Its settings and *)
(* report (SizerReport.tla): for any documents and any changes.            *)
(***************************************************************************)
EXTENDS Sizer, SizerReport, Sums, SequenceTheorems

-----------------------------------------------------------------------------
(* Documents.                                                              *)

(* The ids of nodes: positive numbers.                                     *)
Pos == Nat \ {0}

(* A set of numbers with a largest one, or none.                           *)
HasTop(S) == S \subseteq Nat /\ \E N \in Nat : \A i \in S : i <= N

(* The fields of a site, of a member and of a service point.               *)
SiteFields == {"id", "of", "name", "users", "field"}
BoxFields == {"id", "name", "site", "tier", "manual"}
PointFields == {"id", "region", "sites"}

(* Regions, countries, cities and sites are a tree: every node is in a     *)
(* node that is there, and a site is told from the others by its id and    *)
(* city.  Some number is above all ids.                                    *)
TreeOK(R, C, T, S) ==
  /\ \A r \in R : DOMAIN r = {"id", "key"} /\ r.id \in Pos
  /\ C \subseteq [id : Pos, of : Pos]
  /\ T \subseteq [id : Pos, of : Pos]
  /\ \A n \in S : DOMAIN n = SiteFields /\ n.id \in Pos /\ n.of \in Pos /\ DOMAIN n.field = Fields
  /\ \A k \in C : \E r \in R : k.of = r.id
  /\ \A c \in T : \E k \in C : c.of = k.id
  /\ \A n \in S : \E c \in T : n.of = c.id
  /\ \A m, n \in S : m.id = n.id /\ m.of = n.of => m = n
  /\ HasTop(Ids(R)) /\ HasTop(Ids(C)) /\ HasTop(Ids(T)) /\ HasTop(Ids(S))

(* The members, and the service points, with numbers for ids.              *)
BoxesOK(B) ==
  /\ \A m \in B : DOMAIN m = BoxFields /\ m.id \in Pos
  /\ HasTop(Ids(B)) /\ HasTop({m.site : m \in B})

PointsOK(X) ==
  /\ \A x \in X : DOMAIN x = PointFields /\ x.id \in Pos
  /\ HasTop(Ids(X)) /\ HasTop({x.region : x \in X}) /\ HasTop(UNION {x.sites : x \in X})

(* The marks and modes name sites by numbers, there or not.                *)
MarksOK(O, M) == HasTop({o[1] : o \in O}) /\ HasTop(DOMAIN M)

(* A document: a record of the fields the code begins with, the tree and   *)
(* the rest well formed.                                                   *)
DocOK(s) ==
  /\ s = [f \in DOMAIN Empty |-> s[f]]
  /\ TreeOK(s.regions, s.countries, s.cities, s.sites)
  /\ BoxesOK(s.niosx) /\ PointsOK(s.xaas) /\ MarksOK(s.overrides, s.mode)

-----------------------------------------------------------------------------
(* Numbers and ids.                                                        *)

(* First yields the least number of a set that has one.                    *)
LEMMA FirstIsLeast ==
  ASSUME NEW T \in SUBSET Nat, T # {}
  PROVE  First(T) \in T /\ \A j \in T : First(T) <= j
<1>1. \E n \in T : \A j \in T : n <= j
  BY LeastNumber
<1> QED
  BY <1>1 DEF First

(* The largest number: the least one counted from above.                   *)
LEMMA LastNumber ==
  ASSUME NEW T, HasTop(T), T # {}
  PROVE  Last(T) \in T /\ \A j \in T : j <= Last(T)
<1>1. PICK N \in Nat : \A i \in T : i <= N
  BY DEF HasTop
<1> DEFINE U == {N - i : i \in T}
<1>2. U \in SUBSET Nat /\ U # {}
  <2>1. \A i \in T : N - i \in Nat
    BY <1>1 DEF HasTop
  <2> QED BY <2>1
<1>3. PICK u \in U : \A j \in U : u <= j
  <2> HIDE DEF U
  <2> QED BY <1>2, FirstIsLeast
<1>4. PICK i \in T : u = N - i
  BY <1>3
<1>5. \A j \in T : j <= i
  <2> TAKE j \in T
  <2>1. N - j \in U
    OBVIOUS
  <2> QED BY <1>3, <1>4, <2>1 DEF HasTop
<1> QED BY <1>5 DEF Last

(* Top is above every number of the set.                                   *)
LEMMA TopIsTop ==
  ASSUME NEW T, HasTop(T)
  PROVE  Top(T) \in Nat /\ \A j \in T : j <= Top(T)
BY LastNumber DEF Top, HasTop

(* Sets with a largest number: unions, subsets, one number, none, and what *)
(* is bounded.                                                             *)
LEMMA HasTopUnion ==
  ASSUME NEW S, NEW T, HasTop(S), HasTop(T)
  PROVE  HasTop(S \cup T)
<1>1. PICK M \in Nat : \A i \in S : i <= M
  BY DEF HasTop
<1>2. PICK N \in Nat : \A i \in T : i <= N
  BY DEF HasTop
<1>3. M + N \in Nat /\ \A i \in Nat : i <= M \/ i <= N => i <= M + N
  OBVIOUS
<1>4. S \cup T \subseteq Nat /\ \A i \in S \cup T : i <= M + N
  BY <1>1, <1>2, <1>3 DEF HasTop
<1> QED BY <1>3, <1>4 DEF HasTop

LEMMA HasTopSubset ==
  ASSUME NEW S, NEW T, HasTop(T), S \subseteq T
  PROVE  HasTop(S)
BY DEF HasTop

LEMMA HasTopOne == ASSUME NEW i \in Nat PROVE HasTop({i})
BY DEF HasTop

LEMMA HasTopNone == HasTop({})
BY DEF HasTop

LEMMA HasTopBelow == ASSUME NEW S \in SUBSET Nat, NEW N \in Nat, \A i \in S : i <= N PROVE HasTop(S)
BY DEF HasTop

(* The ids that Free yields are above those of the sites in use, in the    *)
(* document and in the stored copy.                                        *)
LEMMA FreeIds ==
  ASSUME DocOK(live), DocOK(Loaded(stored))
  PROVE  /\ Free.region \in Nat /\ Free.country \in Nat /\ Free.city \in Nat /\ Free.site \in Nat
         /\ Free.box \in Nat
         /\ \A n \in live.sites \cup Loaded(stored).sites : n.id <= Free.site
<1>1. ASSUME NEW s, DocOK(s)
      PROVE  /\ HasTop(RegionIds(s)) /\ HasTop(Ids(s.countries)) /\ HasTop(Ids(s.cities))
             /\ HasTop(SiteIds(s)) /\ HasTop(BoxIds(s))
  <2>1. /\ HasTop(Ids(s.regions)) /\ HasTop({x.region : x \in s.xaas})
        /\ HasTop(Ids(s.countries)) /\ HasTop(Ids(s.cities)) /\ HasTop(Ids(s.sites))
        /\ HasTop(Ids(s.niosx)) /\ HasTop({m.site : m \in s.niosx})
        /\ HasTop(Ids(s.xaas)) /\ HasTop(UNION {x.sites : x \in s.xaas})
        /\ HasTop({o[1] : o \in s.overrides}) /\ HasTop(DOMAIN s.mode)
    BY <1>1 DEF DocOK, TreeOK, BoxesOK, PointsOK, MarksOK
  <2>2. HasTop(RegionIds(s)) /\ HasTop(BoxIds(s))
    BY <2>1, HasTopUnion DEF RegionIds, BoxIds
  <2>3. HasTop(Ids(s.sites) \cup {m.site : m \in s.niosx})
    BY <2>1, HasTopUnion
  <2>4. HasTop(Ids(s.sites) \cup {m.site : m \in s.niosx} \cup {o[1] : o \in s.overrides})
    BY <2>1, <2>3, HasTopUnion
  <2>5. HasTop(Ids(s.sites) \cup {m.site : m \in s.niosx} \cup {o[1] : o \in s.overrides}
               \cup DOMAIN s.mode)
    BY <2>1, <2>4, HasTopUnion
  <2>6. HasTop(SiteIds(s))
    BY <2>1, <2>5, HasTopUnion DEF SiteIds
  <2> QED BY <2>1, <2>2, <2>6
<1> DEFINE t == Loaded(stored)
<1>2. HasTop(RegionIds(live) \cup RegionIds(t)) /\ HasTop(Ids(live.countries) \cup Ids(t.countries))
  BY <1>1, HasTopUnion
<1>3. HasTop(Ids(live.cities) \cup Ids(t.cities)) /\ HasTop(BoxIds(live) \cup BoxIds(t))
  BY <1>1, HasTopUnion
<1>4. HasTop(SiteIds(live) \cup SiteIds(t))
  BY <1>1, HasTopUnion
<1>5. \A n \in live.sites \cup t.sites : n.id \in SiteIds(live) \cup SiteIds(t)
  BY DEF SiteIds, Ids
<1>6. Free = [region  |-> Top(RegionIds(live) \cup RegionIds(t)),
              country |-> Top(Ids(live.countries) \cup Ids(t.countries)),
              city    |-> Top(Ids(live.cities) \cup Ids(t.cities)),
              site    |-> Top(SiteIds(live) \cup SiteIds(t)),
              box     |-> Top(BoxIds(live) \cup BoxIds(t))]
  BY DEF Free
<1> HIDE DEF t
<1>7. Free.region \in Nat /\ Free.country \in Nat /\ Free.city \in Nat /\ Free.box \in Nat
  BY <1>2, <1>3, <1>6, TopIsTop
<1>8. Free.site \in Nat /\ \A i \in SiteIds(live) \cup SiteIds(t) : i <= Free.site
  BY <1>4, <1>6, TopIsTop
<1> QED BY <1>5, <1>7, <1>8 DEF t

(* The site the code finds is one with this id.                            *)
LEMMA SiteIsFound ==
  ASSUME NEW s, DocOK(s), NEW id \in Ids(s.sites)
  PROVE  SiteOf(s, id) \in s.sites /\ SiteOf(s, id).id = id
<1> DEFINE holders == {r \in Ids(s.regions) : id \in Ids(SitesOfRegion(s, r))}
           at(r) == {n.of : n \in {m \in SitesOfRegion(s, r) : m.id = id}}
<1>1. PICK n \in s.sites : n.id = id
  BY DEF Ids
<1>2. PICK c \in s.cities, k \in s.countries, r \in s.regions :
        n.of = c.id /\ c.of = k.id /\ k.of = r.id
  BY <1>1 DEF DocOK, TreeOK
<1>3. n \in SitesOfRegion(s, r.id)
  BY <1>1, <1>2 DEF SitesOfRegion, CitiesOfRegion, Within, Ids
<1>4. r.id \in holders
  BY <1>1, <1>2, <1>3 DEF Ids
<1>5. holders \in SUBSET Nat
  BY DEF DocOK, TreeOK, HasTop
<1>6. First(holders) \in holders
  <2> HIDE DEF holders
  <2> QED BY <1>4, <1>5, FirstIsLeast
<1>7. at(First(holders)) # {} /\ at(First(holders)) \in SUBSET Nat
  <2>1. \A q : \A m \in SitesOfRegion(s, q) : m \in s.sites /\ m.of \in Nat
    BY DEF SitesOfRegion, Within, DocOK, TreeOK, Pos
  <2>2. \A q \in holders : \E m \in SitesOfRegion(s, q) : m.id = id
    BY DEF Ids
  <2>3. \A q \in holders : at(q) # {} /\ at(q) \in SUBSET Nat
    BY <2>1, <2>2
  <2> HIDE DEF holders, at
  <2> QED BY <1>6, <2>3
<1>8. First(at(First(holders))) \in at(First(holders))
  <2> HIDE DEF holders, at
  <2> QED BY <1>7, FirstIsLeast
<1>9. PlaceOf(s, id) = First(at(First(holders)))
  BY DEF PlaceOf
<1>10. \E m \in s.sites : m.id = id /\ m.of = PlaceOf(s, id)
  BY <1>8, <1>9 DEF SitesOfRegion, Within
<1> QED BY <1>10 DEF SiteOf

-----------------------------------------------------------------------------
(* The operations of the reducer keep a document a document.               *)

(* What a patch leaves of a record, and what it replaces.                  *)
LEMMA Overridden ==
  ASSUME NEW p, NEW n
  PROVE  /\ DOMAIN With(n, p) = DOMAIN p \cup DOMAIN n
         /\ \A f \in DOMAIN p : With(n, p)[f] = p[f]
         /\ \A f \in DOMAIN n \ DOMAIN p : With(n, p)[f] = n[f]
BY DEF With

(* Ids of more nodes, of fewer, and of one.                                *)
LEMMA IdsOfUnion ==
  ASSUME NEW S, NEW T, HasTop(Ids(S)), HasTop(Ids(T))
  PROVE  HasTop(Ids(S \cup T))
<1>1. Ids(S \cup T) = Ids(S) \cup Ids(T)
  BY DEF Ids
<1> QED BY <1>1, HasTopUnion

LEMMA IdsOfSubset ==
  ASSUME NEW S, NEW T, S \subseteq T, HasTop(Ids(T))
  PROVE  HasTop(Ids(S))
<1>1. Ids(S) \subseteq Ids(T)
  BY DEF Ids
<1> QED BY <1>1, HasTopSubset

LEMMA IdOfOne == ASSUME NEW n, n.id \in Nat PROVE HasTop(Ids({n}))
<1>1. Ids({n}) = {n.id}
  BY DEF Ids
<1> QED BY <1>1, HasTopOne

(* Nodes are added: sites with their parents, and none with the id and     *)
(* place of another.                                                       *)
LEMMA TreeGrows ==
  ASSUME NEW R, NEW C, NEW T, NEW S, TreeOK(R, C, T, S),
         NEW dR, NEW dC, NEW dT, NEW dS,
         \A r \in dR : DOMAIN r = {"id", "key"} /\ r.id \in Pos,
         dC \subseteq [id : Pos, of : Pos], dT \subseteq [id : Pos, of : Pos],
         \A n \in dS : DOMAIN n = SiteFields /\ n.id \in Pos /\ n.of \in Pos
                         /\ DOMAIN n.field = Fields,
         \A k \in dC : \E r \in R \cup dR : k.of = r.id,
         \A c \in dT : \E k \in C \cup dC : c.of = k.id,
         \A n \in dS : \E c \in T \cup dT : n.of = c.id,
         \A n \in dS : \A m \in S \cup dS : m.id = n.id /\ m.of = n.of => m = n,
         HasTop(Ids(dR)), HasTop(Ids(dC)), HasTop(Ids(dT)), HasTop(Ids(dS))
  PROVE  TreeOK(R \cup dR, C \cup dC, T \cup dT, S \cup dS)
<1>1. /\ HasTop(Ids(R \cup dR)) /\ HasTop(Ids(C \cup dC)) /\ HasTop(Ids(T \cup dT))
      /\ HasTop(Ids(S \cup dS))
  <2>1. HasTop(Ids(R)) /\ HasTop(Ids(C)) /\ HasTop(Ids(T)) /\ HasTop(Ids(S))
    BY DEF TreeOK
  <2> QED BY <2>1, IdsOfUnion
<1>2. /\ \A k \in C \cup dC : \E r \in R \cup dR : k.of = r.id
      /\ \A c \in T \cup dT : \E k \in C \cup dC : c.of = k.id
      /\ \A n \in S \cup dS : \E c \in T \cup dT : n.of = c.id
  BY DEF TreeOK
<1>3. \A m, n \in S \cup dS : m.id = n.id /\ m.of = n.of => m = n
  BY DEF TreeOK
<1>4. /\ \A r \in R \cup dR : DOMAIN r = {"id", "key"} /\ r.id \in Pos
      /\ C \cup dC \subseteq [id : Pos, of : Pos]
      /\ T \cup dT \subseteq [id : Pos, of : Pos]
      /\ \A n \in S \cup dS : DOMAIN n = SiteFields /\ n.id \in Pos /\ n.of \in Pos
                                /\ DOMAIN n.field = Fields
  BY DEF TreeOK
<1> QED BY <1>1, <1>2, <1>3, <1>4 DEF TreeOK

(* Nodes go, and with them what is in them.                                *)
LEMMA TreeShrinks ==
  ASSUME NEW R, NEW C, NEW T, NEW S, TreeOK(R, C, T, S),
         NEW Q \in SUBSET R, NEW D \in SUBSET C, NEW U \in SUBSET T, NEW V \in SUBSET S
  PROVE  LET countries == Within(D, Ids(Q))
             cities    == Within(U, Ids(countries))
         IN  TreeOK(Q, countries, cities, Within(V, Ids(cities)))
<1> DEFINE countries == Within(D, Ids(Q))
           cities    == Within(U, Ids(countries))
           sites     == Within(V, Ids(cities))
<1>1. countries \subseteq C /\ cities \subseteq T /\ sites \subseteq S
  BY DEF Within
<1>2. HasTop(Ids(Q)) /\ HasTop(Ids(countries)) /\ HasTop(Ids(cities)) /\ HasTop(Ids(sites))
  BY <1>1, IdsOfSubset DEF TreeOK
<1>3. /\ \A k \in countries : \E r \in Q : k.of = r.id
      /\ \A c \in cities : \E k \in countries : c.of = k.id
      /\ \A n \in sites : \E c \in cities : n.of = c.id
  BY DEF Within, Ids
<1>4. /\ \A r \in Q : DOMAIN r = {"id", "key"} /\ r.id \in Pos
      /\ countries \subseteq [id : Pos, of : Pos] /\ cities \subseteq [id : Pos, of : Pos]
      /\ \A n \in sites : DOMAIN n = SiteFields /\ n.id \in Pos /\ n.of \in Pos
                            /\ DOMAIN n.field = Fields
      /\ \A m, n \in sites : m.id = n.id /\ m.of = n.of => m = n
  BY <1>1 DEF TreeOK
<1> HIDE DEF countries, cities, sites
<1>5. TreeOK(Q, countries, cities, sites)
  BY <1>2, <1>3, <1>4 DEF TreeOK
<1> QED BY <1>5 DEF countries, cities, sites

(* New nodes of a document leave the rest alone.                           *)
LEMMA NewTree ==
  ASSUME NEW s, DocOK(s), NEW t, NEW R, NEW C, NEW T, NEW S, TreeOK(R, C, T, S),
         t = [s EXCEPT !.regions = R, !.countries = C, !.cities = T, !.sites = S]
  PROVE  DocOK(t)
BY DEF DocOK, Empty

(* The document the sizer begins with is one.                              *)
LEMMA EmptyIsOK == DocOK(Empty)
<1>1. Ids({}) = {} /\ HasTop({})
  BY HasTopNone DEF Ids
<1>2. TreeOK({}, {}, {}, {})
  BY <1>1 DEF TreeOK
<1>3. BoxesOK({})
  <2>1. {m.site : m \in {}} = {}
    OBVIOUS
  <2> QED BY <1>1, <2>1 DEF BoxesOK
<1>4. PointsOK({})
  <2>1. {x.region : x \in {}} = {} /\ UNION {x.sites : x \in {}} = {}
    OBVIOUS
  <2> QED BY <1>1, <2>1 DEF PointsOK
<1>5. MarksOK({}, <<>>)
  <2>1. {o[1] : o \in {}} = {} /\ DOMAIN <<>> = {}
    OBVIOUS
  <2> QED BY <1>1, <2>1 DEF MarksOK
<1> QED BY <1>2, <1>3, <1>4, <1>5 DEF DocOK, Empty

(* A selection or a step number does not touch the tree.                   *)
LEMMA PathAndStep ==
  ASSUME NEW s, DocOK(s)
  PROVE  /\ \A path : DocOK(Select(s, path))
         /\ \A step : DocOK(SetStep(s, step))
BY DEF DocOK, Empty, Select, SetStep

(* Deleting a node deletes what is in it; the rest is a document.          *)
LEMMA Deletions ==
  ASSUME NEW s, DocOK(s), NEW id
  PROVE  DocOK(DeleteRegion(s, id)) /\ DocOK(DeleteCountry(s, id))
         /\ DocOK(DeleteCity(s, id)) /\ DocOK(DeleteSite(s, id))
<1>1. ASSUME NEW t, NEW Q \in SUBSET s.regions, NEW D \in SUBSET s.countries,
             NEW U \in SUBSET s.cities,
             t = [s EXCEPT !.regions = Q, !.countries = D, !.cities = U]
      PROVE  DocOK(WithoutLost(t))
  <2> DEFINE countries == Within(D, Ids(Q))
             cities    == Within(U, Ids(countries))
             sites     == Within(s.sites, Ids(cities))
  <2>1. TreeOK(Q, countries, cities, sites)
    BY TreeShrinks DEF DocOK
  <2>2. t.regions = Q /\ t.countries = D /\ t.cities = U /\ t.sites = s.sites
    BY <1>1 DEF DocOK, Empty
  <2>3. WithoutLost(t) = [t EXCEPT !.countries = countries, !.cities = cities, !.sites = sites]
    BY <2>2 DEF WithoutLost
  <2> HIDE DEF countries, cities, sites
  <2>4. WithoutLost(t) = [s EXCEPT !.regions = Q, !.countries = countries, !.cities = cities,
                                   !.sites = sites]
    BY <1>1, <2>3 DEF DocOK, Empty
  <2> QED BY <2>1, <2>4, NewTree
<1>2. /\ DeleteRegion(s, id) = WithoutLost([s EXCEPT !.regions = {r \in s.regions : r.id # id},
                                 !.countries = s.countries, !.cities = s.cities])
      /\ DeleteCountry(s, id) = WithoutLost([s EXCEPT !.regions = s.regions,
                    !.countries = {c \in s.countries : c.id # id}, !.cities = s.cities])
      /\ DeleteCity(s, id) = WithoutLost([s EXCEPT !.regions = s.regions,
                    !.countries = s.countries, !.cities = {c \in s.cities : c.id # id}])
  BY DEF DeleteRegion, DeleteCountry, DeleteCity, DocOK, Empty
<1>3. DocOK(DeleteSite(s, id))
  <2> DEFINE sites == {n \in s.sites : n.id # id}
  <2>1. HasTop(Ids(sites))
    BY IdsOfSubset DEF DocOK, TreeOK
  <2>2. TreeOK(s.regions, s.countries, s.cities, sites)
    BY <2>1 DEF DocOK, TreeOK
  <2>3. DeleteSite(s, id) = [s EXCEPT !.regions = s.regions, !.countries = s.countries,
                                      !.cities = s.cities, !.sites = sites]
    BY DEF DeleteSite, DocOK, Empty
  <2> QED BY <2>2, <2>3, NewTree
<1> QED BY <1>1, <1>2, <1>3, ZenonT(30)

(* A patch replaces nodes but keeps their ids.                             *)
LEMMA PatchedNodes ==
  ASSUME NEW S, NEW id, NEW p, "id" \notin DOMAIN p, \A n \in S : "id" \in DOMAIN n
  PROVE  /\ Ids(Patched(S, id, p)) = Ids(S)
         /\ \A m \in Patched(S, id, p) : \E n \in S : m.id = n.id /\ (m = n \/ m = With(n, p))
<1>1. \A n \in S : With(n, p).id = n.id
  BY DEF With
<1> DEFINE new(n) == IF n.id = id THEN With(n, p) ELSE n
<1>2. \A n \in S : new(n).id = n.id
  BY <1>1
<1>3. Patched(S, id, p) = {new(n) : n \in S}
  BY DEF Patched
<1>4. Ids({new(n) : n \in S}) = Ids(S)
  BY <1>2 DEF Ids
<1>5. \A m \in {new(n) : n \in S} : \E n \in S : m.id = n.id /\ (m = n \/ m = With(n, p))
  BY <1>2
<1> QED BY <1>3, <1>4, <1>5

(* Regions are added and updated.                                          *)
LEMMA Regions ==
  ASSUME NEW s, DocOK(s), NEW id \in Pos
  PROVE  /\ DocOK(AddRegion(s, id))
         /\ \A key : DocOK(UpdateRegion(s, id, [key |-> key]))
<1>1. DocOK(AddRegion(s, id))
  <2> DEFINE r == [id |-> id, key |-> Own]
             t == [s EXCEPT !.regions = @ \cup {r}, !.countries = @, !.cities = @, !.sites = @]
  <2>1. HasTop(Ids({r})) /\ HasTop(Ids({}))
    <3>1. r.id \in Nat /\ Ids({}) = {}
      BY DEF Pos, Ids
    <3> QED BY <3>1, IdOfOne, HasTopNone
  <2>2. TreeOK(s.regions \cup {r}, s.countries \cup {}, s.cities \cup {}, s.sites \cup {})
    <3> HIDE DEF r
    <3>1. DOMAIN r = {"id", "key"} /\ r.id \in Pos
      BY DEF r
    <3> QED BY <2>1, <3>1, TreeGrows DEF DocOK
  <2>3. DocOK(t)
    <3> HIDE DEF r
    <3> QED BY <2>2, NewTree
  <2>4. AddRegion(s, id) = Select(t, <<"region", id>>)
    BY DEF AddRegion, Select, DocOK, Empty
  <2> QED BY <2>3, <2>4, PathAndStep
<1>2. ASSUME NEW key PROVE DocOK(UpdateRegion(s, id, [key |-> key]))
  <2> DEFINE R == Patched(s.regions, id, [key |-> key])
  <2>1. \A r \in s.regions : DOMAIN r = {"id", "key"} /\ r.id \in Pos
                            /\ DOMAIN With(r, [key |-> key]) = DOMAIN r
    BY DEF With, DocOK, TreeOK
  <2>2. /\ \A r \in R : DOMAIN r = {"id", "key"} /\ r.id \in Pos
        /\ Ids(R) = Ids(s.regions)
    BY <2>1, PatchedNodes
  <2>3. \A k \in s.countries : (\E r \in s.regions : k.of = r.id) => \E r \in R : k.of = r.id
    BY <2>2 DEF Ids
  <2> HIDE DEF R
  <2>4. TreeOK(R, s.countries, s.cities, s.sites)
    BY <2>2, <2>3 DEF DocOK, TreeOK
  <2>5. UpdateRegion(s, id, [key |-> key]) = [s EXCEPT !.regions = R, !.countries = s.countries,
                                      !.cities = s.cities, !.sites = s.sites]
    BY DEF UpdateRegion, R, DocOK, Empty
  <2> QED BY <2>4, <2>5, NewTree
<1> QED BY <1>1, <1>2

(* Countries and cities are added to nodes that are there.                 *)
LEMMA CountriesAndCities ==
  ASSUME NEW s, DocOK(s), NEW id \in Pos, NEW of
  PROVE  /\ of \in Ids(s.regions) => DocOK(AddCountry(s, of, id))
         /\ of \in Ids(s.countries) => DocOK(AddCity(s, of, id))
<1> DEFINE c == [id |-> id, of |-> of]
<1>1. HasTop(Ids({c})) /\ HasTop(Ids({}))
  <2>1. c.id \in Nat /\ Ids({}) = {}
    BY DEF Pos, Ids
  <2> QED BY <2>1, IdOfOne, HasTopNone
<1>2. of \in Ids(s.regions) \cup Ids(s.countries) => {c} \subseteq [id : Pos, of : Pos]
  BY DEF DocOK, TreeOK, Ids
<1>6. c.of = of
  OBVIOUS
<1> HIDE DEF c
<1>3. of \in Ids(s.regions) =>
        TreeOK(s.regions \cup {}, s.countries \cup {c}, s.cities \cup {}, s.sites \cup {})
  <2> SUFFICES ASSUME of \in Ids(s.regions)
               PROVE  TreeOK(s.regions \cup {}, s.countries \cup {c}, s.cities \cup {}, s.sites \cup {})
    OBVIOUS
  <2>1. \E r \in s.regions \cup {} : c.of = r.id
    BY <1>6 DEF Ids
  <2> QED BY <1>1, <1>2, <2>1, TreeGrows, ZenonT(30) DEF DocOK
<1>4. of \in Ids(s.countries) =>
        TreeOK(s.regions \cup {}, s.countries \cup {}, s.cities \cup {c}, s.sites \cup {})
  <2> SUFFICES ASSUME of \in Ids(s.countries)
               PROVE  TreeOK(s.regions \cup {}, s.countries \cup {}, s.cities \cup {c}, s.sites \cup {})
    OBVIOUS
  <2>1. \E k \in s.countries \cup {} : c.of = k.id
    BY <1>6 DEF Ids
  <2> QED BY <1>1, <1>2, <2>1, TreeGrows DEF DocOK
<1>5. /\ AddCountry(s, of, id) = [s EXCEPT !.regions = s.regions \cup {},
            !.countries = s.countries \cup {c}, !.cities = s.cities \cup {}, !.sites = s.sites \cup {}]
      /\ AddCity(s, of, id) = [s EXCEPT !.regions = s.regions \cup {},
            !.countries = s.countries \cup {}, !.cities = s.cities \cup {c}, !.sites = s.sites \cup {}]
  BY DEF AddCountry, AddCity, c, DocOK, Empty
<1> QED BY <1>3, <1>4, <1>5, NewTree

(* A country and city of a region: there, or new with these ids.           *)
PlaceIn(s, region, country, city, k, c) ==
  /\ k \in [id : Pos, of : Pos] /\ k.of = region
  /\ k \in s.countries \/ k = [id |-> country, of |-> region]
  /\ c \in [id : Pos, of : Pos] /\ c.of = k.id
  /\ c \in s.cities \/ c = [id |-> city, of |-> k.id]

(* The document with these places, and the sites in that city.             *)
Settled(s, k, c, nodes) ==
  [s EXCEPT !.countries = s.countries \cup {k}, !.cities = s.cities \cup {c},
            !.sites = s.sites \cup {With(n, [of |-> c.id]) : n \in nodes}]

(* Nodes put under the first city of a region are in a place of it, new or *)
(* old.                                                                    *)
LEMMA UnderFirst ==
  ASSUME NEW s, DocOK(s), NEW r \in s.regions, NEW nodes, NEW country \in Pos, NEW city \in Pos
  PROVE  \E k, c : /\ PlaceIn(s, r.id, country, city, k, c)
                  /\ UnderFirstCity(s, r.id, nodes, country, city) = Settled(s, k, c, nodes)
<1> DEFINE own    == Ids(Within(s.countries, {r.id}))
           into   == IF own = {} THEN country ELSE First(own)
           places == Ids(Within(s.cities, {into}))
           place  == IF places = {} THEN city ELSE First(places)
           k      == [id |-> into, of |-> r.id]
           c      == [id |-> place, of |-> into]
           new    == {With(n, [of |-> place]) : n \in nodes}
<1>1. s.countries \subseteq [id : Pos, of : Pos] /\ s.cities \subseteq [id : Pos, of : Pos]
      /\ r.id \in Pos
  BY DEF DocOK, TreeOK
<1>2. own \in SUBSET Pos /\ places \in SUBSET Pos
  BY <1>1 DEF Ids, Within
<1>3. into \in Pos /\ (own # {} => into \in own)
  <2> HIDE DEF own
  <2> QED BY <1>2, FirstIsLeast DEF Pos
<1>4. place \in Pos /\ (places # {} => place \in places)
  <2> HIDE DEF own, places
  <2> QED BY <1>2, FirstIsLeast DEF Pos
<1>5. k \in [id : Pos, of : Pos] /\ c \in [id : Pos, of : Pos]
  <2> HIDE DEF into, place
  <2> QED BY <1>1, <1>3, <1>4
<1>6. own # {} => k \in s.countries
  <2> SUFFICES ASSUME own # {} PROVE k \in s.countries
    OBVIOUS
  <2>1. PICK q \in s.countries : q.of = r.id /\ q.id = into
    <3> HIDE DEF into
    <3> QED BY <1>3 DEF Ids, Within
  <2>2. q = k
    <3> HIDE DEF into
    <3> QED BY <1>1, <2>1
  <2> QED BY <2>1, <2>2
<1>7. places # {} => c \in s.cities
  <2> SUFFICES ASSUME places # {} PROVE c \in s.cities
    OBVIOUS
  <2>1. PICK q \in s.cities : q.of = into /\ q.id = place
    <3> HIDE DEF into, place
    <3> QED BY <1>4 DEF Ids, Within
  <2>2. q = c
    <3> HIDE DEF into, place
    <3> QED BY <1>1, <2>1
  <2> QED BY <2>1, <2>2
<1>8. own = {} => k = [id |-> country, of |-> r.id]
  OBVIOUS
<1>9. places = {} => c = [id |-> city, of |-> k.id]
  OBVIOUS
<1>10. UnderFirstCity(s, r.id, nodes, country, city) =
         [s EXCEPT !.countries = IF own = {} THEN s.countries \cup {[id |-> country, of |-> r.id]}
                                 ELSE s.countries,
                   !.cities = IF places = {} THEN s.cities \cup {[id |-> city, of |-> into]}
                              ELSE s.cities,
                   !.sites = s.sites \cup new]
  BY DEF UnderFirstCity, DocOK, Empty
<1>11. (IF own = {} THEN s.countries \cup {[id |-> country, of |-> r.id]} ELSE s.countries)
         = s.countries \cup {k}
  <2> HIDE DEF own, k
  <2> QED BY <1>6, <1>8
<1>12. (IF places = {} THEN s.cities \cup {[id |-> city, of |-> into]} ELSE s.cities)
         = s.cities \cup {c}
  <2>1. k.id = into
    OBVIOUS
  <2> HIDE DEF places, into, k, c
  <2> QED BY <1>7, <1>9, <2>1
<1>13. UnderFirstCity(s, r.id, nodes, country, city) =
         [s EXCEPT !.countries = s.countries \cup {k}, !.cities = s.cities \cup {c},
                   !.sites = s.sites \cup new]
  <2> HIDE DEF own, places, k, c, new, into
  <2> QED BY <1>10, <1>11, <1>12
<1>14. k.of = r.id /\ c.of = k.id /\ place = c.id
  OBVIOUS
<1>15. new = {With(n, [of |-> c.id]) : n \in nodes}
  BY <1>14
<1>16. /\ k \in s.countries \/ k = [id |-> country, of |-> r.id]
       /\ c \in s.cities \/ c = [id |-> city, of |-> k.id]
  <2> HIDE DEF own, places, k, c
  <2> QED BY <1>6, <1>7, <1>8, <1>9
<1> HIDE DEF own, places, k, c, new, into
<1>17. PlaceIn(s, r.id, country, city, k, c)
  BY <1>5, <1>14, <1>16 DEF PlaceIn
<1>18. UnderFirstCity(s, r.id, nodes, country, city) = Settled(s, k, c, nodes)
  BY <1>13, <1>15 DEF Settled
<1> QED BY <1>17, <1>18

(* What a site needs to be put into a document.                            *)
NewSiteOK(s, n) ==
  /\ DOMAIN n \cup {"of"} = SiteFields /\ n.id \in Pos /\ DOMAIN n.field = Fields
  /\ \A m \in s.sites : m.id # n.id

(* A new site that is given a city is a site.                              *)
LEMMA PlacedSite ==
  ASSUME NEW s, NEW n, NewSiteOK(s, n), NEW of \in Pos
  PROVE  LET m == With(n, [of |-> of])
         IN  /\ DOMAIN m = SiteFields /\ m.id = n.id /\ m.of = of /\ DOMAIN m.field = Fields
             /\ m.name = n.name
BY DEF With, NewSiteOK, SiteFields

(* A document with one more site, in a place that is there or comes with   *)
(* it.                                                                     *)
LEMMA SitesAdded ==
  ASSUME NEW s, DocOK(s), NEW n, NewSiteOK(s, n),
         NEW k \in [id : Pos, of : Pos], NEW c \in [id : Pos, of : Pos],
         k \in s.countries \/ k.of \in Ids(s.regions), c.of = k.id,
         NEW t, t = Settled(s, k, c, {n})
  PROVE  DocOK(t)
<1> DEFINE m == With(n, [of |-> c.id])
<1>1. c.id \in Pos
  OBVIOUS
<1>2. DOMAIN m = SiteFields /\ m.id = n.id /\ m.of = c.id /\ DOMAIN m.field = Fields
  BY <1>1, PlacedSite
<1> HIDE DEF m
<1>3. HasTop(Ids({})) /\ HasTop(Ids({k})) /\ HasTop(Ids({c})) /\ HasTop(Ids({m}))
  <2>1. k.id \in Nat /\ c.id \in Nat /\ m.id \in Nat /\ Ids({}) = {}
    BY <1>2 DEF Pos, Ids, NewSiteOK
  <2> QED BY <2>1, IdOfOne, HasTopNone
<1>4. \E r \in s.regions \cup {} : k.of = r.id
  BY DEF DocOK, TreeOK, Ids
<1>5. \A j \in s.sites \cup {m} : j.id = m.id /\ j.of = m.of => j = m
  BY <1>2 DEF NewSiteOK
<1>6. TreeOK(s.regions \cup {}, s.countries \cup {k}, s.cities \cup {c}, s.sites \cup {m})
  <2>1. TreeOK(s.regions, s.countries, s.cities, s.sites)
    BY DEF DocOK
  <2>2. \A j \in {m} : DOMAIN j = SiteFields /\ j.id \in Pos /\ j.of \in Pos /\ DOMAIN j.field = Fields
    BY <1>1, <1>2 DEF NewSiteOK
  <2> QED BY <1>2, <1>3, <1>4, <1>5, <2>1, <2>2, TreeGrows
<1>8. {With(j, [of |-> c.id]) : j \in {n}} = {m}
  BY DEF m
<1>7. t = [s EXCEPT !.regions = s.regions \cup {}, !.countries = s.countries \cup {k},
                    !.cities = s.cities \cup {c}, !.sites = s.sites \cup {m}]
  BY <1>8 DEF Settled, DocOK, Empty
<1> QED BY <1>6, <1>7, NewTree

(* The two ways of adding a site by hand.                                  *)
LEMMA AddedSites ==
  ASSUME NEW s, DocOK(s), NEW id \in Pos, \A m \in s.sites : m.id # id
  PROVE  /\ \A c \in s.cities : DocOK(AddSiteToCity(s, c.id, id))
         /\ \A r \in s.regions : \A country, city \in Pos :
              DocOK(AddSiteToRegion(s, r.id, country, city, id))
<1>1. NewSiteOK(s, NewSite(id))
  BY DEF NewSiteOK, NewSite, NoField, SiteFields
<1>2. ASSUME NEW c \in s.cities PROVE DocOK(AddSiteToCity(s, c.id, id))
  <2>1. PICK k \in s.countries : c.of = k.id
    BY DEF DocOK, TreeOK
  <2>2. k \in [id : Pos, of : Pos] /\ c \in [id : Pos, of : Pos]
    BY DEF DocOK, TreeOK
  <2>3. s.countries \cup {k} = s.countries /\ s.cities \cup {c} = s.cities
    OBVIOUS
  <2>5. {With(n, [of |-> c.id]) : n \in {NewSite(id)}} = {With(NewSite(id), [of |-> c.id])}
    OBVIOUS
  <2>4. AddSiteToCity(s, c.id, id) = Settled(s, k, c, {NewSite(id)})
    BY <2>3, <2>5 DEF AddSiteToCity, Settled, DocOK, Empty
  <2> QED BY <1>1, <2>1, <2>2, <2>4, SitesAdded
<1>3. ASSUME NEW r \in s.regions, NEW country \in Pos, NEW city \in Pos
      PROVE  DocOK(AddSiteToRegion(s, r.id, country, city, id))
  <2> DEFINE t == UnderFirstCity(s, r.id, {NewSite(id)}, country, city)
  <2>1. PICK k, c : PlaceIn(s, r.id, country, city, k, c) /\ t = Settled(s, k, c, {NewSite(id)})
    BY UnderFirst
  <2> HIDE DEF t
  <2>2. /\ k \in [id : Pos, of : Pos] /\ c \in [id : Pos, of : Pos] /\ c.of = k.id
        /\ k.of \in Ids(s.regions)
    BY <2>1 DEF PlaceIn, Ids
  <2>3. DocOK(t)
    BY <1>1, <2>1, <2>2, SitesAdded
  <2> QED BY <2>3 DEF t, AddSiteToRegion
<1> QED BY <1>2, <1>3

(* A site is changed, but not its id and place.                            *)
LEMMA SiteUpdated ==
  ASSUME NEW s, DocOK(s), NEW id, NEW p, DOMAIN p \subseteq SiteFields \ {"id", "of"},
         "field" \in DOMAIN p => DOMAIN p.field = Fields
  PROVE  /\ DocOK(UpdateSite(s, id, p))
         /\ id \in Ids(s.sites) =>
              /\ UpdateSite(s, id, p) =
                   [s EXCEPT !.sites = (s.sites \ {SiteOf(s, id)}) \cup {With(SiteOf(s, id), p)}]
              /\ With(SiteOf(s, id), p).id = id
<1>1. CASE id \notin Ids(s.sites)
  BY <1>1 DEF UpdateSite
<1>2. CASE id \in Ids(s.sites)
  <2>1. PICK n \in s.sites : n = SiteOf(s, id) /\ n.id = id
    BY <1>2, SiteIsFound
  <2> DEFINE m == With(n, p)
             S == (s.sites \ {n}) \cup {m}
  <2>2. DOMAIN n = SiteFields /\ n.id \in Pos /\ n.of \in Pos /\ DOMAIN n.field = Fields
    BY DEF DocOK, TreeOK
  <2>3. DOMAIN m = SiteFields /\ m.id = n.id /\ m.of = n.of /\ DOMAIN m.field = Fields
    BY <2>2 DEF With, SiteFields
  <2> HIDE DEF m
  <2>4. Ids(S) = Ids(s.sites)
    BY <2>3 DEF Ids
  <2>5. TreeOK(s.regions, s.countries, s.cities, S)
    <3>3. /\ \A j \in s.sites : DOMAIN j = SiteFields /\ j.id \in Pos /\ j.of \in Pos
                                  /\ DOMAIN j.field = Fields
          /\ \A j \in s.sites : \E c \in s.cities : j.of = c.id
      BY DEF DocOK, TreeOK
    <3>1. /\ \A j \in S : DOMAIN j = SiteFields /\ j.id \in Pos /\ j.of \in Pos /\ DOMAIN j.field = Fields
          /\ \A j \in S : \E c \in s.cities : j.of = c.id
      BY <2>2, <2>3, <3>3
    <3>2. \A j, k \in S : j.id = k.id /\ j.of = k.of => j = k
      BY <2>3 DEF DocOK, TreeOK
    <3> HIDE DEF S
    <3> QED BY <2>4, <3>1, <3>2 DEF DocOK, TreeOK
  <2> HIDE DEF S
  <2>6. UpdateSite(s, id, p) = [s EXCEPT !.regions = s.regions, !.countries = s.countries,
                                        !.cities = s.cities, !.sites = S]
    BY <1>2, <2>1 DEF UpdateSite, S, m, DocOK, Empty
  <2>7. DocOK(UpdateSite(s, id, p))
    BY <2>5, <2>6, NewTree
  <2>8. UpdateSite(s, id, p) = [s EXCEPT !.sites = (s.sites \ {n}) \cup {m}]
    BY <1>2, <2>1 DEF UpdateSite, m
  <2> QED BY <2>1, <2>3, <2>7, <2>8 DEF m
<1> QED BY <1>1, <1>2

(* Marks, members and service points.                                      *)
LEMMA NewMarks ==
  ASSUME NEW s, DocOK(s), NEW t, NEW O, NEW M, MarksOK(O, M),
         t = [s EXCEPT !.overrides = O, !.mode = M]
  PROVE  DocOK(t)
BY DEF DocOK, Empty

(* Members are replaced; then service points.                              *)
LEMMA NewBoxes ==
  ASSUME NEW s, DocOK(s), NEW t, NEW B, BoxesOK(B), t = [s EXCEPT !.niosx = B]
  PROVE  DocOK(t)
BY DEF DocOK, Empty

LEMMA NewPoints ==
  ASSUME NEW s, DocOK(s), NEW t, NEW X, PointsOK(X), t = [s EXCEPT !.xaas = X]
  PROVE  DocOK(t)
BY DEF DocOK, Empty

(* A mode or a mark is set for a site.                                     *)
LEMMA Marks ==
  ASSUME NEW s, DocOK(s), NEW id \in Pos
  PROVE  /\ \A mode : DocOK(SetMode(s, id, mode))
         /\ \A f : DocOK(MarkOverride(s, id, f))
<1>1. HasTop({id}) /\ HasTop({o[1] : o \in s.overrides}) /\ HasTop(DOMAIN s.mode)
  BY HasTopOne DEF DocOK, MarksOK, Pos
<1>2. ASSUME NEW mode PROVE DocOK(SetMode(s, id, mode))
  <2> DEFINE M == With(s.mode, [n \in {id} |-> mode])
  <2>1. DOMAIN M = DOMAIN s.mode \cup {id}
    BY DEF With
  <2> HIDE DEF M
  <2>2. MarksOK(s.overrides, M)
    BY <1>1, <2>1, HasTopUnion DEF MarksOK
  <2>3. SetMode(s, id, mode) = [s EXCEPT !.overrides = s.overrides, !.mode = M]
    BY DEF SetMode, M, DocOK, Empty
  <2> QED BY <2>2, <2>3, NewMarks
<1>3. ASSUME NEW f PROVE DocOK(MarkOverride(s, id, f))
  <2> DEFINE O == s.overrides \cup {<<id, f>>}
  <2>1. {o[1] : o \in O} \subseteq {o[1] : o \in s.overrides} \cup {id}
    OBVIOUS
  <2> HIDE DEF O
  <2>2. MarksOK(O, s.mode)
    BY <1>1, <2>1, HasTopUnion, HasTopSubset DEF MarksOK
  <2>3. MarkOverride(s, id, f) = [s EXCEPT !.overrides = O, !.mode = s.mode]
    BY DEF MarkOverride, O, DocOK, Empty
  <2> QED BY <2>2, <2>3, NewMarks
<1> QED BY <1>2, <1>3

(* Clones of a site with new ids are sites of its city.                    *)
LEMMA Clones ==
  ASSUME NEW s, DocOK(s), NEW id, NEW clones \in SUBSET Pos, HasTop(clones),
         \A m \in s.sites : m.id \notin clones
  PROVE  DocOK(CloneSite(s, id, clones))
<1>1. CASE id \notin Ids(s.sites)
  BY <1>1 DEF CloneSite
<1>2. CASE id \in Ids(s.sites)
  <2> DEFINE copy(c) == With(SiteOf(s, id), [id |-> c, name |-> Own])
             S == {copy(c) : c \in clones}
             F == {o[2] : o \in {p \in s.overrides : p[1] = id}}
             O == {<<c, f>> : c \in clones, f \in F}
  <2>1. PICK n \in s.sites : n = SiteOf(s, id)
    BY <1>2, SiteIsFound
  <2>2. DOMAIN n = SiteFields /\ n.of \in Pos /\ DOMAIN n.field = Fields
        /\ \E c \in s.cities : n.of = c.id
    BY DEF DocOK, TreeOK
  <2>3. \A c \in clones : /\ DOMAIN copy(c) = SiteFields /\ copy(c).id = c /\ copy(c).of = n.of
                          /\ DOMAIN copy(c).field = Fields
    BY <2>1, <2>2 DEF With, SiteFields
  <2> HIDE DEF copy
  <2>4. Ids(S) = clones /\ Ids({}) = {}
    BY <2>3 DEF Ids
  <2>5. /\ \A m \in S : DOMAIN m = SiteFields /\ m.id \in Pos /\ m.of \in Pos /\ DOMAIN m.field = Fields
        /\ \A m \in S : \E c \in s.cities \cup {} : m.of = c.id
    BY <2>2, <2>3
  <2>6. \A m \in S : \A k \in s.sites \cup S : k.id = m.id /\ k.of = m.of => k = m
    BY <2>3
  <2>7. TreeOK(s.regions, s.countries, s.cities, s.sites)
    BY DEF DocOK
  <2> HIDE DEF S
  <2>8. TreeOK(s.regions \cup {}, s.countries \cup {}, s.cities \cup {}, s.sites \cup S)
    BY <2>4, <2>5, <2>6, <2>7, TreeGrows, HasTopNone
  <2> DEFINE t == [s EXCEPT !.regions = s.regions \cup {}, !.countries = s.countries \cup {},
                           !.cities = s.cities \cup {}, !.sites = s.sites \cup S]
  <2>9. DocOK(t)
    BY <2>8, NewTree
  <2>10. {o[1] : o \in O} \subseteq clones
    OBVIOUS
  <2>11. {o[1] : o \in s.overrides \cup O} = {o[1] : o \in s.overrides} \cup {o[1] : o \in O}
    OBVIOUS
  <2> HIDE DEF O
  <2>12. HasTop({o[1] : o \in s.overrides \cup O})
    <3>1. HasTop({o[1] : o \in O})
      BY <2>10, HasTopSubset
    <3>2. HasTop({o[1] : o \in s.overrides})
      BY DEF DocOK, MarksOK
    <3> QED BY <2>11, <3>1, <3>2, HasTopUnion
  <2>13. MarksOK(s.overrides \cup O, s.mode)
    BY <2>12 DEF DocOK, MarksOK
  <2>14. CloneSite(s, id, clones) = [s EXCEPT !.sites = s.sites \cup S, !.overrides = s.overrides \cup O]
    BY <1>2 DEF CloneSite, S, O, copy
  <2>15. CloneSite(s, id, clones) = [t EXCEPT !.overrides = s.overrides \cup O, !.mode = s.mode]
    BY <2>14, ZenonT(30) DEF DocOK, Empty
  <2> HIDE DEF t
  <2> QED BY <2>9, <2>13, <2>15, NewMarks
<1> QED BY <1>1, <1>2

(* Members are added, updated and deleted.                                 *)
LEMMA Boxes ==
  ASSUME NEW s, DocOK(s), NEW id \in Pos
  PROVE  /\ DocOK(AddNiosx(s, id)) /\ DocOK(DeleteNiosx(s, id))
         /\ \A p : DOMAIN p \subseteq BoxFields \ {"id"} /\ ("site" \in DOMAIN p => p.site \in Nat)
                  => DocOK(UpdateNiosx(s, id, p))
<1>1. HasTop(Ids(s.niosx)) /\ HasTop({m.site : m \in s.niosx})
      /\ \A m \in s.niosx : DOMAIN m = BoxFields /\ m.id \in Pos
  BY DEF DocOK, BoxesOK
<1>2. DocOK(AddNiosx(s, id))
  <2> DEFINE m == [id |-> id, name |-> Own, site |-> 0, tier |-> "M", manual |-> FALSE]
  <2>1. DOMAIN m = BoxFields /\ m.id = id /\ m.site = 0
    BY DEF BoxFields
  <2> HIDE DEF m
  <2>2. HasTop(Ids({m})) /\ HasTop({0})
    BY <2>1, IdOfOne, HasTopOne DEF Pos
  <2>3. HasTop(Ids(s.niosx \cup {m}))
    BY <1>1, <2>2, IdsOfUnion
  <2>4. {k.site : k \in s.niosx \cup {m}} = {k.site : k \in s.niosx} \cup {0}
    BY <2>1
  <2>5. BoxesOK(s.niosx \cup {m})
    BY <1>1, <2>1, <2>2, <2>3, <2>4, HasTopUnion DEF BoxesOK
  <2> QED BY <2>5, NewBoxes DEF AddNiosx, m
<1>3. DocOK(DeleteNiosx(s, id))
  <2> DEFINE B == {n \in s.niosx : n.id # id}
  <2>1. {k.site : k \in B} \subseteq {k.site : k \in s.niosx}
    OBVIOUS
  <2>2. B \subseteq s.niosx
    OBVIOUS
  <2> HIDE DEF B
  <2>3. BoxesOK(B)
    BY <1>1, <2>1, <2>2, IdsOfSubset, HasTopSubset DEF BoxesOK
  <2> QED BY <2>3, NewBoxes DEF DeleteNiosx, B
<1>4. ASSUME NEW p, DOMAIN p \subseteq BoxFields \ {"id"}, "site" \in DOMAIN p => p.site \in Nat
      PROVE  DocOK(UpdateNiosx(s, id, p))
  <2> DEFINE B == Patched(s.niosx, id, p)
  <2>1. \A m \in s.niosx : /\ DOMAIN With(m, p) = BoxFields
                           /\ With(m, p).site = IF "site" \in DOMAIN p THEN p.site ELSE m.site
    BY <1>1, <1>4 DEF With, BoxFields
  <2>2. Ids(B) = Ids(s.niosx) /\ \A m \in B : \E n \in s.niosx : m.id = n.id /\ (m = n \/ m = With(n, p))
    BY <1>1, <1>4, PatchedNodes DEF BoxFields
  <2> HIDE DEF B
  <2>3. \A m \in B : DOMAIN m = BoxFields /\ m.id \in Pos
    BY <1>1, <2>1, <2>2
  <2> DEFINE more == IF "site" \in DOMAIN p THEN {p.site} ELSE {}
  <2>4. {m.site : m \in B} \subseteq {m.site : m \in s.niosx} \cup more
    BY <2>1, <2>2
  <2>5. HasTop(more)
    BY <1>4, HasTopOne, HasTopNone
  <2>6. HasTop({m.site : m \in s.niosx} \cup more)
    BY <1>1, <2>5, HasTopUnion
  <2>7. BoxesOK(B)
    BY <1>1, <2>2, <2>3, <2>4, <2>6, HasTopSubset DEF BoxesOK
  <2> QED BY <2>7, NewBoxes DEF UpdateNiosx, B
<1> QED BY <1>2, <1>3, <1>4

(* Service points are added, updated and deleted.                          *)
LEMMA Points ==
  ASSUME NEW s, DocOK(s), NEW id \in Pos
  PROVE  /\ \A region \in Nat : DocOK(AddXaas(s, region, id))
         /\ DocOK(DeleteXaas(s, id))
         /\ \A S : HasTop(S) => DocOK(UpdateXaas(s, id, [sites |-> S]))
<1>1. HasTop(Ids(s.xaas)) /\ HasTop({x.region : x \in s.xaas}) /\ HasTop(UNION {x.sites : x \in s.xaas})
      /\ \A m \in s.xaas : DOMAIN m = PointFields /\ m.id \in Pos
  BY DEF DocOK, PointsOK
<1>2. ASSUME NEW region \in Nat PROVE DocOK(AddXaas(s, region, id))
  <2> DEFINE m == [id |-> id, region |-> region, sites |-> {}]
  <2>1. DOMAIN m = PointFields /\ m.id = id /\ m.region = region /\ m.sites = {}
    BY DEF PointFields
  <2> HIDE DEF m
  <2>2. HasTop(Ids({m})) /\ HasTop({region})
    BY <2>1, IdOfOne, HasTopOne DEF Pos
  <2>3. HasTop(Ids(s.xaas \cup {m}))
    BY <1>1, <2>2, IdsOfUnion
  <2>4. /\ {k.region : k \in s.xaas \cup {m}} = {k.region : k \in s.xaas} \cup {region}
        /\ UNION {k.sites : k \in s.xaas \cup {m}} = UNION {k.sites : k \in s.xaas}
    BY <2>1
  <2>5. PointsOK(s.xaas \cup {m})
    BY <1>1, <2>1, <2>2, <2>3, <2>4, HasTopUnion DEF PointsOK
  <2> QED BY <2>5, NewPoints DEF AddXaas, m
<1>3. DocOK(DeleteXaas(s, id))
  <2> DEFINE X == {n \in s.xaas : n.id # id}
  <2>1. /\ {k.region : k \in X} \subseteq {k.region : k \in s.xaas}
        /\ UNION {k.sites : k \in X} \subseteq UNION {k.sites : k \in s.xaas}
        /\ X \subseteq s.xaas
    OBVIOUS
  <2> HIDE DEF X
  <2>3. PointsOK(X)
    BY <1>1, <2>1, IdsOfSubset, HasTopSubset DEF PointsOK
  <2> QED BY <2>3, NewPoints DEF DeleteXaas, X
<1>4. ASSUME NEW S, HasTop(S) PROVE DocOK(UpdateXaas(s, id, [sites |-> S]))
  <2> DEFINE p == [sites |-> S]
             X == Patched(s.xaas, id, p)
  <2>1. \A m \in s.xaas : /\ DOMAIN With(m, p) = PointFields
                          /\ With(m, p).region = m.region /\ With(m, p).sites = S
    BY <1>1 DEF With, PointFields
  <2>2. "id" \notin DOMAIN p /\ \A m \in s.xaas : "id" \in DOMAIN m
    BY <1>1 DEF PointFields
  <2> HIDE DEF p
  <2>3. Ids(X) = Ids(s.xaas) /\ \A m \in X : \E n \in s.xaas : m.id = n.id /\ (m = n \/ m = With(n, p))
    BY <2>2, PatchedNodes
  <2> HIDE DEF X
  <2>4. \A m \in X : DOMAIN m = PointFields /\ m.id \in Pos
    BY <1>1, <2>1, <2>3
  <2>5. /\ {m.region : m \in X} \subseteq {m.region : m \in s.xaas}
        /\ UNION {m.sites : m \in X} \subseteq (UNION {m.sites : m \in s.xaas}) \cup S
    BY <2>1, <2>3
  <2>6. HasTop((UNION {m.sites : m \in s.xaas}) \cup S)
    BY <1>1, <1>4, HasTopUnion
  <2>7. PointsOK(X)
    BY <1>1, <2>3, <2>4, <2>5, <2>6, HasTopSubset DEF PointsOK
  <2> QED BY <2>7, NewPoints DEF UpdateXaas, X, p
<1> QED BY <1>2, <1>3, <1>4

-----------------------------------------------------------------------------
(* What an import makes of a scan, and how it is merged.                   *)

(* An imported document: its regions, countries, cities and sites are a    *)
(* tree of their own, a site is told from others by its id alone.          *)
IncomingOK(in) ==
  /\ TreeOK(in.regions, in.countries, in.cities, in.sites)
  /\ \A m, n \in in.sites : m.id = n.id => m = n
  /\ \A n \in in.sites : n = [f \in SiteFields |-> n[f]]
  /\ BoxesOK(in.niosx)

(* Numbers from free on, one for each entry.                               *)
LEMMA NumbersFrom ==
  ASSUME NEW free \in Nat, NEW D, NEW n \in Nat, D = 1 .. n
  PROVE  HasTop({free + i : i \in D}) /\ \A i \in D : free + i \in Pos
<1>1. \A i \in D : free + i \in Pos /\ free + i <= free + n
  BY DEF Pos
<1>2. free + n \in Nat
  OBVIOUS
<1> QED BY <1>1, <1>2 DEF HasTop, Pos

(* A site the importer makes, in a city.                                   *)
LEMMA ImportedSites ==
  ASSUME NEW id \in Pos, NEW of \in Pos, NEW site
  PROVE  LET m == With(ImportedSite(id, site), [of |-> of])
         IN  /\ DOMAIN m = SiteFields /\ m.id = id /\ m.of = of /\ DOMAIN m.field = Fields
             /\ m.name = site.name
BY DEF With, ImportedSite, SiteFields

(* It is a record of the fields of a site.                                 *)
LEMMA ImportedRecord ==
  ASSUME NEW id, NEW of, NEW site
  PROVE  LET m == With(ImportedSite(id, site), [of |-> of])
         IN  m = [f \in SiteFields |-> m[f]]
BY DEF With, ImportedSite, SiteFields

(* A tree with one node of each kind for every entry, some of which may    *)
(* coincide.                                                               *)
EntriesOK(D, r, k, c, n) ==
  /\ \A i \in D : /\ DOMAIN r[i] = {"id", "key"} /\ r[i].id \in Pos
                  /\ k[i] \in [id : Pos, of : Pos] /\ k[i].of = r[i].id
                  /\ c[i] \in [id : Pos, of : Pos] /\ c[i].of = k[i].id
                  /\ DOMAIN n[i] = SiteFields /\ n[i].id \in Pos /\ n[i].of = c[i].id
                  /\ DOMAIN n[i].field = Fields
  /\ \A i, j \in D : n[i].id = n[j].id => i = j
  /\ HasTop({r[i].id : i \in D}) /\ HasTop({k[i].id : i \in D})
  /\ HasTop({c[i].id : i \in D}) /\ HasTop({n[i].id : i \in D})

(* The nodes of such entries are a tree.                                   *)
LEMMA TreeOfEntries ==
  ASSUME NEW D, NEW r, NEW k, NEW c, NEW n, EntriesOK(D, r, k, c, n)
  PROVE  TreeOK({r[i] : i \in D}, {k[i] : i \in D}, {c[i] : i \in D}, {n[i] : i \in D})
<1> DEFINE R == {r[i] : i \in D}
           C == {k[i] : i \in D}
           T == {c[i] : i \in D}
           S == {n[i] : i \in D}
<1>1. /\ Ids(R) = {r[i].id : i \in D} /\ Ids(C) = {k[i].id : i \in D}
      /\ Ids(T) = {c[i].id : i \in D} /\ Ids(S) = {n[i].id : i \in D}
  BY DEF Ids
<1>2. /\ \A q \in R : DOMAIN q = {"id", "key"} /\ q.id \in Pos
      /\ C \subseteq [id : Pos, of : Pos] /\ T \subseteq [id : Pos, of : Pos]
  <2> DEFINE Node == [id : Pos, of : Pos]
  <2>1. \A i \in D : r[i].id \in Pos /\ DOMAIN r[i] = {"id", "key"} /\ k[i] \in Node /\ c[i] \in Node
    BY DEF EntriesOK
  <2> HIDE DEF Node
  <2>2. C \subseteq Node /\ T \subseteq Node
    BY <2>1
  <2>3. ASSUME NEW q \in R PROVE DOMAIN q = {"id", "key"} /\ q.id \in Pos
    <3>1. PICK i \in D : q = r[i]
      OBVIOUS
    <3> QED BY <2>1, <3>1
  <2> QED BY <2>2, <2>3 DEF Node
<1>3. \A i \in D : /\ DOMAIN n[i] = SiteFields /\ n[i].id \in Pos /\ n[i].of \in Pos
                   /\ DOMAIN n[i].field = Fields
  BY DEF EntriesOK
<1>4. \A m \in S : DOMAIN m = SiteFields /\ m.id \in Pos /\ m.of \in Pos /\ DOMAIN m.field = Fields
  BY <1>3
<1>5. /\ \A q \in C : \E x \in R : q.of = x.id
      /\ \A q \in T : \E x \in C : q.of = x.id
      /\ \A m \in S : \E x \in T : m.of = x.id
  BY DEF EntriesOK
<1>6. \A m, q \in S : m.id = q.id => m = q
  BY DEF EntriesOK
<1> HIDE DEF R, C, T, S
<1>7. TreeOK(R, C, T, S)
  BY <1>1, <1>2, <1>4, <1>5, <1>6 DEF TreeOK, EntriesOK, R, C, T, S
<1> QED BY <1>7 DEF R, C, T, S

(* Groups of a scan become regions, countries, cities and sites, their     *)
(* sites with ids above those in use.                                      *)
LEMMA Groups ==
  ASSUME NEW scan, IsScan(scan), NEW free,
         free.region \in Nat, free.country \in Nat, free.city \in Nat, free.site \in Nat
  PROVE  LET in == ImportGroups(scan, free)
         IN  /\ TreeOK(in.regions, in.countries, in.cities, in.sites)
             /\ \A m, n \in in.sites : m.id = n.id => m = n
             /\ \A n \in in.sites : n = [f \in SiteFields |-> n[f]]
             /\ \A n \in in.sites : n.id > free.site
<1> DEFINE D == DOMAIN scan.groups
           r == [i \in D |-> [id |-> free.region + i, key |-> scan.groups[i].key]]
           k == [i \in D |-> [id |-> free.country + i, of |-> free.region + i]]
           c == [i \in D |-> [id |-> free.city + i, of |-> free.country + i]]
           n == [i \in D |-> With(ImportedSite(free.site + i, scan.groups[i].site),
                                 [of |-> free.city + i])]
<1>1. \E top \in Nat : D = 1 .. top
  BY DEF IsScan
<1>2. ImportGroups(scan, free) = [regions |-> {r[i] : i \in D}, countries |-> {k[i] : i \in D},
                                  cities |-> {c[i] : i \in D}, sites |-> {n[i] : i \in D}]
  BY DEF ImportGroups
<1> HIDE DEF D
<1>3. /\ HasTop({free.region + i : i \in D}) /\ HasTop({free.country + i : i \in D})
      /\ HasTop({free.city + i : i \in D}) /\ HasTop({free.site + i : i \in D})
      /\ \A i \in D : /\ free.region + i \in Pos /\ free.country + i \in Pos
                      /\ free.city + i \in Pos /\ free.site + i \in Pos
  BY <1>1, NumbersFrom
<1>4. \A i \in D : /\ DOMAIN n[i] = SiteFields /\ n[i].id = free.site + i
                   /\ n[i].of = free.city + i /\ DOMAIN n[i].field = Fields
  BY <1>3, ImportedSites
<1>10. ASSUME NEW m \in {n[i] : i \in D} PROVE m = [f \in SiteFields |-> m[f]]
  <2>1. PICK i \in D : m = n[i]
    OBVIOUS
  <2>2. n[i] = With(ImportedSite(free.site + i, scan.groups[i].site), [of |-> free.city + i])
    OBVIOUS
  <2> HIDE DEF n
  <2> QED BY <2>1, <2>2, ImportedRecord
<1> HIDE DEF n
<1>5. \A i \in D : /\ DOMAIN r[i] = {"id", "key"} /\ r[i].id = free.region + i
                   /\ k[i] \in [id : Pos, of : Pos] /\ k[i].id = free.country + i
                   /\ k[i].of = free.region + i
                   /\ c[i] \in [id : Pos, of : Pos] /\ c[i].id = free.city + i
                   /\ c[i].of = free.country + i
  BY <1>3
<1> HIDE DEF r, k, c
<1>6. /\ HasTop({r[i].id : i \in D}) /\ HasTop({k[i].id : i \in D})
      /\ HasTop({c[i].id : i \in D}) /\ HasTop({n[i].id : i \in D})
  <2>1. /\ {r[i].id : i \in D} = {free.region + i : i \in D}
        /\ {k[i].id : i \in D} = {free.country + i : i \in D}
        /\ {c[i].id : i \in D} = {free.city + i : i \in D}
        /\ {n[i].id : i \in D} = {free.site + i : i \in D}
    BY <1>4, <1>5
  <2> QED BY <1>3, <2>1
<1>7. \A i, j \in D : n[i].id = n[j].id => i = j
  <2>1. \A i, j \in D : free.site + i = free.site + j => i = j
    BY <1>1
  <2> QED BY <1>4, <2>1
<1>8. TreeOK({r[i] : i \in D}, {k[i] : i \in D}, {c[i] : i \in D}, {n[i] : i \in D})
  <2>1. \A i \in D : /\ DOMAIN r[i] = {"id", "key"} /\ r[i].id \in Pos
                     /\ k[i] \in [id : Pos, of : Pos] /\ k[i].of = r[i].id
                     /\ c[i] \in [id : Pos, of : Pos] /\ c[i].of = k[i].id
                     /\ DOMAIN n[i] = SiteFields /\ n[i].id \in Pos /\ n[i].of = c[i].id
                     /\ DOMAIN n[i].field = Fields
    BY <1>3, <1>4, <1>5
  <2>2. EntriesOK(D, r, k, c, n)
    BY <1>6, <1>7, <2>1 DEF EntriesOK
  <2> QED BY <2>2, TreeOfEntries
<1>9. \A i \in D : n[i].id > free.site
  <2>1. \A i \in D : free.site + i > free.site
    BY <1>1
  <2> QED BY <1>4, <2>1
<1> QED BY <1>2, <1>7, <1>8, <1>9, <1>10

(* Members of a scan become sites of one city, their ids above those in    *)
(* use.                                                                    *)
LEMMA Grid ==
  ASSUME NEW scan, IsScan(scan), scan.members # <<>>, NEW free,
         free.region \in Nat, free.country \in Nat, free.city \in Nat, free.site \in Nat
  PROVE  LET in == ImportGrid(scan, free)
         IN  /\ TreeOK(in.regions, in.countries, in.cities, in.sites)
             /\ \A m, n \in in.sites : m.id = n.id => m = n
             /\ \A n \in in.sites : n = [f \in SiteFields |-> n[f]]
             /\ \A n \in in.sites : n.id > free.site
<1> DEFINE D == DOMAIN scan.members
           country(i) == First({j \in D : scan.members[j].country = scan.members[i].country})
           city(i)    == First({j \in D : /\ scan.members[j].country = scan.members[i].country
                                          /\ scan.members[j].city = scan.members[i].city})
           r == [i \in D |-> [id |-> free.region + 1, key |-> GridKey]]
           k == [i \in D |-> [id |-> free.country + country(i), of |-> free.region + 1]]
           c == [i \in D |-> [id |-> free.city + city(i), of |-> free.country + country(i)]]
           n == [i \in D |-> With(ImportedSite(free.site + i, scan.members[i]),
                                 [of |-> free.city + city(i)])]
<1>1. PICK top \in Nat : D = 1 .. top
  BY DEF IsScan
<1>2. 1 \in D
  BY <1>1 DEF IsScan
<1>3. D \in SUBSET Nat
  BY <1>1
<1>4. \A i \in D : country(i) \in D
  <2> TAKE i \in D
  <2> DEFINE same == {j \in D : scan.members[j].country = scan.members[i].country}
  <2>1. same # {} /\ same \in SUBSET D
    OBVIOUS
  <2>2. First(same) \in same
    <3> HIDE DEF same, D
    <3> QED BY <1>3, <2>1, FirstIsLeast
  <2> QED BY <2>2
<1>5. \A i \in D : /\ city(i) \in D
                   /\ scan.members[city(i)].country = scan.members[i].country
  <2> TAKE i \in D
  <2> DEFINE same == {j \in D : /\ scan.members[j].country = scan.members[i].country
                               /\ scan.members[j].city = scan.members[i].city}
  <2>1. same # {} /\ same \in SUBSET D
    OBVIOUS
  <2>2. First(same) \in same
    <3> HIDE DEF same, D
    <3> QED BY <1>3, <2>1, FirstIsLeast
  <2> QED BY <2>2
<1>6. ImportGrid(scan, free) = [regions |-> {r[i] : i \in D}, countries |-> {k[i] : i \in D},
                                cities |-> {c[i] : i \in D}, sites |-> {n[i] : i \in D}]
  <2>1. {r[i] : i \in D} = {[id |-> free.region + 1, key |-> GridKey]}
    <3> HIDE DEF D
    <3> QED BY <1>2
  <2>2. /\ {k[i] : i \in D} = {[id |-> free.country + country(i), of |-> free.region + 1] : i \in D}
        /\ {c[i] : i \in D} = {[id |-> free.city + city(i), of |-> free.country + country(i)] : i \in D}
        /\ {n[i] : i \in D} = {With(ImportedSite(free.site + i, scan.members[i]),
                                   [of |-> free.city + city(i)]) : i \in D}
    <3> HIDE DEF D, country, city
    <3> QED OBVIOUS
  <2> HIDE DEF r, k, c, n
  <2> QED BY <2>1, <2>2 DEF ImportGrid
<1> HIDE DEF D, country, city
<1>7. /\ HasTop({free.country + i : i \in D}) /\ HasTop({free.city + i : i \in D})
      /\ HasTop({free.site + i : i \in D})
      /\ \A i \in D : /\ free.country + i \in Pos /\ free.city + i \in Pos /\ free.site + i \in Pos
  BY <1>1, NumbersFrom
<1>8. free.region + 1 \in Pos
  BY DEF Pos
<1>9. \A i \in D : /\ DOMAIN n[i] = SiteFields /\ n[i].id = free.site + i
                   /\ n[i].of = free.city + city(i) /\ DOMAIN n[i].field = Fields
  BY <1>5, <1>7, ImportedSites
<1>15. ASSUME NEW m \in {n[i] : i \in D} PROVE m = [f \in SiteFields |-> m[f]]
  <2>1. PICK i \in D : m = n[i]
    OBVIOUS
  <2>2. n[i] = With(ImportedSite(free.site + i, scan.members[i]), [of |-> free.city + city(i)])
    OBVIOUS
  <2> HIDE DEF n
  <2> QED BY <2>1, <2>2, ImportedRecord
<1> HIDE DEF n
<1>10. \A i \in D : /\ DOMAIN r[i] = {"id", "key"} /\ r[i].id = free.region + 1
                    /\ k[i] \in [id : Pos, of : Pos] /\ k[i].id = free.country + country(i)
                    /\ k[i].of = free.region + 1
                    /\ c[i] \in [id : Pos, of : Pos] /\ c[i].id = free.city + city(i)
                    /\ c[i].of = free.country + country(i)
  BY <1>4, <1>5, <1>7, <1>8
<1> HIDE DEF r, k, c
<1>11. /\ HasTop({r[i].id : i \in D}) /\ HasTop({k[i].id : i \in D})
       /\ HasTop({c[i].id : i \in D}) /\ HasTop({n[i].id : i \in D})
  <2>1. /\ {r[i].id : i \in D} \subseteq {free.region + 1}
        /\ {k[i].id : i \in D} \subseteq {free.country + i : i \in D}
        /\ {c[i].id : i \in D} \subseteq {free.city + i : i \in D}
        /\ {n[i].id : i \in D} \subseteq {free.site + i : i \in D}
    BY <1>4, <1>5, <1>9, <1>10
  <2>2. HasTop({free.region + 1})
    BY <1>8, HasTopOne DEF Pos
  <2> QED BY <1>7, <2>1, <2>2, HasTopSubset
<1>12. \A i, j \in D : n[i].id = n[j].id => i = j
  <2>1. \A i, j \in Nat : free.site + i = free.site + j => i = j
    OBVIOUS
  <2> QED BY <1>3, <1>9, <2>1
<1>13. TreeOK({r[i] : i \in D}, {k[i] : i \in D}, {c[i] : i \in D}, {n[i] : i \in D})
  <2>1. \A i \in D : /\ DOMAIN r[i] = {"id", "key"} /\ r[i].id \in Pos
                     /\ k[i] \in [id : Pos, of : Pos] /\ k[i].of = r[i].id
                     /\ c[i] \in [id : Pos, of : Pos] /\ c[i].of = k[i].id
                     /\ DOMAIN n[i] = SiteFields /\ n[i].id \in Pos /\ n[i].of = c[i].id
                     /\ DOMAIN n[i].field = Fields
    BY <1>7, <1>8, <1>9, <1>10
  <2>2. EntriesOK(D, r, k, c, n)
    BY <1>11, <1>12, <2>1 DEF EntriesOK
  <2> QED BY <2>2, TreeOfEntries
<1>14. \A i \in D : n[i].id > free.site
  <2>1. \A i \in D : free.site + i > free.site
    BY <1>1
  <2> QED BY <1>9, <2>1
<1> QED BY <1>6, <1>12, <1>13, <1>14, <1>15

(* Members of a scan become members of the document, assigned to their     *)
(* sites or to none.                                                       *)
LEMMA Members ==
  ASSUME NEW scan, IsScan(scan), NEW free, free.site \in Nat, free.box \in Nat
  PROVE  LET members == ImportMembers(scan, free)
         IN  /\ BoxesOK(members)
             /\ BoxesOK({[m EXCEPT !.site = free.site + (m.id - free.box)] : m \in members})
<1> DEFINE D == DOMAIN scan.members
           box(i) == [id |-> free.box + i, name |-> scan.members[i].name, site |-> 0,
                      tier |-> "M", manual |-> FALSE]
           link(m) == [m EXCEPT !.site = free.site + (m.id - free.box)]
           B == {box(i) : i \in D}
           L == {link(m) : m \in B}
<1>1. PICK top \in Nat : D = 1 .. top
  BY DEF IsScan
<1>2. ImportMembers(scan, free) = B
  BY DEF ImportMembers
<1> HIDE DEF D
<1>3. /\ HasTop({free.box + i : i \in D}) /\ HasTop({free.site + i : i \in D})
      /\ \A i \in D : free.box + i \in Pos
  BY <1>1, NumbersFrom
<1>4. \A i \in D : /\ DOMAIN box(i) = BoxFields /\ box(i).id = free.box + i /\ box(i).site = 0
                   /\ DOMAIN link(box(i)) = BoxFields /\ link(box(i)).id = free.box + i
                   /\ link(box(i)).site = free.site + i
  <2> TAKE i \in D
  <2>1. i \in Nat
    BY <1>1
  <2>2. free.site + ((free.box + i) - free.box) = free.site + i
    BY <2>1
  <2> QED BY <2>2 DEF BoxFields
<1>5. L = {link(box(i)) : i \in D}
  BY ZenonT(30)
<1> HIDE DEF box, link, L
<1>6. Ids(B) = {free.box + i : i \in D} /\ Ids(L) = {free.box + i : i \in D}
  BY <1>4, <1>5 DEF Ids
<1>7. /\ {m.site : m \in B} \subseteq {0}
      /\ {m.site : m \in L} \subseteq {free.site + i : i \in D}
  BY <1>4, <1>5
<1>8. HasTop({m.site : m \in B}) /\ HasTop({m.site : m \in L})
  BY <1>3, <1>7, HasTopSubset, HasTopOne
<1>9. \A m \in B \cup L : DOMAIN m = BoxFields /\ m.id \in Pos
  BY <1>3, <1>4, <1>5
<1>10. BoxesOK(B) /\ BoxesOK(L)
  BY <1>3, <1>6, <1>8, <1>9 DEF BoxesOK
<1> QED BY <1>2, <1>10 DEF L, link

(* What the importers make of a scan, with ids that are not in use.        *)
LEMMA Imported ==
  ASSUME NEW scan, IsScan(scan), NEW free, free.region \in Nat, free.country \in Nat,
         free.city \in Nat, free.site \in Nat, free.box \in Nat
  PROVE  LET in == ImportFromScan(scan, free)
         IN  IncomingOK(in) /\ \A n \in in.sites : n.id > free.site
<1> DEFINE members == ImportMembers(scan, free)
           linked  == {[m EXCEPT !.site = free.site + (m.id - free.box)] : m \in members}
<1>1. BoxesOK(members) /\ BoxesOK(linked)
  BY Members, ZenonT(30)
<1> HIDE DEF members, linked
<1>2. CASE scan.groups = <<>> /\ scan.members # <<>>
  <2> DEFINE g == ImportGrid(scan, free)
  <2>1. ImportFromScan(scan, free) = With(g, [niosx |-> linked])
    BY <1>2 DEF ImportFromScan, members, linked
  <2>2. DOMAIN g = {"regions", "countries", "cities", "sites"}
    BY DEF ImportGrid
  <2>3. /\ TreeOK(g.regions, g.countries, g.cities, g.sites)
        /\ \A m, n \in g.sites : m.id = n.id => m = n
        /\ \A n \in g.sites : n = [f \in SiteFields |-> n[f]]
        /\ \A n \in g.sites : n.id > free.site
    BY <1>2, Grid
  <2> HIDE DEF g
  <2> DEFINE in == With(g, [niosx |-> linked])
  <2>4. /\ in.regions = g.regions /\ in.countries = g.countries /\ in.cities = g.cities
        /\ in.sites = g.sites /\ in.niosx = linked
    BY <2>2 DEF With
  <2> HIDE DEF in
  <2>5. IncomingOK(in) /\ \A n \in in.sites : n.id > free.site
    BY <1>1, <2>3, <2>4 DEF IncomingOK
  <2> QED BY <2>1, <2>5 DEF in
<1>3. CASE ~ (scan.groups = <<>> /\ scan.members # <<>>)
  <2> DEFINE g == ImportGroups(scan, free)
  <2>1. ImportFromScan(scan, free) = With(g, [niosx |-> members])
    BY <1>3 DEF ImportFromScan, members
  <2>2. DOMAIN g = {"regions", "countries", "cities", "sites"}
    BY DEF ImportGroups
  <2>3. /\ TreeOK(g.regions, g.countries, g.cities, g.sites)
        /\ \A m, n \in g.sites : m.id = n.id => m = n
        /\ \A n \in g.sites : n = [f \in SiteFields |-> n[f]]
        /\ \A n \in g.sites : n.id > free.site
    BY <1>3, Groups
  <2> HIDE DEF g
  <2> DEFINE in == With(g, [niosx |-> members])
  <2>4. /\ in.regions = g.regions /\ in.countries = g.countries /\ in.cities = g.cities
        /\ in.sites = g.sites /\ in.niosx = members
    BY <2>2 DEF With
  <2> HIDE DEF in
  <2>5. IncomingOK(in) /\ \A n \in in.sites : n.id > free.site
    BY <1>1, <2>3, <2>4 DEF IncomingOK
  <2> QED BY <2>1, <2>5 DEF in
<1> QED BY <1>2, <1>3

(* What is filled into one region: nodes that were there, and the new      *)
(* country, city and sites.                                                *)
FilledFrom(s, r, nodes, country, city, u) ==
  /\ u.countries \subseteq [id : Pos, of : Pos] /\ u.cities \subseteq [id : Pos, of : Pos]
  /\ s.countries \subseteq u.countries /\ s.cities \subseteq u.cities /\ s.sites \subseteq u.sites
  /\ \A k \in u.countries : k \in s.countries \/ (k.id = country /\ k.of = r.id)
  /\ \A c \in u.cities : c \in s.cities \/ (c.id = city /\ \E k \in u.countries : c.of = k.id)
  /\ \A n \in u.sites : \/ n \in s.sites
                        \/ \E m \in nodes, c \in u.cities : n = With(m, [of |-> c.id])

(* Sites put into one region leave the others alone.                       *)
LEMMA OneRegionFilled ==
  ASSUME NEW s, DocOK(s), NEW r \in s.regions, NEW nodes, NEW country \in Pos, NEW city \in Pos
  PROVE  FilledFrom(s, r, nodes, country, city, UnderFirstCity(s, r.id, nodes, country, city))
<1> DEFINE u == UnderFirstCity(s, r.id, nodes, country, city)
<1>1. PICK k, c : PlaceIn(s, r.id, country, city, k, c) /\ u = Settled(s, k, c, nodes)
  BY UnderFirst
<1> HIDE DEF u
<1>2. /\ u.countries = s.countries \cup {k} /\ u.cities = s.cities \cup {c}
      /\ u.sites = s.sites \cup {With(n, [of |-> c.id]) : n \in nodes}
  BY <1>1 DEF Settled, DocOK, Empty
<1>3. s.countries \subseteq [id : Pos, of : Pos] /\ s.cities \subseteq [id : Pos, of : Pos]
  BY DEF DocOK, TreeOK
<1>4. /\ k \in [id : Pos, of : Pos] /\ c \in [id : Pos, of : Pos]
      /\ k \in s.countries \/ (k.id = country /\ k.of = r.id)
      /\ c \in s.cities \/ (c.id = city /\ c.of = k.id)
  BY <1>1 DEF PlaceIn
<1> DEFINE put(n) == With(n, [of |-> c.id])
<1> HIDE DEF put
<1>6. u.sites = s.sites \cup {put(n) : n \in nodes}
  BY <1>2 DEF put
<1>7. \A n \in u.sites : n \in s.sites \/ \E m \in nodes : n = put(m)
  BY <1>6
<1>8. \A n \in u.sites : n \in s.sites \/ \E m \in nodes, d \in u.cities : n = With(m, [of |-> d.id])
  BY <1>2, <1>7 DEF put
<1>9. /\ u.countries \subseteq [id : Pos, of : Pos] /\ u.cities \subseteq [id : Pos, of : Pos]
      /\ s.countries \subseteq u.countries /\ s.cities \subseteq u.cities /\ s.sites \subseteq u.sites
  <2> DEFINE Node == [id : Pos, of : Pos]
  <2> HIDE DEF Node
  <2>1. s.countries \subseteq Node /\ s.cities \subseteq Node /\ k \in Node /\ c \in Node
    BY <1>3, <1>4 DEF Node
  <2>2. u.countries \subseteq Node /\ u.cities \subseteq Node
    BY <1>2, <2>1
  <2> QED BY <1>2, <1>6, <2>2 DEF Node
<1>10. /\ \A q \in u.countries : q \in s.countries \/ (q.id = country /\ q.of = r.id)
       /\ \A q \in u.cities : q \in s.cities \/ (q.id = city /\ \E j \in u.countries : q.of = j.id)
  <2>1. k \in u.countries
    BY <1>2
  <2>2. ASSUME NEW q \in u.countries PROVE q \in s.countries \/ q = k
    BY <1>2
  <2>3. ASSUME NEW q \in u.cities PROVE q \in s.cities \/ q = c
    BY <1>2
  <2>4. /\ k \in s.countries \/ (k.id = country /\ k.of = r.id)
        /\ c \in s.cities \/ (c.id = city /\ c.of = k.id)
    BY <1>4
  <2>5. ASSUME NEW q \in u.countries PROVE q \in s.countries \/ (q.id = country /\ q.of = r.id)
    BY <2>2, <2>4
  <2>6. ASSUME NEW q \in u.cities
        PROVE  q \in s.cities \/ (q.id = city /\ \E j \in u.countries : q.of = j.id)
    BY <2>1, <2>3, <2>4
  <2> QED BY <2>5, <2>6
<1>5. FilledFrom(s, r, nodes, country, city, u)
  BY <1>8, <1>9, <1>10 DEF FilledFrom
<1> QED BY <1>5 DEF u

(* The place of a region among those that are filled.                      *)
LEMMA Ranks ==
  ASSUME NEW S \in SUBSET Pos, NEW n \in S
  PROVE  /\ Cardinality({i \in S : i <= n}) \in Pos
         /\ Cardinality({i \in S : i <= n}) <= n
<1> DEFINE T == {i \in S : i <= n}
<1>0. \A i \in S : i \in Nat /\ 1 <= i
  BY DEF Pos
<1>1. T \subseteq 1 .. n /\ n \in T /\ n \in Nat
  BY <1>0
<1>2. IsFiniteSet(1 .. n) /\ Cardinality(1 .. n) = n
  BY <1>1, FS_Interval DEF Pos
<1> HIDE DEF T
<1>3. IsFiniteSet(T) /\ Cardinality(T) <= n
  BY <1>1, <1>2, FS_Subset
<1>4. Cardinality(T) \in Nat /\ Cardinality(T) # 0
  BY <1>1, <1>3, FS_CardinalityType, FS_EmptySet
<1> QED BY <1>3, <1>4 DEF T, Pos

(* Sites of an import put into regions that are there make a document; its *)
(* other parts stay.                                                       *)
LEMMA Filled ==
  ASSUME NEW s, DocOK(s), NEW in, IncomingOK(in), \A n \in in.sites : \A m \in s.sites : m.id # n.id,
         NEW free, free.country \in Nat, free.city \in Nat
  PROVE  LET t == FillRegions(s, in, free)
         IN  /\ DocOK(t)
             /\ t = [s EXCEPT !.countries = t.countries, !.cities = t.cities, !.sites = t.sites]
             /\ s.countries \subseteq t.countries /\ s.cities \subseteq t.cities
             /\ s.sites \subseteq t.sites
             /\ \A m \in t.sites : m \in s.sites \/ \E a \in in.sites : m = With(a, [of |-> m.of])
<1> DEFINE matched   == {r \in s.regions : r.key \in Keys(in)}
           gaining   == {r \in matched : NewSites(s, in, r.key) # {}}
           rank(r)   == Cardinality({i \in Ids(matched) : i <= r.id})
           filled(r) == UnderFirstCity(s, r.id, NewSites(s, in, r.key),
                                       free.country + rank(r), free.city + rank(r))
           dC == UNION {filled(r).countries : r \in gaining}
           dT == UNION {filled(r).cities : r \in gaining}
           dS == UNION {filled(r).sites : r \in gaining}
           t == [s EXCEPT !.countries = s.countries \cup dC, !.cities = s.cities \cup dT,
                          !.sites = s.sites \cup dS]
<1>1. FillRegions(s, in, free) = t
  BY DEF FillRegions, DocOK, Empty
<1>2. PICK top \in Nat : \A r \in s.regions : r.id <= top
  BY DEF DocOK, TreeOK, HasTop, Ids
<1>3. ASSUME NEW r \in gaining
      PROVE  /\ r \in s.regions
             /\ FilledFrom(s, r, NewSites(s, in, r.key), free.country + rank(r),
                           free.city + rank(r), filled(r))
             /\ free.country + rank(r) <= free.country + top /\ free.city + rank(r) <= free.city + top
  <2>1. r \in s.regions /\ r \in matched
    OBVIOUS
  <2>2. Ids(matched) \in SUBSET Pos /\ r.id \in Ids(matched)
    BY <2>1 DEF Ids, DocOK, TreeOK
  <2>3. rank(r) \in Pos /\ rank(r) <= r.id
    <3> HIDE DEF matched
    <3> QED BY <2>2, Ranks
  <2>4. r.id <= top /\ r.id \in Pos
    BY <1>2, <2>1 DEF DocOK, TreeOK
  <2> DEFINE n == rank(r)
  <2> HIDE DEF rank
  <2>5. free.country + n \in Pos /\ free.city + n \in Pos
        /\ free.country + n <= free.country + top /\ free.city + n <= free.city + top
    <3> HIDE DEF n
    <3>1. n \in Pos /\ n <= r.id
      BY <2>3 DEF n
    <3> QED BY <2>4, <3>1 DEF Pos
  <2>6. FilledFrom(s, r, NewSites(s, in, r.key), free.country + n, free.city + n,
                   UnderFirstCity(s, r.id, NewSites(s, in, r.key), free.country + n, free.city + n))
    <3> HIDE DEF n
    <3> QED BY <2>1, <2>5, OneRegionFilled
  <2> QED BY <2>1, <2>5, <2>6
<1> HIDE DEF gaining, matched, rank, filled
<1>4. /\ \A k \in dC : k \in [id : Pos, of : Pos]
                        /\ (k \in s.countries \/ (k.id <= free.country + top /\ \E r \in s.regions : k.of = r.id))
      /\ \A c \in dT : c \in [id : Pos, of : Pos]
                        /\ (c \in s.cities \/ (c.id <= free.city + top /\ \E k \in dC : c.of = k.id))
  <2>1. ASSUME NEW r \in gaining, NEW k \in filled(r).countries
        PROVE  k \in [id : Pos, of : Pos]
               /\ (k \in s.countries \/ (k.id <= free.country + top /\ \E q \in s.regions : k.of = q.id))
    BY <1>3, <2>1 DEF FilledFrom
  <2>2. ASSUME NEW r \in gaining, NEW c \in filled(r).cities
        PROVE  c \in [id : Pos, of : Pos]
               /\ (c \in s.cities \/ (c.id <= free.city + top /\ \E k \in dC : c.of = k.id))
    <3>1. filled(r).countries \subseteq dC
      OBVIOUS
    <3> HIDE DEF dC
    <3> QED BY <1>3, <2>2, <3>1 DEF FilledFrom
  <2>3. ASSUME NEW k \in dC PROVE \E r \in gaining : k \in filled(r).countries
    OBVIOUS
  <2>4. ASSUME NEW c \in dT PROVE \E r \in gaining : c \in filled(r).cities
    OBVIOUS
  <2> HIDE DEF dC, dT
  <2> QED BY <2>1, <2>2, <2>3, <2>4
<1> DEFINE put(a, c) == With(a, [of |-> c.id])
<1>5. \A n \in dS : \/ n \in s.sites
                    \/ \E a \in in.sites, c \in dT : n = put(a, c)
  <2>1. ASSUME NEW r \in gaining, NEW n \in filled(r).sites
        PROVE  n \in s.sites \/ \E a \in in.sites, c \in dT : n = With(a, [of |-> c.id])
    <3>1. filled(r).cities \subseteq dT
      OBVIOUS
    <3>2. NewSites(s, in, r.key) \subseteq in.sites
      BY DEF NewSites, SitesOfRegion, Within
    <3> HIDE DEF dT
    <3> QED BY <1>3, <2>1, <3>1, <3>2 DEF FilledFrom
  <2> HIDE DEF dT
  <2> QED BY <2>1
<1> HIDE DEF dC, dT, dS
<1>6. \A a \in in.sites : \A c \in dT :
        /\ DOMAIN put(a, c) = SiteFields /\ put(a, c).id = a.id /\ a.id \in Pos
        /\ put(a, c).of = c.id /\ c.id \in Pos /\ DOMAIN put(a, c).field = Fields
  <2>1. \A a \in in.sites : DOMAIN a = SiteFields /\ a.id \in Pos /\ DOMAIN a.field = Fields
    BY DEF IncomingOK, TreeOK
  <2>2. \A c \in dT : c.id \in Pos
    BY <1>4
  <2> QED BY <2>1, <2>2 DEF With, SiteFields
<1>15. \A a \in in.sites, c \in dT : put(a, c) = With(a, [of |-> put(a, c).of])
  BY <1>6
<1> HIDE DEF put
<1>7. ASSUME NEW n \in dS
      PROVE  /\ DOMAIN n = SiteFields /\ n.id \in Pos /\ n.of \in Pos /\ DOMAIN n.field = Fields
             /\ \E c \in s.cities \cup dT : n.of = c.id
  <2>1. CASE n \in s.sites
    <3>1. DOMAIN n = SiteFields /\ n.id \in Pos /\ n.of \in Pos /\ DOMAIN n.field = Fields
      BY <2>1 DEF DocOK, TreeOK
    <3>2. \E c \in s.cities : n.of = c.id
      BY <2>1 DEF DocOK, TreeOK
    <3> QED BY <3>1, <3>2
  <2>2. CASE n \notin s.sites
    <3>1. PICK a \in in.sites, c \in dT : n = put(a, c)
      BY <1>5, <2>2
    <3> QED BY <1>6, <3>1
  <2> QED BY <2>1, <2>2
<1>8. \A n \in dS : \A m \in s.sites \cup dS : m.id = n.id /\ m.of = n.of => m = n
  <2> TAKE n \in dS
  <2> TAKE m \in s.sites \cup dS
  <2> HAVE m.id = n.id /\ m.of = n.of
  <2>1. CASE n \in s.sites /\ m \in s.sites
    BY <2>1 DEF DocOK, TreeOK
  <2>2. CASE n \in s.sites /\ m \notin s.sites
    BY <1>5, <1>6, <2>2
  <2>3. CASE n \notin s.sites /\ m \in s.sites
    BY <1>5, <1>6, <2>3
  <2>4. CASE n \notin s.sites /\ m \notin s.sites
    <3>1. PICK a \in in.sites, c \in dT : n = put(a, c)
      BY <1>5, <2>4
    <3>2. PICK b \in in.sites, d \in dT : m = put(b, d)
      BY <1>5, <2>4
    <3>3. a = b /\ c.id = d.id
      BY <1>6, <3>1, <3>2 DEF IncomingOK
    <3> QED BY <3>1, <3>2, <3>3 DEF put
  <2> QED BY <2>1, <2>2, <2>3, <2>4
<1>9. HasTop(Ids(dC)) /\ HasTop(Ids(dT)) /\ HasTop(Ids(dS))
  <2>1. HasTop(Ids(s.countries)) /\ HasTop(Ids(s.cities)) /\ HasTop(Ids(s.sites)) /\ HasTop(Ids(in.sites))
    BY DEF DocOK, TreeOK, IncomingOK
  <2>2. Ids(dC) \ Ids(s.countries) \subseteq Nat /\ \A i \in Ids(dC) \ Ids(s.countries) : i <= free.country + top
    BY <1>4 DEF Ids, Pos
  <2>3. Ids(dT) \ Ids(s.cities) \subseteq Nat /\ \A i \in Ids(dT) \ Ids(s.cities) : i <= free.city + top
    BY <1>4 DEF Ids, Pos
  <2>4. HasTop(Ids(dC) \ Ids(s.countries)) /\ HasTop(Ids(dT) \ Ids(s.cities))
    <3>1. free.country + top \in Nat /\ free.city + top \in Nat
      OBVIOUS
    <3> QED BY <2>2, <2>3, <3>1, HasTopBelow
  <2>5. Ids(dS) \subseteq Ids(s.sites) \cup Ids(in.sites)
    BY <1>5, <1>6 DEF Ids
  <2>6. /\ HasTop(Ids(s.countries) \cup (Ids(dC) \ Ids(s.countries)))
        /\ HasTop(Ids(s.cities) \cup (Ids(dT) \ Ids(s.cities)))
        /\ HasTop(Ids(s.sites) \cup Ids(in.sites))
    BY <2>1, <2>4, HasTopUnion
  <2> QED BY <2>5, <2>6, HasTopSubset
<1>10. TreeOK(s.regions \cup {}, s.countries \cup dC, s.cities \cup dT, s.sites \cup dS)
  <2>1. TreeOK(s.regions, s.countries, s.cities, s.sites)
    BY DEF DocOK
  <2>2. /\ \A k \in dC : \E r \in s.regions \cup {} : k.of = r.id
        /\ \A c \in dT : \E k \in s.countries \cup dC : c.of = k.id
    BY <1>4, <2>1 DEF TreeOK
  <2>3. HasTop(Ids({})) /\ dC \subseteq [id : Pos, of : Pos] /\ dT \subseteq [id : Pos, of : Pos]
    <3>1. Ids({}) = {}
      BY DEF Ids
    <3> QED BY <1>4, <3>1, HasTopNone
  <2> QED BY <1>7, <1>8, <1>9, <2>1, <2>2, <2>3, TreeGrows
<1>11. DocOK(t)
  <2>1. t = [s EXCEPT !.regions = s.regions \cup {}, !.countries = s.countries \cup dC,
                      !.cities = s.cities \cup dT, !.sites = s.sites \cup dS]
    BY DEF DocOK, Empty
  <2> HIDE DEF t
  <2> QED BY <1>10, <2>1, NewTree
<1>12. t.countries = s.countries \cup dC /\ t.cities = s.cities \cup dT /\ t.sites = s.sites \cup dS
  BY DEF DocOK, Empty
<1>13. \A m \in t.sites : m \in s.sites \/ \E a \in in.sites : m = With(a, [of |-> m.of])
  BY <1>5, <1>12, <1>15
<1>14. t = [s EXCEPT !.countries = t.countries, !.cities = t.cities, !.sites = t.sites]
  BY <1>12 DEF DocOK, Empty
<1> HIDE DEF t
<1> QED BY <1>1, <1>11, <1>12, <1>13, <1>14

(* What a merge does to a document; it is repeated for the copy.           *)
LEMMA Merged ==
  ASSUME NEW s, DocOK(s), NEW in, IncomingOK(in), \A n \in in.sites : \A m \in s.sites : m.id # n.id,
         NEW free, free.country \in Nat, free.city \in Nat
  PROVE  LET t == Merge(s, in, free)
         IN  /\ DocOK(t)
             /\ t.selected = s.selected
             /\ t.niosx = s.niosx \cup NewMembers(s, in)
<1> DEFINE f == FillRegions(s, in, free)
<1>1. /\ DocOK(f)
      /\ f = [s EXCEPT !.countries = f.countries, !.cities = f.cities, !.sites = f.sites]
      /\ \A m \in f.sites : m \in s.sites \/ \E a \in in.sites : m = With(a, [of |-> m.of])
  BY Filled, ZenonT(30)
<1> HIDE DEF f
<1> DEFINE R == {r \in in.regions : r.key \notin Keys(f)}
           C == Within(in.countries, Ids(R))
           T == Within(in.cities, Ids(C))
           S == Within(in.sites, Ids(T))
           a == [f EXCEPT !.regions = f.regions \cup R, !.countries = f.countries \cup C,
                          !.cities = f.cities \cup T, !.sites = f.sites \cup S]
           B == NewMembers(s, in)
           t == [a EXCEPT !.niosx = s.niosx \cup B]
<1>2. AppendRegions(f, in) = a
  BY <1>1 DEF AppendRegions, DocOK, Empty
<1>3. TreeOK(R, C, T, S)
  <2>1. R \subseteq in.regions
    OBVIOUS
  <2> HIDE DEF R
  <2> QED BY <2>1, TreeShrinks DEF IncomingOK
<1>4. TreeOK(f.regions \cup R, f.countries \cup C, f.cities \cup T, f.sites \cup S)
  <2>1. S \subseteq in.sites
    BY DEF Within
  <2> HIDE DEF R, C, T, S
  <2>2. \A n \in S : \A m \in f.sites \cup S : m.id = n.id /\ m.of = n.of => m = n
    <3> SUFFICES ASSUME NEW n \in S, NEW m \in f.sites \cup S, m.id = n.id, m.of = n.of
                 PROVE  m = n
      OBVIOUS
    <3>1. CASE m \in S
      BY <2>1, <3>1 DEF IncomingOK
    <3>2. CASE m \in s.sites
      BY <2>1, <3>2
    <3>3. CASE m \in f.sites /\ m \notin s.sites
      <4>1. PICK b \in in.sites : m = With(b, [of |-> m.of])
        BY <1>1, <3>3
      <4>2. DOMAIN b = SiteFields /\ DOMAIN n = SiteFields
        BY <2>1 DEF IncomingOK, TreeOK
      <4>3. m.id = b.id
        BY <4>1, <4>2 DEF With, SiteFields
      <4>4. b = n
        BY <2>1, <4>3 DEF IncomingOK
      <4>5. m = With(n, [of |-> n.of])
        BY <4>1, <4>4
      <4>6. n = [x \in SiteFields |-> n[x]]
        BY <2>1 DEF IncomingOK
      <4> QED BY <4>2, <4>5, <4>6 DEF With, SiteFields
    <3> QED BY <3>1, <3>2, <3>3
  <2>3. /\ \A k \in C : \E r \in f.regions \cup R : k.of = r.id
        /\ \A c \in T : \E k \in f.countries \cup C : c.of = k.id
        /\ \A n \in S : \E c \in f.cities \cup T : n.of = c.id
    BY <1>3 DEF TreeOK
  <2>4. /\ \A r \in R : DOMAIN r = {"id", "key"} /\ r.id \in Pos
        /\ C \subseteq [id : Pos, of : Pos] /\ T \subseteq [id : Pos, of : Pos]
        /\ \A n \in S : DOMAIN n = SiteFields /\ n.id \in Pos /\ n.of \in Pos /\ DOMAIN n.field = Fields
        /\ HasTop(Ids(R)) /\ HasTop(Ids(C)) /\ HasTop(Ids(T)) /\ HasTop(Ids(S))
    BY <1>3 DEF TreeOK
  <2>5. TreeOK(f.regions, f.countries, f.cities, f.sites)
    BY <1>1 DEF DocOK
  <2> QED BY <2>2, <2>3, <2>4, <2>5, TreeGrows
<1> HIDE DEF R, C, T, S, B
<1>5. DocOK(a)
  BY <1>1, <1>4, NewTree
<1>6. BoxesOK(s.niosx \cup B)
  <2>1. B \subseteq in.niosx
    BY DEF B, NewMembers
  <2>2. BoxesOK(s.niosx) /\ BoxesOK(in.niosx)
    BY DEF DocOK, IncomingOK
  <2>3. {m.site : m \in s.niosx \cup B} \subseteq {m.site : m \in s.niosx} \cup {m.site : m \in in.niosx}
        /\ Ids(s.niosx \cup B) \subseteq Ids(s.niosx) \cup Ids(in.niosx)
    BY <2>1 DEF Ids
  <2>4. /\ HasTop({m.site : m \in s.niosx} \cup {m.site : m \in in.niosx})
        /\ HasTop(Ids(s.niosx) \cup Ids(in.niosx))
    BY <2>2, HasTopUnion DEF BoxesOK
  <2> QED BY <2>1, <2>2, <2>3, <2>4, HasTopSubset DEF BoxesOK
<1>7. a.niosx = s.niosx /\ a.selected = s.selected
  BY <1>1 DEF DocOK, Empty
<1>8. Merge(s, in, free) = t
  BY <1>2, <1>7 DEF Merge, f, B
<1>9. DocOK(t)
  <2> HIDE DEF a
  <2> QED BY <1>5, <1>6, NewBoxes
<1>10. t.selected = s.selected /\ t.niosx = s.niosx \cup B
  BY <1>5, <1>7 DEF DocOK, Empty
<1> HIDE DEF t
<1> QED BY <1>8, <1>9, <1>10 DEF B

-----------------------------------------------------------------------------
(* What a commit adds to a change, and the two parts of DerivedCurrent.    *)

(* What mounted components add to a change: a selection, and tiers.        *)
SameBut(s, t, fields) == \A f \in DOMAIN Empty \ fields : t[f] = s[f]

(* Selecting the first region for an empty selection changes nothing else. *)
LEMMA Selected ==
  ASSUME NEW s, DocOK(s), NEW p
  PROVE  DocOK(AutoSelect(s, p)) /\ SameBut(s, AutoSelect(s, p), {"selected"})
<1>1. AutoSelect(s, p) = s \/ \E path : AutoSelect(s, p) = Select(s, path)
  BY DEF AutoSelect
<1>2. \A path : SameBut(s, Select(s, path), {"selected"})
  BY DEF SameBut, Select, DocOK, Empty
<1> QED BY <1>1, <1>2, PathAndStep DEF SameBut

(* The rows of step 3 change tiers only.                                   *)
Retiered(s, m) == IF m.manual \/ m.site = 0 THEN m ELSE [m EXCEPT !.tier = Recommended(s, m.site)]

(* The rows of step 3 set tiers while it is on show, and change nothing    *)
(* else.                                                                   *)
LEMMA Tiered ==
  ASSUME NEW s, DocOK(s), NEW v
  PROVE  /\ DocOK(AutoTier(s, v)) /\ SameBut(s, AutoTier(s, v), {"niosx"})
         /\ ~ OnStep(s, v, 3) => AutoTier(s, v) = s
         /\ OnStep(s, v, 3) => AutoTier(s, v).niosx = {Retiered(s, m) : m \in s.niosx}
         /\ {m.name : m \in AutoTier(s, v).niosx} = {m.name : m \in s.niosx}
<1>1. CASE ~ OnStep(s, v, 3)
  <2>1. AutoTier(s, v) = s
    BY <1>1 DEF AutoTier
  <2> QED BY <1>1, <2>1 DEF SameBut
<1>2. CASE OnStep(s, v, 3)
  <2> DEFINE new(m) == Retiered(s, m)
             B == {new(m) : m \in s.niosx}
             t == [s EXCEPT !.niosx = B]
  <2>1. AutoTier(s, v) = t
    BY <1>2 DEF AutoTier, Retiered, DocOK, Empty
  <2>2. \A m \in s.niosx : /\ DOMAIN new(m) = BoxFields /\ new(m).id = m.id /\ m.id \in Pos
                           /\ new(m).site = m.site /\ new(m).name = m.name
    BY DEF DocOK, BoxesOK, BoxFields, Retiered
  <2> HIDE DEF new
  <2>3. /\ Ids(B) = Ids(s.niosx) /\ {m.site : m \in B} = {m.site : m \in s.niosx}
        /\ {m.name : m \in B} = {m.name : m \in s.niosx}
        /\ \A m \in B : DOMAIN m = BoxFields /\ m.id \in Pos
    BY <2>2 DEF Ids
  <2>4. t.niosx = B /\ SameBut(s, t, {"niosx"})
    BY DEF DocOK, Empty, SameBut
  <2> HIDE DEF B
  <2>5. BoxesOK(B)
    BY <2>3 DEF DocOK, BoxesOK
  <2>6. DocOK(t)
    BY <2>5, NewBoxes
  <2> HIDE DEF t
  <2> QED BY <1>2, <2>1, <2>3, <2>4, <2>6 DEF B, new
<1> QED BY <1>1, <1>2

(* A pane is of step 2 and of a region that is there.                      *)
PaneOK == pane # 0 => OnStep(live, view, 2) /\ pane \in Ids(live.regions)

(* The two halves of DerivedCurrent.                                       *)
Current(s, n) ==
  ModeOf(s, n) = "users" /\ n.users > 0 =>
    \A f \in Fields \cap OverridableFields :
      \/ <<n.id, f>> \in s.overrides
      \/ n.field[f] = DeriveFromUsers(n.users, Given(s, n))[f]

(* The form part: derived fields of the sites on show, unless the timer is *)
(* set.                                                                    *)
FormCurrent == OnePlace(live) /\ ~due => \A n \in Shown(live, pane) : Current(live, n)

(* The tier part: the smallest tier that covers the load of the site, or   *)
(* the last.                                                               *)
TierCovers(s, m) ==
  LET i == CHOOSE j \in DOMAIN ServerTiers : ServerTiers[j].name = m.tier
  IN  /\ i = Len(ServerTiers) \/ Covers(ServerTiers[i], SiteLoad(s, m.site))
      /\ i = 1 \/ ~Covers(ServerTiers[i - 1], SiteLoad(s, m.site))

TiersCurrent ==
  OnStep(live, view, 3) =>
    \A m \in live.niosx : ~m.manual /\ m.site \in Ids(live.sites) => TierCovers(live, m)

(* The invariant of the runs is the two parts together.                    *)
LEMMA Halves == DerivedCurrent <=> FormCurrent /\ TiersCurrent
BY DEF DerivedCurrent, FormCurrent, TiersCurrent, Current, TierCovers

(* There are six tiers, told apart by their names.                         *)
LEMMA Sizes ==
  /\ DOMAIN ServerTiers = 1 .. 6 /\ Len(ServerTiers) = 6
  /\ \A i, j \in 1 .. 6 : ServerTiers[i].name = ServerTiers[j].name => i = j
<1>1. DOMAIN ServerTiers = 1 .. 6 /\ Len(ServerTiers) = 6
  BY DEF ServerTiers
<1>2. /\ ServerTiers[1].name = "2XS" /\ ServerTiers[2].name = "XS" /\ ServerTiers[3].name = "S"
      /\ ServerTiers[4].name = "M" /\ ServerTiers[5].name = "L" /\ ServerTiers[6].name = "XL"
  BY DEF ServerTiers
<1>3. \A i \in 1 .. 6 : i = 1 \/ i = 2 \/ i = 3 \/ i = 4 \/ i = 5 \/ i = 6
  OBVIOUS
<1> QED BY <1>1, <1>2, <1>3

(* The recommended tier is the smallest that covers the load, or the last. *)
LEMMA SmallestCovers ==
  ASSUME NEW load
  PROVE  LET i == PickServerTier(load)
         IN  /\ i \in 1 .. 6
             /\ i = 6 \/ Covers(ServerTiers[i], load)
             /\ i = 1 \/ ~ Covers(ServerTiers[i - 1], load)
<1> DEFINE T == {i \in 1 .. 6 : Covers(ServerTiers[i], load)}
           p == PickServerTier(load)
<1>1. p = IF T = {} THEN 6 ELSE First(T)
  BY Sizes DEF PickServerTier, TierFor, SmallestTier, First
<1>2. \A i \in 1 .. 6 : i \in T <=> Covers(ServerTiers[i], load)
  OBVIOUS
<1>3. T \subseteq 1 .. 6
  OBVIOUS
<1> HIDE DEF T, p
<1>4. CASE T = {}
  <2>1. p = 6 /\ 5 \in 1 .. 6 /\ p - 1 = 5
    BY <1>1, <1>4
  <2> QED BY <1>2, <1>4, <2>1 DEF p
<1>5. CASE T # {}
  <2>1. T \in SUBSET Nat
    BY <1>3
  <2>2. p \in T /\ \A j \in T : p <= j
    BY <1>1, <1>5, <2>1, FirstIsLeast
  <2>3. p \in 1 .. 6 /\ Covers(ServerTiers[p], load)
    BY <1>2, <1>3, <2>2
  <2>4. p - 1 \notin T
    BY <2>1, <2>2, <2>3
  <2>5. p = 1 \/ p - 1 \in 1 .. 6
    BY <2>3
  <2> QED BY <1>2, <2>3, <2>4, <2>5 DEF p
<1> QED BY <1>4, <1>5

(* The tier a row sets is the one the invariant asks for.                  *)
LEMMA RecommendedCovers ==
  ASSUME NEW s, NEW m, m.tier = Recommended(s, m.site)
  PROVE  TierCovers(s, m)
<1> DEFINE p == PickServerTier(SiteLoad(s, m.site))
<1>1. /\ p \in 1 .. 6
      /\ p = 6 \/ Covers(ServerTiers[p], SiteLoad(s, m.site))
      /\ p = 1 \/ ~ Covers(ServerTiers[p - 1], SiteLoad(s, m.site))
  BY SmallestCovers
<1>2. m.tier = ServerTiers[p].name
  BY DEF Recommended
<1> HIDE DEF p
<1>3. (CHOOSE j \in DOMAIN ServerTiers : ServerTiers[j].name = m.tier) = p
  BY <1>1, <1>2, Sizes
<1>4. Len(ServerTiers) = 6
  BY Sizes
<1> QED BY <1>1, <1>3, <1>4 DEF TierCovers

(* A site's load is that of its fields, whoever selects or assigns it.     *)
LEMMA SameLoads ==
  ASSUME NEW s, NEW t, SameBut(s, t, {"selected", "niosx"}), NEW site
  PROVE  SiteLoad(t, site) = SiteLoad(s, site)
<1>1. /\ t.regions = s.regions /\ t.countries = s.countries /\ t.cities = s.cities
      /\ t.sites = s.sites
  BY DEF SameBut, Empty
<1>2. \A r : SitesOfRegion(t, r) = SitesOfRegion(s, r)
  BY <1>1 DEF SitesOfRegion, CitiesOfRegion
<1>3. SiteOf(t, site) = SiteOf(s, site)
  BY <1>1, <1>2 DEF SiteOf, PlaceOf
<1> QED BY <1>1, <1>3 DEF SiteLoad

(* What an action commits is a document again, shown as the code shows it, *)
(* and the tiers of a step 3 that is on show follow.                       *)
LEMMA Committed ==
  ASSUME NEW s, DocOK(s), NEW v, NEW p, NEW pending, Commit(s, v, p, pending)
  PROVE  /\ DocOK(live') /\ SameBut(s, live', {"selected", "niosx"})
         /\ PaneOK' /\ TiersCurrent' /\ ((v # "sizer" \/ s.step # 2) => pane' = 0)
         /\ {m.name : m \in live'.niosx} = {m.name : m \in s.niosx}
<1> DEFINE a == AutoSelect(s, pane')
           t == AutoTier(a, v)
<1>1. live' = t /\ view' = v /\ pane' = PaneOf(s, v, p)
  BY DEF Commit
<1>2. DocOK(a) /\ SameBut(s, a, {"selected"})
  BY Selected
<1> HIDE DEF a
<1>3. /\ DocOK(t) /\ SameBut(a, t, {"niosx"})
      /\ ~ OnStep(a, v, 3) => t = a
      /\ OnStep(a, v, 3) => t.niosx = {Retiered(a, m) : m \in a.niosx}
      /\ {m.name : m \in t.niosx} = {m.name : m \in a.niosx}
  BY <1>2, Tiered
<1> HIDE DEF t
<1>4. /\ SameBut(s, t, {"selected", "niosx"}) /\ SameBut(a, t, {"selected", "niosx"})
      /\ t.step = s.step /\ t.regions = s.regions /\ a.step = s.step /\ a.niosx = s.niosx
      /\ t.sites = s.sites
  BY <1>2, <1>3 DEF SameBut, Empty
<1>5. PaneOK'
  <2>1. pane' # 0 => OnStep(s, v, 2) /\ pane' \in Ids(s.regions)
    <3>1. Ids(s.regions) # {} => First(Ids(s.regions)) \in Ids(s.regions)
      <4>1. Ids(s.regions) \in SUBSET Nat
        BY DEF DocOK, TreeOK, HasTop
      <4> QED BY <4>1, FirstIsLeast
    <3>2. s.regions # {} => Ids(s.regions) # {}
      BY DEF Ids
    <3> QED BY <1>1, <3>1, <3>2 DEF PaneOf
  <2> QED BY <1>1, <1>4, <2>1 DEF PaneOK, OnStep
<1>6. (v # "sizer" \/ s.step # 2) => pane' = 0
  BY <1>1 DEF PaneOf, OnStep
<1>7. ASSUME OnStep(t, v, 3), NEW n \in t.niosx, ~ n.manual, n.site \in Ids(t.sites)
      PROVE  TierCovers(t, n)
  <2>1. PICK m \in a.niosx : n = Retiered(a, m)
    BY <1>3, <1>4, <1>7 DEF OnStep
  <2>2. n.site # 0
    BY <1>3, <1>7 DEF DocOK, TreeOK, Ids, Pos
  <2>3. DOMAIN m = BoxFields
    BY <1>2 DEF DocOK, BoxesOK
  <2>4. n = [m EXCEPT !.tier = Recommended(a, m.site)]
    BY <1>7, <2>1, <2>2 DEF Retiered
  <2>5. n.site = m.site /\ n.tier = Recommended(a, m.site)
    BY <2>3, <2>4 DEF BoxFields
  <2>6. TierCovers(a, n)
    BY <2>5, RecommendedCovers
  <2>7. SiteLoad(t, n.site) = SiteLoad(a, n.site)
    BY <1>4, SameLoads
  <2> QED BY <2>6, <2>7 DEF TierCovers
<1>8. TiersCurrent'
  BY <1>1, <1>7 DEF TiersCurrent
<1> QED BY <1>1, <1>3, <1>4, <1>5, <1>6, <1>8

(* The inductive invariant: documents, live and stored, the pane, the      *)
(* timer of the save, and the two parts of DerivedCurrent.                 *)
SizerInv ==
  /\ DocOK(live) /\ DocOK(Loaded(stored))
  /\ PaneOK /\ UnsavedPending /\ FormCurrent /\ TiersCurrent

(* A change of s to t that leaves no stale number in the form: a field of  *)
(* a site stays as it is, or is marked as the user's.                      *)
FormKept(s, t) ==
  /\ s.overrides \subseteq t.overrides
  /\ OnePlace(t) =>
       /\ OnePlace(s)
       /\ \A m \in s.sites, n \in t.sites : m.id = n.id =>
            \A f \in Fields \cap OverridableFields :
              <<n.id, f>> \in t.overrides \/ n.field[f] = m.field[f]

-----------------------------------------------------------------------------
(* The form and its derivation.                                            *)

(* Without a pane no site is on show.                                      *)
LEMMA NoForm == ASSUME NEW s, DocOK(s) PROVE Shown(s, 0) = {} /\ Deps(s, 0) = {}
<1>1. Within(s.countries, {0}) = {}
  BY DEF Within, DocOK, TreeOK, Pos
<1>2. CitiesOfRegion(s, 0) = {}
  BY <1>1 DEF CitiesOfRegion, Within, Ids
<1>3. Shown(s, 0) = {}
  BY <1>2 DEF Shown, SitesOfRegion, Within
<1> QED BY <1>3 DEF Deps

(* Dependencies of the effect of the form tell what is derived.            *)
LEMMA SameDeps ==
  ASSUME NEW s, NEW t, NEW p, NEW q, Deps(t, q) = Deps(s, p), NEW n \in Shown(t, q),
         ModeOf(t, n) = "users", n.users > 0
  PROVE  \E m \in Shown(s, p) : /\ m.id = n.id /\ ModeOf(s, m) = "users" /\ m.users = n.users
                                /\ Given(s, m) = Given(t, n)
<1> DEFINE dep(d, k) == [id |-> k.id, users |-> IF ModeOf(d, k) = "users" THEN k.users ELSE Undefined,
                         given |-> Given(d, k)]
<1>1. dep(t, n) \in Deps(s, p)
  BY DEF Deps
<1>2. PICK m \in Shown(s, p) : dep(t, n) = dep(s, m)
  BY <1>1 DEF Deps
<1>3. /\ m.id = n.id /\ Given(s, m) = Given(t, n)
      /\ n.users = IF ModeOf(s, m) = "users" THEN m.users ELSE Undefined
  BY <1>2
<1>4. n.users # Undefined
  BY DEF Undefined
<1> QED BY <1>3, <1>4

(* After a commit the form on show is current, if the change keeps its     *)
(* fields or no form was or is on show: equal dependencies mean equal      *)
(* derivations, and others set the timer.                                  *)
LEMMA FormStep ==
  ASSUME DocOK(live), FormCurrent, NEW s, DocOK(s), NEW v, NEW p, Commit(s, v, p, due),
         pane = 0 \/ pane' = 0 \/ FormKept(live, s)
  PROVE  FormCurrent'
<1>1. DocOK(live') /\ SameBut(s, live', {"selected", "niosx"})
  BY Committed
<1>2. live'.sites = s.sites /\ live'.overrides = s.overrides
  BY <1>1 DEF SameBut, Empty
<1> SUFFICES ASSUME OnePlace(live'), ~ due', NEW n \in Shown(live', pane'),
                    ModeOf(live', n) = "users", n.users > 0,
                    NEW f \in Fields \cap OverridableFields
             PROVE  \/ <<n.id, f>> \in live'.overrides
                    \/ n.field[f] = DeriveFromUsers(n.users, Given(live', n))[f]
  BY DEF FormCurrent, Current
<1>3. Deps(live', pane') = Deps(live, pane) /\ ~ due
  <2>1. due' = IF Deps(live', pane') = Deps(live, pane) THEN due
               ELSE \E d \in Deps(live', pane') : d.users > 0
    BY DEF Commit
  <2>2. \E d \in Deps(live', pane') : d.users > 0
    <3> DEFINE d == [id |-> n.id, users |-> IF ModeOf(live', n) = "users" THEN n.users ELSE Undefined,
                     given |-> Given(live', n)]
    <3>1. d \in Deps(live', pane')
      BY DEF Deps
    <3>2. d.users > 0
      OBVIOUS
    <3> QED BY <3>1, <3>2
  <2> QED BY <2>1, <2>2
<1>4. PICK m \in Shown(live, pane) :
        /\ m.id = n.id /\ ModeOf(live, m) = "users" /\ m.users = n.users
        /\ Given(live, m) = Given(live', n)
  BY <1>3, SameDeps
<1>5. pane # 0 /\ pane' # 0
  <2>1. pane # 0
    BY <1>4, NoForm
  <2>2. Shown(live', 0) = {}
    BY <1>1, NoForm
  <2> QED BY <2>1, <2>2
<1>6. FormKept(live, s)
  BY <1>5
<1>7. m \in live.sites /\ n \in live'.sites
  BY DEF Shown, SitesOfRegion, Within
<1>8. OnePlace(s)
  BY <1>2 DEF OnePlace
<1>9. OnePlace(live) /\ (<<n.id, f>> \in s.overrides \/ n.field[f] = m.field[f])
  BY <1>2, <1>4, <1>6, <1>7, <1>8 DEF FormKept
<1>10. Current(live, m)
  BY <1>3, <1>9 DEF FormCurrent
<1>11. <<m.id, f>> \in live.overrides \/ m.field[f] = DeriveFromUsers(m.users, Given(live, m))[f]
  BY <1>4, <1>10 DEF Current
<1> QED BY <1>2, <1>4, <1>6, <1>9, <1>11 DEF FormKept

(* A change of the document while the copy stays.                          *)
LEMMA CommitStep ==
  ASSUME SizerInv, NEW s, DocOK(s), NEW v, NEW p, Commit(s, v, p, due), UNCHANGED stored,
         (pane = 0 \/ v # "sizer" \/ s.step # 2) \/ FormKept(live, s)
  PROVE  SizerInv'
<1>1. DocOK(live') /\ PaneOK' /\ TiersCurrent' /\ ((v # "sizer" \/ s.step # 2) => pane' = 0)
  BY Committed
<1>2. FormCurrent'
  BY <1>1, FormStep DEF SizerInv
<1>3. Loaded(stored)' = Loaded(stored)
  BY DEF Loaded
<1>4. UnsavedPending'
  BY <1>3 DEF Commit, SizerInv, UnsavedPending
<1> QED BY <1>1, <1>2, <1>3, <1>4 DEF SizerInv

(* The same for the actions of the reducer.                                *)
LEMMA DispatchStep ==
  ASSUME SizerInv, NEW s, DocOK(s), Dispatch(s), pane = 0 \/ s.step # 2 \/ FormKept(live, s)
  PROVE  SizerInv'
BY CommitStep DEF Dispatch

(* Ids that are not in use.                                                *)
LEMMA NewIds ==
  ASSUME SizerInv
  PROVE  /\ Free.region + 1 \in Pos /\ Free.country + 1 \in Pos /\ Free.city + 1 \in Pos
         /\ Free.site + 1 \in Pos /\ Free.box + 1 \in Pos
         /\ \A m \in live.sites : m.id # Free.site + 1
<1>1. /\ Free.region \in Nat /\ Free.country \in Nat /\ Free.city \in Nat /\ Free.site \in Nat
      /\ Free.box \in Nat
      /\ \A n \in live.sites : n.id <= Free.site
  BY FreeIds DEF SizerInv
<1>2. \A n \in live.sites : n.id \in Nat
  BY DEF SizerInv, DocOK, TreeOK, Pos
<1> QED BY <1>1, <1>2 DEF Pos

-----------------------------------------------------------------------------
(* The steps.                                                              *)

(* Step 1: the tree of regions.                                            *)
LEMMA RegionsPage == ASSUME SizerInv, StepRegions PROVE SizerInv'
<1>1. DocOK(live)
  BY DEF SizerInv
<1>2. OnStep(live, view, 1) => pane = 0
  BY DEF SizerInv, PaneOK, OnStep
<1>3. CASE NewRegion
  BY <1>1, <1>2, <1>3, NewIds, Regions, DispatchStep DEF NewRegion
<1>4. ASSUME NEW r \in live.regions, NewCountry(r) \/ NewSiteInRegion(r) \/ \E k \in Typed : EditRegion(r, k)
      PROVE  SizerInv'
  <2>1. r.id \in Pos /\ r.id \in Ids(live.regions)
    BY <1>1 DEF DocOK, TreeOK, Ids
  <2>2. CASE NewCountry(r)
    <3>1. DocOK(AddCountry(live, r.id, Free.country + 1))
      BY <1>1, <2>1, NewIds, CountriesAndCities
    <3> QED BY <1>2, <2>2, <3>1, DispatchStep DEF NewCountry
  <2>3. CASE NewSiteInRegion(r)
    <3>1. DocOK(AddSiteToRegion(live, r.id, Free.country + 1, Free.city + 1, Free.site + 1))
      BY <1>1, NewIds, AddedSites
    <3> QED BY <1>2, <2>3, <3>1, DispatchStep DEF NewSiteInRegion
  <2>4. ASSUME NEW k \in Typed, EditRegion(r, k) PROVE SizerInv'
    <3>1. DocOK(UpdateRegion(live, r.id, [key |-> k]))
      BY <1>1, <2>1, Regions
    <3> QED BY <1>2, <2>4, <3>1, DispatchStep DEF EditRegion
  <2> QED BY <1>4, <2>2, <2>3, <2>4
<1>5. ASSUME NEW c \in live.countries, NewCity(c) PROVE SizerInv'
  <2>1. DocOK(AddCity(live, c.id, Free.city + 1))
    BY <1>1, NewIds, CountriesAndCities DEF Ids
  <2> QED BY <1>2, <1>5, <2>1, DispatchStep DEF NewCity
<1>6. ASSUME NEW c \in live.cities, NewSiteInCity(c) PROVE SizerInv'
  <2>1. DocOK(AddSiteToCity(live, c.id, Free.site + 1))
    BY <1>1, NewIds, AddedSites
  <2> QED BY <1>2, <1>6, <2>1, DispatchStep DEF NewSiteInCity
<1>7. ASSUME NEW kind, NEW id, SelectNode(kind, id) PROVE SizerInv'
  BY <1>1, <1>2, <1>7, PathAndStep, DispatchStep DEF SelectNode
<1>8. ASSUME NEW kind \in DOMAIN Nodes, NEW id, DeleteNode(kind, id) PROVE SizerInv'
  <2>1. kind \in {"region", "country", "city", "site"}
    BY DEF Nodes
  <2>2. DocOK(Deleted(kind, id))
    BY <1>1, <2>1, Deletions DEF Deleted
  <2>3. DocOK(Select(Deleted(kind, id), <<>>))
    BY <2>2, PathAndStep
  <2> QED BY <1>2, <1>8, <2>3, DispatchStep DEF DeleteNode
<1> QED BY <1>3, <1>4, <1>5, <1>6, <1>7, <1>8 DEF StepRegions

(* Step 3: members and service points.                                     *)
LEMMA InfraPage == ASSUME SizerInv, StepInfra PROVE SizerInv'
<1>1. DocOK(live)
  BY DEF SizerInv
<1>2. OnInfra => pane = 0
  BY DEF SizerInv, PaneOK, OnStep, OnInfra
<1>3. CASE NewNiosx
  BY <1>1, <1>2, <1>3, NewIds, Boxes, DispatchStep DEF NewNiosx
<1>4. ASSUME NEW m \in live.niosx, NEW p, DOMAIN p \subseteq BoxFields \ {"id"},
             "site" \in DOMAIN p => p.site \in Nat, OnInfra, Dispatch(UpdateNiosx(live, m.id, p))
      PROVE  SizerInv'
  <2>1. m.id \in Pos
    BY <1>1 DEF DocOK, BoxesOK
  <2>2. DocOK(UpdateNiosx(live, m.id, p))
    BY <1>1, <1>4, <2>1, Boxes
  <2> QED BY <1>2, <1>4, <2>2, DispatchStep
<1>5. ASSUME NEW m \in live.niosx, NEW site \in Ids(live.sites) \cup {0}, AssignNiosx(m, site)
      PROVE  SizerInv'
  <2>2. \A n \in live.sites : n.id \in Pos
    BY <1>1 DEF DocOK, TreeOK
  <2>1. site \in Nat
    BY <2>2 DEF Ids, Pos
  <2> QED BY <1>4, <1>5, <2>1 DEF AssignNiosx, BoxFields
<1>6. ASSUME NEW m \in live.niosx, NEW tier, PickTier(m, tier) PROVE SizerInv'
  BY <1>4, <1>6 DEF PickTier, BoxFields
<1>7. ASSUME NEW m \in live.niosx, AcceptRecommendation(m) PROVE SizerInv'
  BY <1>4, <1>7 DEF AcceptRecommendation, BoxFields
<1>8. ASSUME NEW m \in live.niosx, RemoveNiosx(m) PROVE SizerInv'
  <2>1. m.id \in Pos
    BY <1>1 DEF DocOK, BoxesOK
  <2> QED BY <1>1, <1>2, <1>8, <2>1, Boxes, DispatchStep DEF RemoveNiosx
<1>9. ASSUME NEW r \in live.regions, NewXaas(r) PROVE SizerInv'
  <2>1. r.id \in Nat
    BY <1>1 DEF DocOK, TreeOK, Pos
  <2>2. DocOK(AddXaas(live, r.id, Free.box + 1))
    BY <1>1, <2>1, NewIds, Points
  <2> QED BY <1>2, <1>9, <2>2, DispatchStep DEF NewXaas
<1>10. ASSUME NEW x \in live.xaas, NEW site \in Ids(live.sites), ToggleSite(x, site) PROVE SizerInv'
  <2> DEFINE S == IF site \in x.sites THEN x.sites \ {site} ELSE x.sites \cup {site}
  <2>1. x.id \in Pos /\ HasTop(UNION {y.sites : y \in live.xaas}) /\ site \in Nat
    BY <1>1 DEF DocOK, PointsOK, TreeOK, Ids, Pos
  <2>2. S \subseteq (UNION {y.sites : y \in live.xaas}) \cup {site}
    OBVIOUS
  <2> HIDE DEF S
  <2>5. HasTop((UNION {y.sites : y \in live.xaas}) \cup {site})
    BY <2>1, HasTopOne, HasTopUnion
  <2>3. HasTop(S)
    BY <2>2, <2>5, HasTopSubset
  <2>4. DocOK(UpdateXaas(live, x.id, [sites |-> S]))
    BY <1>1, <2>1, <2>3, Points
  <2> QED BY <1>2, <1>10, <2>4, DispatchStep DEF ToggleSite, S
<1>11. ASSUME NEW x \in live.xaas, RemoveXaas(x) PROVE SizerInv'
  <2>1. x.id \in Pos
    BY <1>1 DEF DocOK, PointsOK
  <2> QED BY <1>1, <1>2, <1>11, <2>1, Points, DispatchStep DEF RemoveXaas
<1> QED BY <1>3, <1>5, <1>6, <1>7, <1>8, <1>9, <1>10, <1>11 DEF StepInfra

(* A site that is updated is the only one with its id, when the result has *)
(* one of each.                                                            *)
LEMMA UpdatedSite ==
  ASSUME NEW s, DocOK(s), NEW id, NEW p, DOMAIN p \subseteq SiteFields \ {"id", "of"},
         "field" \in DOMAIN p => DOMAIN p.field = Fields, OnePlace(UpdateSite(s, id, p))
  PROVE  /\ OnePlace(s)
         /\ \A m \in s.sites, n \in UpdateSite(s, id, p).sites :
              m.id = n.id => n = m \/ (m.id = id /\ n = With(m, p))
<1> DEFINE t == UpdateSite(s, id, p)
<1>1. CASE id \notin Ids(s.sites)
  <2>1. t = s
    BY <1>1 DEF UpdateSite
  <2> HIDE DEF t
  <2>2. OnePlace(s)
    BY <2>1 DEF t
  <2> QED BY <2>1, <2>2 DEF OnePlace, t
<1>2. CASE id \in Ids(s.sites)
  <2>1. PICK k \in s.sites : k = SiteOf(s, id) /\ k.id = id
    BY <1>2, SiteIsFound
  <2> DEFINE w == With(k, p)
  <2>2. DOMAIN k = SiteFields
    BY DEF DocOK, TreeOK
  <2>3. w.id = id /\ w.of = k.of
    BY <2>1, <2>2 DEF With, SiteFields
  <2>4. t.sites = (s.sites \ {k}) \cup {w}
    BY <1>2, <2>1 DEF UpdateSite, DocOK, Empty
  <2>5. OnePlace(t)
    OBVIOUS
  <2> HIDE DEF w, t
  <2>6. \A m \in s.sites : m.id = id => m = k
    <3> SUFFICES ASSUME NEW m \in s.sites, m.id = id, m # k PROVE FALSE
      OBVIOUS
    <3>1. m \in t.sites /\ w \in t.sites
      BY <2>4
    <3>2. m = w
      BY <2>3, <2>5, <3>1 DEF OnePlace
    <3>3. m.of = k.of
      BY <2>3, <3>2
    <3> QED BY <2>1, <3>3 DEF DocOK, TreeOK
  <2>7. OnePlace(s)
    <3> SUFFICES ASSUME NEW m \in s.sites, NEW n \in s.sites, m.id = n.id PROVE m = n
      BY DEF OnePlace
    <3>1. CASE m.id = id
      BY <2>6, <3>1
    <3>2. CASE m.id # id
      <4>1. m \in t.sites /\ n \in t.sites
        BY <2>1, <2>4, <3>2
      <4> QED BY <2>5, <4>1 DEF OnePlace
    <3> QED BY <3>1, <3>2
  <2>8. ASSUME NEW m \in s.sites, NEW n \in t.sites, m.id = n.id
        PROVE  n = m \/ (m.id = id /\ n = With(m, p))
    <3>1. CASE n = w
      <4>1. m = k
        BY <2>3, <2>6, <2>8, <3>1
      <4> QED BY <2>1, <3>1, <4>1 DEF w
    <3>2. CASE n # w
      BY <2>4, <2>7, <2>8, <3>2 DEF OnePlace
    <3> QED BY <3>1, <3>2
  <2> QED BY <2>7, <2>8 DEF t
<1> QED BY <1>1, <1>2

(* Updates that leave the derived fields alone.                            *)
LEMMA KeptByUpdate ==
  ASSUME NEW s, DocOK(s), NEW id, NEW p, DOMAIN p \subseteq SiteFields \ {"id", "of", "field"}
  PROVE  FormKept(s, UpdateSite(s, id, p))
<1> DEFINE t == UpdateSite(s, id, p)
<1>1. t.overrides = s.overrides
  BY DEF UpdateSite, DocOK, Empty
<1>2. ASSUME OnePlace(t), NEW m \in s.sites, NEW n \in t.sites, m.id = n.id
      PROVE  n.field = m.field
  <2>1. n = m \/ n = With(m, p)
    BY <1>2, UpdatedSite
  <2>2. DOMAIN m = SiteFields
    BY DEF DocOK, TreeOK
  <2>3. With(m, p).field = m.field
    BY <2>2 DEF With, SiteFields
  <2> QED BY <2>1, <2>3
<1>3. OnePlace(t) => OnePlace(s)
  BY UpdatedSite
<1> HIDE DEF t
<1>4. FormKept(s, t)
  BY <1>1, <1>2, <1>3 DEF FormKept
<1> QED BY <1>4 DEF t

(* A field the user types into is the user's from then on, if it is one    *)
(* the derivation would replace.                                           *)
LEMMA KeptByField ==
  ASSUME NEW s, DocOK(s), NEW n \in s.sites, NEW f, NEW v,
         NEW u, u = IF f \in OverridableFields THEN MarkOverride(s, n.id, f) ELSE s
  PROVE  /\ DocOK(UpdateSite(u, n.id, WithField(n, f, v)))
         /\ FormKept(s, UpdateSite(u, n.id, WithField(n, f, v)))
<1> DEFINE p == WithField(n, f, v)
           t == UpdateSite(u, n.id, p)
<1>1. n.id \in Pos /\ DOMAIN n.field = Fields
  BY DEF DocOK, TreeOK
<1>2. DocOK(u)
  BY <1>1, Marks
<1>3. DOMAIN p = {"field"} /\ p.field = [n.field EXCEPT ![f] = v] /\ DOMAIN p.field = Fields
  BY <1>1 DEF WithField
<1>4. u.sites = s.sites /\ s.overrides \subseteq u.overrides
      /\ (f \in OverridableFields => <<n.id, f>> \in u.overrides)
  BY DEF MarkOverride, DocOK, Empty
<1>5. t.overrides = u.overrides
  BY <1>2 DEF UpdateSite, DocOK, Empty
<1>6. DocOK(t)
  <2> HIDE DEF p
  <2> QED BY <1>2, <1>3, SiteUpdated DEF SiteFields
<1>7. ASSUME OnePlace(t)
      PROVE  /\ OnePlace(s)
             /\ \A m \in s.sites, k \in t.sites :
                  m.id = k.id => k = m \/ (m.id = n.id /\ k = With(m, p))
  <2> HIDE DEF p
  <2>1. /\ OnePlace(u)
        /\ \A m \in u.sites, k \in t.sites :
             m.id = k.id => k = m \/ (m.id = n.id /\ k = With(m, p))
    BY <1>2, <1>3, <1>7, UpdatedSite DEF SiteFields
  <2> QED BY <1>4, <2>1 DEF OnePlace
<1>8. ASSUME OnePlace(t), NEW m \in s.sites, NEW k \in t.sites, m.id = k.id,
             NEW g \in Fields \cap OverridableFields
      PROVE  <<k.id, g>> \in t.overrides \/ k.field[g] = m.field[g]
  <2>1. CASE k = m
    BY <2>1
  <2>2. CASE m.id = n.id /\ k = With(m, p)
    <3>1. m = n
      BY <1>7, <1>8, <2>2 DEF OnePlace
    <3>2. k.field = [n.field EXCEPT ![f] = v]
      BY <1>3, <2>2, <3>1 DEF With
    <3>3. CASE g = f
      BY <1>4, <1>5, <1>8, <3>1, <3>3
    <3>4. CASE g # f
      BY <1>1, <3>1, <3>2, <3>4
    <3> QED BY <3>3, <3>4
  <2> QED BY <1>7, <1>8, <2>1, <2>2
<1> HIDE DEF t, p
<1>9. FormKept(s, t)
  BY <1>4, <1>5, <1>7, <1>8 DEF FormKept
<1> QED BY <1>6, <1>9 DEF t, p

(* Changes that add no more than sites with other ids.                     *)
LEMMA KeptSites ==
  ASSUME NEW s, NEW t, s.overrides \subseteq t.overrides, s.sites \subseteq t.sites,
         \A n \in t.sites \ s.sites : \A m \in s.sites : n.id # m.id
  PROVE  FormKept(s, t)
<1>1. OnePlace(t) => OnePlace(s) /\ \A m \in s.sites, n \in t.sites : m.id = n.id => n = m
  BY DEF OnePlace
<1> QED BY <1>1 DEF FormKept

(* The timer fires: the site of the form has what its users imply.         *)
LEMMA Derivation == ASSUME SizerInv, DeriveFires PROVE SizerInv'
<1>1. PICK d \in Deps(live, pane) :
        Commit(SiteDerive(live, d.id, DeriveFromUsers(d.users, d.given)), view, pane, FALSE)
  BY DEF DeriveFires
<1>2. PICK k \in Shown(live, pane) :
        d = [id |-> k.id, users |-> IF ModeOf(live, k) = "users" THEN k.users ELSE Undefined,
             given |-> Given(live, k)]
  BY DEF Deps
<1>3. k \in live.sites /\ k.id \in Ids(live.sites) /\ DocOK(live) /\ live.selected = <<"site", k.id>>
  BY DEF Shown, SitesOfRegion, Within, Ids, SizerInv
<1> DEFINE derived == DeriveFromUsers(d.users, d.given)
           p == [field |-> [f \in Fields |-> IF <<d.id, f>> \in live.overrides
                                             THEN SiteOf(live, d.id).field[f] ELSE derived[f]]]
           s == SiteDerive(live, d.id, derived)
<1>4. s = UpdateSite(live, k.id, p) /\ d.id = k.id
  BY <1>2, <1>3 DEF SiteDerive
<1>5. DOMAIN p = {"field"} /\ DOMAIN p.field = Fields
  OBVIOUS
<1>6. \A f \in Fields : p.field[f] = IF <<k.id, f>> \in live.overrides
                                     THEN SiteOf(live, k.id).field[f] ELSE derived[f]
  BY <1>4
<1> HIDE DEF p, derived
<1>7. DocOK(s)
  BY <1>3, <1>4, <1>5, SiteUpdated DEF SiteFields
<1>8. s.overrides = live.overrides /\ s.mode = live.mode /\ s.regions = live.regions
      /\ s.step = live.step
  BY <1>3, <1>4 DEF UpdateSite, DocOK, Empty
<1>9. OnePlace(s) => /\ OnePlace(live)
                     /\ \A m \in live.sites, n \in s.sites :
                          m.id = n.id => n = m \/ (m.id = k.id /\ n = With(m, p))
  BY <1>3, <1>4, <1>5, UpdatedSite DEF SiteFields
<1>10. Commit(s, view, pane, FALSE)
  BY <1>1 DEF derived
<1> HIDE DEF s
<1>11. DocOK(live') /\ PaneOK' /\ TiersCurrent'
  BY <1>7, <1>10, Committed
<1>12. pane # 0
  BY <1>3, NoForm
<1>13. pane' = pane /\ live' = s
  <2>1. OnStep(s, view, 2) /\ pane \in Ids(s.regions)
    BY <1>8, <1>12 DEF SizerInv, PaneOK, OnStep
  <2>2. s.regions # {}
    BY <2>1 DEF Ids
  <2>3. pane' = pane
    BY <1>10, <2>1, <2>2 DEF Commit, PaneOf
  <2>4. AutoSelect(s, pane) = s
    BY DEF AutoSelect
  <2>5. live' = AutoTier(AutoSelect(s, pane'), view)
    BY <1>10 DEF Commit
  <2>6. ~ OnStep(s, view, 3)
    BY <2>1 DEF OnStep
  <2> QED BY <2>3, <2>4, <2>5, <2>6 DEF AutoTier
<1>14. FormCurrent'
  <2> SUFFICES ASSUME OnePlace(s), ~ due', NEW n \in Shown(s, pane),
                      ModeOf(s, n) = "users", n.users > 0,
                      NEW f \in Fields \cap OverridableFields, <<n.id, f>> \notin s.overrides
               PROVE  n.field[f] = DeriveFromUsers(n.users, Given(s, n))[f]
    BY <1>13 DEF FormCurrent, Current
  <2>1. Deps(s, pane) = Deps(live, pane)
    <3>1. due' = IF Deps(s, pane) = Deps(live, pane) THEN FALSE
                 ELSE \E e \in Deps(s, pane) : e.users > 0
      BY <1>10, <1>13 DEF Commit
    <3>2. \E e \in Deps(s, pane) : e.users > 0
      <4> DEFINE e == [id |-> n.id, users |-> IF ModeOf(s, n) = "users" THEN n.users ELSE Undefined,
                       given |-> Given(s, n)]
      <4>1. e \in Deps(s, pane)
        BY DEF Deps
      <4>2. e.users > 0
        OBVIOUS
      <4> QED BY <4>1, <4>2
    <3> QED BY <3>1, <3>2
  <2>2. PICK m \in Shown(live, pane) :
          /\ m.id = n.id /\ ModeOf(live, m) = "users" /\ m.users = n.users
          /\ Given(live, m) = Given(s, n)
    BY <2>1, SameDeps
  <2>3. m.id = k.id /\ m \in live.sites /\ n \in s.sites
    BY <1>3 DEF Shown, SitesOfRegion, Within
  <2>4. m = k
    BY <1>3, <1>9, <2>3 DEF OnePlace
  <2>5. d.users = n.users /\ d.given = Given(s, n)
    BY <1>2, <2>2, <2>4
  <2>6. n = m \/ n = With(m, p)
    BY <1>9, <2>2, <2>3
  <2>7. <<k.id, f>> \notin live.overrides
    BY <1>8, <2>2, <2>3
  <2>8. n.field = p.field
    <3>1. With(m, p).field = p.field
      BY <1>5 DEF With
    <3>2. \E w \in s.sites : w.id = k.id /\ w.field = p.field
      <4>1. SiteOf(live, k.id) \in live.sites
        BY <1>3, SiteIsFound
      <4>2. With(SiteOf(live, k.id), p) \in s.sites
        BY <1>3, <1>4 DEF UpdateSite, DocOK, Empty
      <4>3. With(SiteOf(live, k.id), p).id = k.id
        BY <1>3, <1>4, <1>5, SiteUpdated DEF SiteFields
      <4>4. With(SiteOf(live, k.id), p).field = p.field
        BY <1>5 DEF With
      <4> QED BY <4>2, <4>3, <4>4
    <3> QED BY <2>2, <2>3, <3>2 DEF OnePlace
  <2> QED BY <1>6, <2>5, <2>7, <2>8 DEF derived
<1>15. UnsavedPending' /\ DocOK(Loaded(stored))'
  <2>1. Loaded(stored)' = Loaded(stored)
    BY DEF DeriveFires, Loaded
  <2> QED BY <1>10, <2>1 DEF SizerInv, UnsavedPending, Commit
<1> QED BY <1>11, <1>14, <1>15 DEF SizerInv

(* Step 2: the form of the sites.                                          *)
LEMMA FormPage == ASSUME SizerInv, StepSites PROVE SizerInv'
<1>1. DocOK(live)
  BY DEF SizerInv
<1>2. ASSUME NEW t, t.sites = live.sites, live.overrides \subseteq t.overrides PROVE FormKept(live, t)
  BY <1>2, KeptSites
<1>3. ASSUME NEW r \in live.regions, PickPane(r) PROVE SizerInv'
  <2>1. FormKept(live, live)
    BY <1>2
  <2> QED BY <1>1, <1>3, <2>1, CommitStep DEF PickPane
<1>4. ASSUME NEW n, PickSite(n) PROVE SizerInv'
  <2> DEFINE s == Select(live, <<"site", n.id>>)
  <2>1. DocOK(s)
    BY <1>1, PathAndStep
  <2>2. s.sites = live.sites /\ s.overrides = live.overrides
    BY <1>1 DEF Select, DocOK, Empty
  <2>3. Dispatch(s)
    BY <1>4 DEF PickSite
  <2> HIDE DEF s
  <2> QED BY <1>2, <2>1, <2>2, <2>3, DispatchStep
<1>5. ASSUME NEW n \in live.sites, NEW p, DOMAIN p \subseteq SiteFields \ {"id", "of", "field"},
             Dispatch(UpdateSite(live, n.id, p))
      PROVE  SizerInv'
  <2>1. DocOK(UpdateSite(live, n.id, p)) /\ FormKept(live, UpdateSite(live, n.id, p))
    BY <1>1, <1>5, SiteUpdated, KeptByUpdate
  <2> QED BY <1>5, <2>1, DispatchStep
<1>6. ASSUME NEW n \in live.sites, NEW name, Rename(n, name) PROVE SizerInv'
  BY <1>5, <1>6 DEF Rename, SiteFields
<1>7. ASSUME NEW n \in live.sites, NEW users, EditUsers(n, users) PROVE SizerInv'
  BY <1>5, <1>7 DEF EditUsers, SiteFields
<1>8. ASSUME NEW n \in live.sites, NEW f, NEW v, EditField(n, f, v) PROVE SizerInv'
  <2> DEFINE u == IF f \in OverridableFields THEN MarkOverride(live, n.id, f) ELSE live
             s == UpdateSite(u, n.id, WithField(n, f, v))
  <2>1. DocOK(s) /\ FormKept(live, s)
    BY <1>1, KeptByField
  <2>2. Dispatch(s)
    BY <1>8 DEF EditField
  <2> HIDE DEF s
  <2> QED BY <2>1, <2>2, DispatchStep
<1>9. ASSUME NEW n \in live.sites, NEW mode, ChooseMode(n, mode) PROVE SizerInv'
  <2> DEFINE s == SetMode(live, n.id, mode)
  <2>1. DocOK(s)
    BY <1>1, Marks DEF DocOK, TreeOK
  <2>2. s.sites = live.sites /\ s.overrides = live.overrides
    BY <1>1 DEF SetMode, DocOK, Empty
  <2>3. Dispatch(s)
    BY <1>9 DEF ChooseMode
  <2> HIDE DEF s
  <2> QED BY <1>2, <2>1, <2>2, <2>3, DispatchStep
<1>10. ASSUME NEW n \in live.sites, NEW count \in 1 .. MaxClones, Clone(n, count) PROVE SizerInv'
  <2> DEFINE ids == Free.site + 1 .. Free.site + count
             s == CloneSite(live, n.id, ids)
  <2>1. Free.site \in Nat /\ \A m \in live.sites : m.id <= Free.site /\ m.id \in Nat
    <3>1. \A m \in live.sites : m.id \in Nat
      BY <1>1 DEF DocOK, TreeOK, Pos
    <3> QED BY <3>1, FreeIds DEF SizerInv
  <2>2. count \in Nat
    BY ClonesAssumption
  <2>3. ids \in SUBSET Pos /\ HasTop(ids) /\ \A m \in live.sites : m.id \notin ids
    <3>1. \A i \in ids : i \in Nat /\ Free.site < i /\ i <= Free.site + count
      BY <2>1, <2>2
    <3>2. Free.site + count \in Nat
      BY <2>1, <2>2
    <3> HIDE DEF ids
    <3>3. ids \in SUBSET Pos
      BY <2>1, <3>1 DEF Pos
    <3>4. \A m \in live.sites : m.id \notin ids
      BY <2>1, <3>1
    <3> QED BY <3>1, <3>2, <3>3, <3>4, HasTopBelow DEF Pos
  <2> HIDE DEF ids
  <2>4. DocOK(s)
    BY <1>1, <2>3, Clones
  <2>5. FormKept(live, s)
    <3>1. CASE n.id \notin Ids(live.sites)
      <4>1. s = live
        BY <3>1 DEF CloneSite
      <4> HIDE DEF s
      <4> QED BY <1>2, <4>1
    <3>2. CASE n.id \in Ids(live.sites)
      <4> DEFINE copy(c) == With(SiteOf(live, n.id), [id |-> c, name |-> Own])
      <4>1. /\ s.sites = live.sites \cup {copy(c) : c \in ids}
            /\ live.overrides \subseteq s.overrides
        BY <1>1, <3>2 DEF CloneSite, DocOK, Empty
      <4>2. \A c \in ids : copy(c).id = c
        BY DEF With
      <4> HIDE DEF s, copy
      <4>3. \A k \in s.sites \ live.sites : \A m \in live.sites : k.id # m.id
        BY <2>3, <4>1, <4>2
      <4> QED BY <4>1, <4>3, KeptSites
    <3> QED BY <3>1, <3>2
  <2>6. Dispatch(s)
    BY <1>10 DEF Clone, ids
  <2> HIDE DEF s
  <2> QED BY <2>4, <2>5, <2>6, DispatchStep
<1> QED BY <1>3, <1>4, <1>6, <1>7, <1>8, <1>9, <1>10, Derivation DEF StepSites

(* Importing again what is there already changes nothing to be saved.      *)
LEMMA Landed ==
  ASSUME NEW s, DocOK(s), NEW in, NEW t, NEW step, NEW v, NEW p, NEW w,
         DocOK(t), t.selected = s.selected, t.niosx = s.niosx \cup NewMembers(s, in),
         w = SetStep(t, step), Commit(w, v, p, due), live = s, live' = live
  PROVE  w = live'
<1>1. DocOK(w) /\ w.selected = t.selected /\ w.niosx = t.niosx
  BY PathAndStep DEF SetStep, DocOK, Empty
<1>2. /\ DocOK(live') /\ SameBut(w, live', {"selected", "niosx"})
      /\ {m.name : m \in live'.niosx} = {m.name : m \in w.niosx}
  BY <1>1, Committed
<1>3. NewMembers(s, in) = {}
  <2> SUFFICES ASSUME NEW m \in NewMembers(s, in) PROVE FALSE
    OBVIOUS
  <2>1. m.name \notin {k.name : k \in s.niosx}
    BY DEF NewMembers
  <2>2. m \in w.niosx
    BY <1>1
  <2>3. m.name \in {k.name : k \in w.niosx}
    BY <2>2
  <2> QED BY <1>2, <2>1, <2>3
<1>4. w.niosx = live'.niosx /\ w.selected = live'.selected
  BY <1>1, <1>3
<1>5. \A f \in DOMAIN Empty : w[f] = live'[f]
  BY <1>2, <1>4 DEF SameBut
<1>6. w = [f \in DOMAIN Empty |-> w[f]] /\ live' = [f \in DOMAIN Empty |-> live'[f]]
  BY <1>1, <1>2 DEF DocOK
<1> QED BY <1>5, <1>6

(* A document that is loaded is the one that was saved.                    *)
LEMMA IsDocument == ASSUME NEW s, DocOK(s) PROVE s # Nothing /\ Loaded(s) = s
<1>1. DOMAIN s = DOMAIN Empty
  BY DEF DocOK
<1>2. "step" \in DOMAIN Empty
  BY DEF Empty
<1>3. DOMAIN <<>> = {}
  OBVIOUS
<1> QED BY <1>1, <1>2, <1>3 DEF Loaded, Nothing

(* A scan can be imported: ids that are given are new in both documents.   *)
LEMMA ScanFits ==
  ASSUME SizerInv, NEW scan \in Scans
  PROVE  /\ IncomingOK(Incoming(scan))
         /\ \A n \in Incoming(scan).sites : \A m \in live.sites \cup Loaded(stored).sites : m.id # n.id
         /\ Containers(scan).country \in Nat /\ Containers(scan).city \in Nat
<1> DEFINE in  == Incoming(scan)
           c   == Containers(scan)
           old == Loaded(stored)
<1>1. DocOK(live) /\ DocOK(old)
  BY DEF SizerInv
<1>2. /\ Free.region \in Nat /\ Free.country \in Nat /\ Free.city \in Nat /\ Free.site \in Nat
      /\ Free.box \in Nat
      /\ \A n \in live.sites \cup old.sites : n.id <= Free.site
  BY <1>1, FreeIds
<1>3. IncomingOK(in) /\ \A n \in in.sites : n.id > Free.site
  BY <1>2, ScansAssumption, Imported DEF Incoming
<1>4. c.country \in Nat /\ c.city \in Nat
  <2>1. Len(scan.groups) \in Nat /\ Len(scan.members) \in Nat
    BY ScansAssumption DEF IsScan
  <2>2. PICK x \in Nat : x = Len(scan.groups)
    BY <2>1
  <2>3. PICK y \in Nat : y = Len(scan.members)
    BY <2>1
  <2>4. c = [country |-> Free.country + (x + y), city |-> Free.city + (x + y)]
    BY <2>2, <2>3 DEF Containers
  <2> HIDE DEF c
  <2> QED BY <1>2, <2>4
<1>5. \A n \in in.sites : \A m \in live.sites \cup old.sites : m.id # n.id
  <2>1. \A m \in live.sites \cup old.sites : m.id \in Nat
    BY <1>1 DEF DocOK, TreeOK, Pos
  <2>2. \A n \in in.sites : n.id \in Nat
    BY <1>3 DEF IncomingOK, TreeOK, Pos
  <2> QED BY <1>2, <1>3, <2>1, <2>2
<1> QED BY <1>3, <1>4, <1>5

(* An import is merged into the stored copy and into the live document.    *)
(* If the save is not pending afterwards, both were the same before, and   *)
(* are again.                                                              *)
LEMMA ImportStep == ASSUME SizerInv, NEW scan \in Scans, Import(scan) PROVE SizerInv'
<1> DEFINE in  == Incoming(scan)
           c   == Containers(scan)
           old == Loaded(stored)
           new == Merge(old, in, c)
           at  == LandingStep(new)
           mine == Merge(live, in, c)
<1>1. DocOK(live) /\ DocOK(old)
  BY DEF SizerInv
<1>2. /\ IncomingOK(in) /\ c.country \in Nat /\ c.city \in Nat
      /\ \A n \in in.sites : \A m \in live.sites \cup old.sites : m.id # n.id
  BY ScanFits
<1>3. /\ view = "elsewhere" /\ stored' = SetStep(new, at)
      /\ Commit(SetStep(mine, at), "sizer", 0, due)
  BY DEF Import
<1> HIDE DEF in, c, old
<1>4. /\ DocOK(new) /\ DocOK(mine)
      /\ mine.selected = live.selected /\ mine.niosx = live.niosx \cup NewMembers(live, in)
  BY <1>1, <1>2, Merged
<1> HIDE DEF new, mine, at
<1>5. DocOK(SetStep(new, at)) /\ DocOK(SetStep(mine, at))
  BY <1>4, PathAndStep
<1>6. Loaded(stored)' = SetStep(new, at) /\ DocOK(Loaded(stored)')
  BY <1>3, <1>5, IsDocument DEF Loaded
<1>7. pane = 0
  BY <1>3 DEF SizerInv, PaneOK, OnStep
<1>8. DocOK(live') /\ PaneOK' /\ TiersCurrent' /\ FormCurrent'
  BY <1>3, <1>5, <1>7, Committed, FormStep DEF SizerInv
<1>9. UnsavedPending'
  <2> SUFFICES ASSUME ~ saving' PROVE Loaded(stored)' = live'
    BY DEF UnsavedPending
  <2>1. ~ saving /\ live' = live
    BY <1>3 DEF Commit
  <2>2. old = live
    BY <2>1 DEF SizerInv, UnsavedPending, old
  <2>3. new = mine
    BY <2>2 DEF new, mine
  <2>4. SetStep(mine, at) = live'
    BY <1>1, <1>3, <1>4, <2>1, Landed
  <2> QED BY <1>6, <2>3, <2>4
<1> QED BY <1>6, <1>8, <1>9 DEF SizerInv

(* Changes from the other pages: navigation, report, starting over.        *)
LEMMA OtherPages == ASSUME SizerInv, Elsewhere PROVE SizerInv'
<1>1. DocOK(live)
  BY DEF SizerInv
<1>2. FormKept(live, live)
  BY KeptSites
<1>3. ASSUME NEW s, DocOK(s), s.sites = live.sites, s.overrides = live.overrides PROVE FormKept(live, s)
  BY <1>3, KeptSites
<1>4. ASSUME NEW step, GoToStep(step) PROVE SizerInv'
  <2>1. DocOK(SetStep(live, step)) /\ SetStep(live, step).sites = live.sites
        /\ SetStep(live, step).overrides = live.overrides
    BY <1>1, PathAndStep DEF SetStep, DocOK, Empty
  <2> QED BY <1>3, <1>4, <2>1, DispatchStep DEF GoToStep
<1>5. ASSUME NEW issue, GoToIssue(issue) PROVE SizerInv'
  <2> DEFINE s == Select(SetStep(live, StepFor(issue)), <<>>)
  <2>1. DocOK(s)
    BY <1>1, PathAndStep
  <2>2. s.sites = live.sites /\ s.overrides = live.overrides
    BY <1>1 DEF Select, SetStep, DocOK, Empty
  <2>3. Dispatch(s)
    BY <1>5 DEF GoToIssue
  <2> HIDE DEF s
  <2> QED BY <1>3, <2>1, <2>2, <2>3, DispatchStep
<1>6. CASE ViewReport \/ Retreat \/ Enter
  BY <1>1, <1>2, <1>6, CommitStep DEF ViewReport, Retreat, Enter
<1>7. CASE StartOver
  <2>1. DocOK(Empty) /\ SetStep(Empty, 1) = Empty
    BY EmptyIsOK DEF SetStep, Empty
  <2>2. stored' = Nothing /\ Commit(Empty, "elsewhere", 0, due)
    BY <1>7, <2>1 DEF StartOver
  <2>3. DocOK(live') /\ SameBut(Empty, live', {"selected", "niosx"}) /\ PaneOK' /\ TiersCurrent'
        /\ pane' = 0
    BY <2>1, <2>2, Committed
  <2>4. FormCurrent'
    BY <2>1, <2>2, <2>3, FormStep DEF SizerInv
  <2>5. live' = Empty
    BY <2>2, <2>3 DEF Commit, AutoSelect, AutoTier, OnStep
  <2>6. Loaded(stored)' = Empty
    BY <2>2 DEF Loaded
  <2> QED BY <2>1, <2>3, <2>4, <2>5, <2>6 DEF SizerInv, UnsavedPending
<1>8. view = "report" => pane = 0
  BY DEF SizerInv, PaneOK, OnStep
<1>9. ASSUME NEW n \in live.sites, NEW f, NEW v, EditInReport(n, f, v) PROVE SizerInv'
  <2> DEFINE p == WithField(n, f, v)
  <2>1. DOMAIN p = {"field"} /\ DOMAIN p.field = Fields
    BY <1>1 DEF WithField, DocOK, TreeOK
  <2> HIDE DEF p
  <2>2. DocOK(UpdateSite(live, n.id, p))
    BY <1>1, <2>1, SiteUpdated DEF SiteFields
  <2> QED BY <1>8, <1>9, <2>2, DispatchStep DEF EditInReport, p
<1>10. ASSUME NEW n \in live.sites, NEW users, EditUsersInReport(n, users) PROVE SizerInv'
  <2>1. DocOK(UpdateSite(live, n.id, [users |-> users]))
    BY <1>1, SiteUpdated DEF SiteFields
  <2> QED BY <1>8, <1>10, <2>1, DispatchStep DEF EditUsersInReport
<1> QED BY <1>4, <1>5, <1>6, <1>7, <1>9, <1>10, ImportStep DEF Elsewhere

(* A page that is loaded shows no form and no rows.                        *)
LEMMA NewPage ==
  ASSUME NEW copy, DocOK(Loaded(copy)), DocOK(Loaded(stored))', Restarted(copy)
  PROVE  SizerInv'
<1>1. /\ live' = Loaded(copy) /\ saving' = TRUE /\ view' = "elsewhere" /\ pane' = 0
  BY DEF Restarted
<1>2. DocOK(live')
  BY <1>1
<1>3. Shown(live', 0) = {}
  BY <1>2, NoForm
<1>4. FormCurrent' /\ TiersCurrent' /\ PaneOK' /\ UnsavedPending'
  BY <1>1, <1>3 DEF FormCurrent, TiersCurrent, PaneOK, UnsavedPending, OnStep
<1> QED BY <1>2, <1>4 DEF SizerInv

(* The timer of the save, and pages that are loaded again.                 *)
LEMMA Storage == ASSUME SizerInv, SaveFires \/ Reload \/ Crash PROVE SizerInv'
<1>1. DocOK(live) /\ Loaded(live) = live
  BY IsDocument DEF SizerInv
<1>2. CASE SaveFires
  <2>1. stored' = live /\ UNCHANGED <<live, view, pane, due>>
    BY <1>2 DEF SaveFires
  <2>2. Loaded(stored)' = live /\ live' = live
    BY <1>1, <2>1 DEF Loaded
  <2>3. FormCurrent' /\ TiersCurrent' /\ PaneOK'
    BY <2>1 DEF SizerInv, FormCurrent, TiersCurrent, PaneOK
  <2> QED BY <1>1, <2>2, <2>3 DEF SizerInv, UnsavedPending
<1>3. CASE Reload
  <2>1. stored' = live /\ Restarted(live)
    BY <1>3 DEF Reload
  <2>2. Loaded(stored)' = live
    BY <1>1, <2>1 DEF Loaded
  <2> QED BY <1>1, <2>1, <2>2, NewPage
<1>4. CASE Crash
  <2>1. stored' = stored /\ Restarted(stored)
    BY <1>4 DEF Crash
  <2>2. DocOK(Loaded(stored)) /\ Loaded(stored)' = Loaded(stored)
    BY <2>1 DEF SizerInv, Loaded
  <2> QED BY <2>1, <2>2, NewPage
<1> QED BY <1>2, <1>3, <1>4

-----------------------------------------------------------------------------
(* The theorems about every state.                                         *)

(* The sizer's inductive invariant holds in every reachable state.         *)
THEOREM SizerInductive == Spec => []SizerInv
<1>1. Init => SizerInv
  <2> SUFFICES ASSUME Init PROVE SizerInv
    OBVIOUS
  <2>1. /\ live = Empty /\ stored = Nothing /\ saving = TRUE /\ view = "elsewhere" /\ pane = 0
    BY DEF Init
  <2>2. DocOK(live) /\ Loaded(stored) = Empty
    BY <2>1, EmptyIsOK DEF Loaded
  <2>3. Shown(live, 0) = {}
    BY <2>2, NoForm
  <2>4. FormCurrent /\ TiersCurrent /\ PaneOK /\ UnsavedPending
    BY <2>1, <2>3 DEF FormCurrent, TiersCurrent, PaneOK, UnsavedPending, OnStep
  <2> QED BY <2>2, <2>4, EmptyIsOK DEF SizerInv
<1>2. SizerInv /\ [Next]_vars => SizerInv'
  <2> SUFFICES ASSUME SizerInv, [Next]_vars PROVE SizerInv'
    OBVIOUS
  <2>1. CASE UNCHANGED vars
    <3>1. Loaded(stored)' = Loaded(stored)
      BY <2>1 DEF vars, Loaded
    <3>2. FormCurrent' /\ TiersCurrent' /\ PaneOK' /\ UnsavedPending' /\ DocOK(live')
      BY <2>1, <3>1 DEF vars, SizerInv, FormCurrent, TiersCurrent, PaneOK, UnsavedPending
    <3> QED BY <3>1, <3>2 DEF SizerInv
  <2> QED BY <2>1, RegionsPage, FormPage, InfraPage, OtherPages, Storage DEF Next
<1> QED BY <1>1, <1>2, PTL DEF Spec

(* A change of the document is either in the stored copy or its save is    *)
(* pending (useSizerPersistence): leaving, importing and starting over     *)
(* included.                                                               *)
THEOREM SavesPending == Spec => []UnsavedPending
<1>1. SizerInv => UnsavedPending
  BY DEF SizerInv
<1> QED BY <1>1, SizerInductive, PTL

(* While no derivation is due, the numbers on the form are those the users *)
(* imply, unless the user typed them, and an automatic tier is the         *)
(* smallest that covers its site (sizer-step-sites.tsx, sizer-step-        *)
(* infra.tsx).                                                             *)
THEOREM DerivedStaysCurrent == Spec => []DerivedCurrent
<1>1. SizerInv => DerivedCurrent
  BY Halves DEF SizerInv
<1> QED BY <1>1, SizerInductive, PTL

-----------------------------------------------------------------------------
(* Imports that are made again.                                            *)

(* Names of nodes.                                                         *)
Names(S) == {n.name : n \in S}

(* The first of each name has every name.                                  *)
LEMMA FirstOfEachName ==
  ASSUME NEW S, \A n \in S : n.id \in Nat, NEW n \in S
  PROVE  \E k \in S : k.name = n.name /\ \A m \in S : m.name = k.name => k.id <= m.id
<1> DEFINE T == {m.id : m \in {q \in S : q.name = n.name}}
<1>1. T \in SUBSET Nat /\ T # {}
  OBVIOUS
<1>2. First(T) \in T /\ \A j \in T : First(T) <= j
  <2> HIDE DEF T
  <2> QED BY <1>1, FirstIsLeast
<1>3. PICK k \in S : k.name = n.name /\ k.id = First(T)
  BY <1>2
<1> QED BY <1>2, <1>3

(* The keys of a scan, and the names of the sites that have them.          *)
OfGrid(scan) == scan.groups = <<>> /\ scan.members # <<>>
KeysOf(scan) ==
  IF OfGrid(scan) THEN {GridKey} ELSE {scan.groups[i].key : i \in DOMAIN scan.groups}
NamesOf(scan, key) ==
  IF OfGrid(scan) THEN {scan.members[i].name : i \in DOMAIN scan.members}
  ELSE {scan.groups[i].site.name : i \in {j \in DOMAIN scan.groups : scan.groups[j].key = key}}

(* Every region of an import has all names of its key.                     *)
Brings(in, scan) ==
  /\ Keys(in) = KeysOf(scan)
  /\ \A r \in in.regions : Names(SitesOfRegion(in, r.id)) = NamesOf(scan, r.key)
  /\ Names(in.niosx) = {scan.members[i].name : i \in DOMAIN scan.members}

(* Each region made of a group has one site, named after its key.          *)
LEMMA GroupsBring ==
  ASSUME NEW scan, IsScan(scan), NamedByKey(scan), NEW free,
         free.region \in Nat, free.country \in Nat, free.city \in Nat, free.site \in Nat
  PROVE  LET in == ImportGroups(scan, free)
         IN  /\ Keys(in) = {scan.groups[i].key : i \in DOMAIN scan.groups}
             /\ \A r \in in.regions : Names(SitesOfRegion(in, r.id)) =
                  {scan.groups[i].site.name : i \in {j \in DOMAIN scan.groups : scan.groups[j].key = r.key}}
<1> DEFINE D == DOMAIN scan.groups
           in == ImportGroups(scan, free)
           site(i) == With(ImportedSite(free.site + i, scan.groups[i].site), [of |-> free.city + i])
           key(i) == scan.groups[i].key
           name(i) == scan.groups[i].site.name
<1>1. PICK top \in Nat : D = 1 .. top
  BY DEF IsScan
<1>2. /\ in.regions = {[id |-> free.region + i, key |-> key(i)] : i \in D}
      /\ in.countries = {[id |-> free.country + i, of |-> free.region + i] : i \in D}
      /\ in.cities = {[id |-> free.city + i, of |-> free.country + i] : i \in D}
      /\ in.sites = {site(i) : i \in D}
  BY DEF ImportGroups
<1>3. \A i \in D : site(i).of = free.city + i /\ site(i).name = name(i)
  BY DEF With, ImportedSite
<1>4. \A i, j \in D : key(i) = key(j) => name(i) = name(j)
  BY DEF NamedByKey
<1>5. Keys(in) = {key(i) : i \in D}
  <2> DEFINE region(i) == [id |-> free.region + i, key |-> key(i)]
  <2>1. in.regions = {region(i) : i \in D}
    BY <1>2
  <2>2. \A i \in D : region(i).key = key(i)
    OBVIOUS
  <2> HIDE DEF in, D, key, region
  <2> QED BY <2>1, <2>2 DEF Keys
<1> HIDE DEF in, D, site, key, name
<1>6. \A i, j \in D : /\ free.region + i = free.region + j => i = j
                      /\ free.country + i = free.country + j => i = j
                      /\ free.city + i = free.city + j => i = j
  BY <1>1
<1>7. ASSUME NEW i \in D PROVE SitesOfRegion(in, free.region + i) = {site(i)}
  <2>1. Ids(Within(in.countries, {free.region + i})) = {free.country + i}
    <3> DEFINE node(j) == [id |-> free.country + j, of |-> free.region + j]
    <3>1. in.countries = {node(j) : j \in D}
      BY <1>2
    <3>2. \A j \in D : node(j).id = free.country + j /\ node(j).of = free.region + j
      OBVIOUS
    <3> HIDE DEF node
    <3>3. Within(in.countries, {free.region + i}) = {node(i)}
      BY <1>6, <3>1, <3>2 DEF Within
    <3> QED BY <3>2, <3>3 DEF Ids
  <2>2. Ids(Within(in.cities, {free.country + i})) = {free.city + i}
    <3> DEFINE node(j) == [id |-> free.city + j, of |-> free.country + j]
    <3>1. in.cities = {node(j) : j \in D}
      BY <1>2
    <3>2. \A j \in D : node(j).id = free.city + j /\ node(j).of = free.country + j
      OBVIOUS
    <3> HIDE DEF node
    <3>3. Within(in.cities, {free.country + i}) = {node(i)}
      BY <1>6, <3>1, <3>2 DEF Within
    <3> QED BY <3>2, <3>3 DEF Ids
  <2>3. Within(in.sites, {free.city + i}) = {site(i)}
    BY <1>2, <1>3, <1>6 DEF Within
  <2> QED BY <2>1, <2>2, <2>3 DEF SitesOfRegion, CitiesOfRegion
<1>8. ASSUME NEW r \in in.regions
      PROVE  Names(SitesOfRegion(in, r.id)) = {name(i) : i \in {j \in D : key(j) = r.key}}
  <2>1. PICK i \in D : r = [id |-> free.region + i, key |-> key(i)]
    BY <1>2
  <2>2. r.id = free.region + i /\ r.key = key(i)
    BY <2>1
  <2>3. Names({site(i)}) = {name(i)}
    BY <1>3 DEF Names
  <2>4. {name(j) : j \in {k \in D : key(k) = key(i)}} = {name(i)}
    BY <1>4
  <2> QED BY <1>7, <2>2, <2>3, <2>4
<1> QED BY <1>5, <1>8 DEF in, D, key, name

(* The region of a grid has the sites of all members.                      *)
LEMMA GridBrings ==
  ASSUME NEW scan, IsScan(scan), scan.members # <<>>, NEW free,
         free.region \in Nat, free.country \in Nat, free.city \in Nat, free.site \in Nat
  PROVE  LET in == ImportGrid(scan, free)
         IN  /\ Keys(in) = {GridKey}
             /\ \A r \in in.regions : Names(SitesOfRegion(in, r.id)) =
                  {scan.members[i].name : i \in DOMAIN scan.members}
<1> DEFINE D == DOMAIN scan.members
           in == ImportGrid(scan, free)
           name(i) == scan.members[i].name
<1>1. /\ TreeOK(in.regions, in.countries, in.cities, in.sites)
      /\ in.regions = {[id |-> free.region + 1, key |-> GridKey]}
  <2>1. TreeOK(in.regions, in.countries, in.cities, in.sites)
    BY Grid
  <2>2. in.regions = {[id |-> free.region + 1, key |-> GridKey]}
    BY DEF ImportGrid
  <2> QED BY <2>1, <2>2
<1>2. Names(in.sites) = {name(i) : i \in D}
  <2> DEFINE city(i) == First({j \in D : /\ scan.members[j].country = scan.members[i].country
                                        /\ scan.members[j].city = scan.members[i].city})
             site(i) == With(ImportedSite(free.site + i, scan.members[i]), [of |-> free.city + city(i)])
  <2>1. in.sites = {site(i) : i \in D}
    BY DEF ImportGrid
  <2>2. \A i \in D : site(i).name = name(i)
    BY DEF With, ImportedSite
  <2> HIDE DEF site, in, D, name, city
  <2> QED BY <2>1, <2>2 DEF Names
<1> HIDE DEF in, D, name
<1>3. SitesOfRegion(in, free.region + 1) = in.sites
  <2>1. \A r \in in.regions : r.id = free.region + 1
    BY <1>1
  <2>2. \A k \in in.countries : k.of = free.region + 1
    BY <1>1, <2>1 DEF TreeOK
  <2>3. Within(in.countries, {free.region + 1}) = in.countries
    BY <2>2 DEF Within
  <2>4. Within(in.cities, Ids(in.countries)) = in.cities
    BY <1>1 DEF TreeOK, Within, Ids
  <2>5. Within(in.sites, Ids(in.cities)) = in.sites
    BY <1>1 DEF TreeOK, Within, Ids
  <2> QED BY <2>3, <2>4, <2>5 DEF SitesOfRegion, CitiesOfRegion
<1>4. Keys(in) = {GridKey}
  BY <1>1 DEF Keys
<1> QED BY <1>1, <1>2, <1>3, <1>4 DEF in, D, name

(* Members have their names, linked or not.                                *)
LEMMA MembersBring ==
  ASSUME NEW scan, NEW free
  PROVE  LET members == ImportMembers(scan, free)
             linked  == {[m EXCEPT !.site = free.site + (m.id - free.box)] : m \in members}
         IN  /\ Names(members) = {scan.members[i].name : i \in DOMAIN scan.members}
             /\ Names(linked) = Names(members)
<1> DEFINE members == ImportMembers(scan, free)
           link(m) == [m EXCEPT !.site = free.site + (m.id - free.box)]
<1>1. Names(members) = {scan.members[i].name : i \in DOMAIN scan.members}
  <2> DEFINE box(i) == [id |-> free.box + i, name |-> scan.members[i].name, site |-> 0,
                        tier |-> "M", manual |-> FALSE]
  <2>1. members = {box(i) : i \in DOMAIN scan.members}
    BY DEF ImportMembers
  <2>2. \A i \in DOMAIN scan.members : box(i).name = scan.members[i].name
    OBVIOUS
  <2> HIDE DEF box, members
  <2> QED BY <2>1, <2>2 DEF Names
<1>2. \A m \in members : link(m).name = m.name
  BY DEF ImportMembers
<1> HIDE DEF members, link
<1>3. Names({link(m) : m \in members}) = Names(members)
  BY <1>2 DEF Names
<1> QED BY <1>1, <1>3 DEF members, link

(* An import brings what its scan has, whatever ids it is given.           *)
LEMMA Brought ==
  ASSUME NEW scan, IsScan(scan), NamedByKey(scan), NEW free,
         free.region \in Nat, free.country \in Nat, free.city \in Nat, free.site \in Nat
  PROVE  Brings(ImportFromScan(scan, free), scan)
<1> DEFINE in == ImportFromScan(scan, free)
           tree == IF OfGrid(scan) THEN ImportGrid(scan, free) ELSE ImportGroups(scan, free)
           members == ImportMembers(scan, free)
           linked  == {[m EXCEPT !.site = free.site + (m.id - free.box)] : m \in members}
<1>1. in = With(tree, [niosx |-> IF OfGrid(scan) THEN linked ELSE members])
  BY DEF ImportFromScan, OfGrid
<1>2. DOMAIN tree = {"regions", "countries", "cities", "sites"}
  BY DEF ImportGrid, ImportGroups
<1>3. /\ Keys(tree) = KeysOf(scan)
      /\ \A r \in tree.regions : Names(SitesOfRegion(tree, r.id)) = NamesOf(scan, r.key)
  <2>1. CASE OfGrid(scan)
    <3>1. tree = ImportGrid(scan, free) /\ scan.members # <<>>
      BY <2>1 DEF OfGrid
    <3> HIDE DEF tree
    <3> QED BY <2>1, <3>1, GridBrings DEF KeysOf, NamesOf
  <2>2. CASE ~ OfGrid(scan)
    <3>1. tree = ImportGroups(scan, free)
      BY <2>2
    <3> HIDE DEF tree
    <3> QED BY <2>2, <3>1, GroupsBring DEF KeysOf, NamesOf
  <2> QED BY <2>1, <2>2
<1>4. /\ Names(members) = {scan.members[i].name : i \in DOMAIN scan.members}
      /\ Names(linked) = Names(members)
  BY MembersBring
<1> HIDE DEF in, tree, members, linked
<1>5. /\ in.regions = tree.regions /\ in.countries = tree.countries /\ in.cities = tree.cities
      /\ in.sites = tree.sites /\ in.niosx = IF OfGrid(scan) THEN linked ELSE members
  BY <1>1, <1>2 DEF With
<1>6. Keys(in) = Keys(tree) /\ \A id : SitesOfRegion(in, id) = SitesOfRegion(tree, id)
  BY <1>5 DEF Keys, SitesOfRegion, CitiesOfRegion
<1>7. Names(in.niosx) = Names(members)
  BY <1>4, <1>5
<1> QED BY <1>3, <1>4, <1>5, <1>6, <1>7 DEF Brings, in

(* Sites put into a region are of that region.                             *)
LEMMA RegionGains ==
  ASSUME NEW s, DocOK(s), NEW r \in s.regions, NEW nodes, NEW country \in Pos, NEW city \in Pos,
         NEW t, LET u == UnderFirstCity(s, r.id, nodes, country, city)
                IN  /\ u.countries \subseteq t.countries /\ u.cities \subseteq t.cities
                    /\ u.sites \subseteq t.sites,
         \A n \in nodes : "name" \in DOMAIN n
  PROVE  Names(nodes) \subseteq Names(SitesOfRegion(t, r.id))
<1>1. PICK k, c : /\ PlaceIn(s, r.id, country, city, k, c)
                  /\ UnderFirstCity(s, r.id, nodes, country, city) = Settled(s, k, c, nodes)
  BY UnderFirst
<1> DEFINE put(n) == With(n, [of |-> c.id])
<1>2. k \in t.countries /\ c \in t.cities /\ \A n \in nodes : put(n) \in t.sites
  <2> DEFINE u == Settled(s, k, c, nodes)
  <2>1. /\ u.countries \subseteq t.countries /\ u.cities \subseteq t.cities
        /\ u.sites \subseteq t.sites
    BY <1>1
  <2>2. /\ u.countries = s.countries \cup {k} /\ u.cities = s.cities \cup {c}
        /\ u.sites = s.sites \cup {put(n) : n \in nodes}
    BY DEF Settled, DocOK, Empty
  <2> HIDE DEF u, put
  <2> QED BY <2>1, <2>2
<1>3. k.of = r.id /\ c.of = k.id
  BY <1>1 DEF PlaceIn
<1>4. \A n \in nodes : put(n).of = c.id /\ put(n).name = n.name
  BY DEF With
<1> HIDE DEF put
<1>5. c.id \in CitiesOfRegion(t, r.id)
  BY <1>2, <1>3 DEF CitiesOfRegion, Within, Ids
<1>6. \A n \in nodes : put(n) \in SitesOfRegion(t, r.id)
  BY <1>2, <1>4, <1>5 DEF SitesOfRegion, Within
<1> QED BY <1>4, <1>6 DEF Names

(* With more countries, cities and sites, a region has no fewer sites.     *)
LEMMA MoreSites ==
  ASSUME NEW s, NEW t, s.countries \subseteq t.countries, s.cities \subseteq t.cities,
         s.sites \subseteq t.sites, NEW id
  PROVE  SitesOfRegion(s, id) \subseteq SitesOfRegion(t, id)
<1>1. Ids(Within(s.countries, {id})) \subseteq Ids(Within(t.countries, {id}))
  BY DEF Within, Ids
<1>2. CitiesOfRegion(s, id) \subseteq CitiesOfRegion(t, id)
  BY <1>1 DEF CitiesOfRegion, Within, Ids
<1> QED BY <1>2 DEF SitesOfRegion, Within

(* What a merge keeps, and what it brings.                                 *)
LEMMA MergeKeeps ==
  ASSUME NEW s, DocOK(s), NEW in, IncomingOK(in), NEW free, free.country \in Nat, free.city \in Nat
  PROVE  LET t == Merge(s, in, free)
         IN  /\ t.regions = s.regions \cup {r \in in.regions : r.key \notin Keys(s)}
             /\ s.countries \subseteq t.countries /\ s.cities \subseteq t.cities
             /\ s.sites \subseteq t.sites
             /\ t.niosx = s.niosx \cup NewMembers(s, in)
             /\ t.xaas = s.xaas /\ t.mode = s.mode /\ t.overrides = s.overrides
             /\ \A r \in s.regions : r.key \in Keys(in) =>
                  Names(NewSites(s, in, r.key)) \subseteq Names(SitesOfRegion(t, r.id))
             /\ \A r \in in.regions : r.key \notin Keys(s) =>
                  SitesOfRegion(in, r.id) \subseteq SitesOfRegion(t, r.id)
<1> DEFINE matched   == {r \in s.regions : r.key \in Keys(in)}
           gaining   == {r \in matched : NewSites(s, in, r.key) # {}}
           rank(r)   == Cardinality({i \in Ids(matched) : i <= r.id})
           filled(r) == UnderFirstCity(s, r.id, NewSites(s, in, r.key),
                                       free.country + rank(r), free.city + rank(r))
           dC == UNION {filled(r).countries : r \in gaining}
           dT == UNION {filled(r).cities : r \in gaining}
           dS == UNION {filled(r).sites : r \in gaining}
           R == {r \in in.regions : r.key \notin Keys(s)}
           C == Within(in.countries, Ids(R))
           T == Within(in.cities, Ids(C))
           S == Within(in.sites, Ids(T))
           B == NewMembers(s, in)
           f == [s EXCEPT !.countries = s.countries \cup dC, !.cities = s.cities \cup dT,
                          !.sites = s.sites \cup dS]
           t == [s EXCEPT !.regions = s.regions \cup R, !.countries = (s.countries \cup dC) \cup C,
                          !.cities = (s.cities \cup dT) \cup T, !.sites = (s.sites \cup dS) \cup S,
                          !.niosx = s.niosx \cup B]
<1>1. FillRegions(s, in, free) = f
  BY DEF FillRegions, DocOK, Empty
<1>2. f.regions = s.regions /\ Keys(f) = Keys(s)
  BY DEF DocOK, Empty, Keys
<1>3. Merge(s, in, free) = t
  <2> DEFINE Q == {r \in in.regions : r.key \notin Keys(f)}
  <2>1. Q = R
    BY <1>2
  <2>2. AppendRegions(f, in) =
          [f EXCEPT !.regions = f.regions \cup R, !.countries = f.countries \cup C,
                    !.cities = f.cities \cup T, !.sites = f.sites \cup S]
    <3> HIDE DEF R
    <3>1. AppendRegions(f, in) =
          [f EXCEPT !.regions = @ \cup Q, !.countries = @ \cup Within(in.countries, Ids(Q)),
                    !.cities = @ \cup Within(in.cities, Ids(Within(in.countries, Ids(Q)))),
                    !.sites = @ \cup Within(in.sites, Ids(Within(in.cities, Ids(Within(in.countries, Ids(Q))))))]
      BY DEF AppendRegions
    <3> HIDE DEF Q
    <3> QED BY <2>1, <3>1 DEF DocOK, Empty
  <2> HIDE DEF R, C, T, S, Q, dC, dT, dS, B
  <2>3. Merge(s, in, free) = [AppendRegions(f, in) EXCEPT !.niosx = @ \cup NewMembers(s, in)]
    BY <1>1 DEF Merge
  <2> QED BY <2>2, <2>3, ZenonT(30) DEF DocOK, Empty, B
<1> HIDE DEF R, C, T, S, B, dC, dT, dS
<1>4. /\ t.regions = s.regions \cup R /\ t.countries = (s.countries \cup dC) \cup C
      /\ t.cities = (s.cities \cup dT) \cup T /\ t.sites = (s.sites \cup dS) \cup S
      /\ t.niosx = s.niosx \cup B
      /\ t.xaas = s.xaas /\ t.mode = s.mode /\ t.overrides = s.overrides
  BY DEF DocOK, Empty
<1> HIDE DEF t, f, rank
<1>5. ASSUME NEW r \in s.regions, r.key \in Keys(in)
      PROVE  Names(NewSites(s, in, r.key)) \subseteq Names(SitesOfRegion(t, r.id))
  <2>1. CASE NewSites(s, in, r.key) = {}
    BY <2>1 DEF Names
  <2>2. CASE NewSites(s, in, r.key) # {}
    <3>1. r \in gaining
      BY <1>5, <2>2
    <3>2. Ids(matched) \in SUBSET Pos /\ r.id \in Ids(matched)
      BY <1>5 DEF Ids, DocOK, TreeOK
    <3>3. rank(r) \in Pos
      <4> HIDE DEF matched
      <4> QED BY <3>2, Ranks DEF rank
    <3>4. PICK a \in Pos, b \in Pos : a = free.country + rank(r) /\ b = free.city + rank(r)
      <4> DEFINE n == rank(r)
      <4>1. n \in Pos
        BY <3>3
      <4> HIDE DEF n
      <4>2. free.country + n \in Pos /\ free.city + n \in Pos
        BY <4>1 DEF Pos
      <4> QED BY <4>2 DEF n
    <3> DEFINE nodes == NewSites(s, in, r.key)
               u == UnderFirstCity(s, r.id, nodes, a, b)
    <3>5. u = filled(r)
      BY <3>4
    <3>6. u.countries \subseteq t.countries /\ u.cities \subseteq t.cities /\ u.sites \subseteq t.sites
      <4> HIDE DEF u
      <4> QED BY <1>4, <3>1, <3>5 DEF dC, dT, dS
    <3>7. \A m \in nodes : "name" \in DOMAIN m
      BY DEF NewSites, SitesOfRegion, Within, IncomingOK, TreeOK, SiteFields
    <3> HIDE DEF nodes
    <3>8. Names(nodes) \subseteq Names(SitesOfRegion(t, r.id))
      BY <3>6, <3>7, RegionGains
    <3> QED BY <3>8 DEF nodes
  <2> QED BY <2>1, <2>2
<1>6. ASSUME NEW r \in in.regions, r.key \notin Keys(s)
      PROVE  SitesOfRegion(in, r.id) \subseteq SitesOfRegion(t, r.id)
  <2>1. r.id \in Ids(R)
    BY <1>6 DEF R, Ids
  <2>2. Ids(Within(in.countries, {r.id})) \subseteq Ids(Within(C, {r.id}))
    BY <2>1 DEF C, Ids, Within
  <2>3. Within(in.countries, {r.id}) \subseteq C
    BY <2>1 DEF C, Within
  <2>4. Within(in.cities, Ids(Within(in.countries, {r.id}))) \subseteq T
    BY <2>3 DEF T, Within, Ids
  <2>5. SitesOfRegion(in, r.id) \subseteq S
    BY <2>4 DEF S, SitesOfRegion, CitiesOfRegion, Within, Ids
  <2>6. Ids(Within(C, {r.id})) \subseteq Ids(Within(t.countries, {r.id}))
    BY <1>4 DEF Within, Ids
  <2>7. CitiesOfRegion(in, r.id) \subseteq CitiesOfRegion(t, r.id)
    BY <1>4, <2>2, <2>4, <2>6 DEF CitiesOfRegion, Within, Ids
  <2> QED BY <1>4, <2>5, <2>7 DEF SitesOfRegion, Within
<1> QED BY <1>3, <1>4, <1>5, <1>6 DEF R, B

(* After a merge the sites of a key are known by their names.              *)
LEMMA NamesAreKnown ==
  ASSUME NEW s, DocOK(s), NEW in, IncomingOK(in), NEW free, free.country \in Nat, free.city \in Nat,
         NEW scan, Brings(in, scan), NEW t, t = Merge(s, in, free), DocOK(t), NEW key \in KeysOf(scan)
  PROVE  key \in Keys(t) /\ NamesOf(scan, key) \subseteq KnownNames(t, key)
<1> DEFINE Q == {q \in t.regions : q.key = key}
           P == {q \in s.regions : q.key = key}
<1>1. /\ t.regions = s.regions \cup {r \in in.regions : r.key \notin Keys(s)}
      /\ s.countries \subseteq t.countries /\ s.cities \subseteq t.cities
      /\ s.sites \subseteq t.sites
      /\ \A r \in s.regions : r.key \in Keys(in) =>
           Names(NewSites(s, in, r.key)) \subseteq Names(SitesOfRegion(t, r.id))
      /\ \A r \in in.regions : r.key \notin Keys(s) =>
           SitesOfRegion(in, r.id) \subseteq SitesOfRegion(t, r.id)
  BY MergeKeeps
<1>2. PICK r \in in.regions : r.key = key
  BY DEF Brings, Keys
<1>3. Q # {} /\ key \in Keys(t)
  BY <1>1, <1>2 DEF Keys
<1>4. PICK q \in Q : q.id = Last(Ids(Q))
  <2>1. HasTop(Ids(t.regions)) /\ Ids(Q) \subseteq Ids(t.regions) /\ Ids(Q) # {}
    <3>1. HasTop(Ids(t.regions))
      BY DEF DocOK, TreeOK
    <3>2. Ids(Q) \subseteq Ids(t.regions)
      BY DEF Ids
    <3> HIDE DEF Q
    <3>3. Ids(Q) # {}
      BY <1>3 DEF Ids
    <3> QED BY <3>1, <3>2, <3>3
  <2>2. Last(Ids(Q)) \in Ids(Q)
    BY <2>1, LastNumber, HasTopSubset
  <2> QED BY <2>2 DEF Ids
<1>5. KnownNames(t, key) = Names(SitesOfRegion(t, q.id))
  BY <1>4 DEF KnownNames, Names, Ids
<1>6. CASE q \notin s.regions
  <2>1. q \in in.regions /\ q.key = key /\ key \notin Keys(s)
    BY <1>1, <1>6
  <2>2. Names(SitesOfRegion(in, q.id)) = NamesOf(scan, key)
    BY <2>1 DEF Brings
  <2>3. Names(SitesOfRegion(in, q.id)) \subseteq Names(SitesOfRegion(t, q.id))
    BY <1>1, <2>1 DEF Names
  <2> QED BY <1>3, <1>5, <2>2, <2>3
<1>7. CASE q \in s.regions
  <2>1. key \in Keys(s) /\ key \in Keys(in)
    BY <1>2, <1>7 DEF Keys
  <2>2. Q = P
    BY <1>1, <2>1 DEF Keys
  <2>3. KnownNames(s, key) = Names(SitesOfRegion(s, q.id))
    BY <1>4, <2>2 DEF KnownNames, Names, Ids
  <2>4. Names(SitesOfRegion(s, q.id)) \subseteq Names(SitesOfRegion(t, q.id))
    BY <1>1, MoreSites DEF Names
  <2>5. Names(NewSites(s, in, key)) \subseteq Names(SitesOfRegion(t, q.id))
    BY <1>1, <1>7, <2>1
  <2>6. NamesOf(scan, key) \subseteq KnownNames(s, key) \cup Names(NewSites(s, in, key))
    <3> SUFFICES ASSUME NEW name \in NamesOf(scan, key), name \notin KnownNames(s, key)
                 PROVE  name \in Names(NewSites(s, in, key))
      OBVIOUS
    <3> DEFINE coming == UNION {SitesOfRegion(in, p.id) : p \in {x \in in.regions : x.key = key}}
               new == {n \in coming : n.name \notin KnownNames(s, key)}
    <3>1. Names(SitesOfRegion(in, r.id)) = NamesOf(scan, key)
      BY <1>2 DEF Brings
    <3>2. PICK n \in SitesOfRegion(in, r.id) : n.name = name
      BY <3>1 DEF Names
    <3>3. n \in new
      BY <1>2, <3>2
    <3>4. \A m \in new : m.id \in Nat
      BY DEF SitesOfRegion, Within, IncomingOK, TreeOK, Pos
    <3>5. NewSites(s, in, key) = {m \in new : \A k \in new : k.name = m.name => m.id <= k.id}
      BY DEF NewSites
    <3> HIDE DEF new
    <3>6. PICK k \in new : k.name = n.name /\ \A m \in new : m.name = k.name => k.id <= m.id
      BY <3>3, <3>4, FirstOfEachName
    <3>7. k \in NewSites(s, in, key)
      BY <3>5, <3>6
    <3> QED BY <3>2, <3>6, <3>7 DEF Names
  <2> QED BY <1>3, <1>5, <2>3, <2>4, <2>5, <2>6
<1> QED BY <1>6, <1>7

(* Members are known by their names, too.                                  *)
LEMMA MembersAreKnown ==
  ASSUME NEW s, DocOK(s), NEW in, IncomingOK(in), NEW t, t.niosx = s.niosx \cup NewMembers(s, in)
  PROVE  Names(in.niosx) \subseteq Names(t.niosx)
<1> SUFFICES ASSUME NEW m \in in.niosx, m.name \notin Names(s.niosx)
             PROVE  m.name \in Names(NewMembers(s, in))
  BY DEF Names
<1> DEFINE new == {n \in in.niosx : n.name \notin {k.name : k \in s.niosx}}
<1>1. m \in new
  BY DEF Names
<1>2. \A n \in new : n.id \in Nat
  BY DEF IncomingOK, BoxesOK, Pos
<1>3. NewMembers(s, in) = {n \in new : \A k \in new : k.name = n.name => n.id <= k.id}
  BY DEF NewMembers
<1> HIDE DEF new
<1>4. PICK k \in new : k.name = m.name /\ \A n \in new : n.name = k.name => k.id <= n.id
  BY <1>1, <1>2, FirstOfEachName
<1>5. k \in NewMembers(s, in)
  BY <1>3, <1>4
<1> QED BY <1>4, <1>5 DEF Names

(* A merge of what is known by key and name adds nothing.                  *)
LEMMA MergedAgain ==
  ASSUME NEW t, DocOK(t), NEW in, NEW scan, Brings(in, scan), NEW free,
         \A key \in KeysOf(scan) : key \in Keys(t) /\ NamesOf(scan, key) \subseteq KnownNames(t, key),
         Names(in.niosx) \subseteq Names(t.niosx)
  PROVE  Merge(t, in, free) = t
<1>1. t = [f \in {"regions", "countries", "cities", "sites", "niosx", "xaas", "overrides", "mode",
                   "selected", "step"} |-> t[f]]
  BY DEF DocOK, Empty
<1>2. \A key \in KeysOf(scan) : NewSites(t, in, key) = {}
  <2> SUFFICES ASSUME NEW key \in KeysOf(scan), NEW n \in NewSites(t, in, key) PROVE FALSE
    OBVIOUS
  <2>1. /\ \E r \in in.regions : r.key = key /\ n \in SitesOfRegion(in, r.id)
        /\ n.name \notin KnownNames(t, key)
    BY DEF NewSites
  <2>2. n.name \in NamesOf(scan, key)
    BY <2>1 DEF Brings, Names
  <2> QED BY <2>1, <2>2
<1>3. NewMembers(t, in) = {}
  BY DEF NewMembers, Names
<1>4. FillRegions(t, in, free) = t
  <2> DEFINE matched   == {r \in t.regions : r.key \in Keys(in)}
             gaining   == {r \in matched : NewSites(t, in, r.key) # {}}
             rank(r)   == Cardinality({i \in Ids(matched) : i <= r.id})
             filled(r) == UnderFirstCity(t, r.id, NewSites(t, in, r.key),
                                         free.country + rank(r), free.city + rank(r))
             dC == UNION {filled(r).countries : r \in gaining}
             dT == UNION {filled(r).cities : r \in gaining}
             dS == UNION {filled(r).sites : r \in gaining}
  <2>1. FillRegions(t, in, free) =
          [t EXCEPT !.countries = @ \cup dC, !.cities = @ \cup dT, !.sites = @ \cup dS]
    BY DEF FillRegions
  <2>2. gaining = {}
    BY <1>2 DEF Brings
  <2> HIDE DEF gaining, filled, rank
  <2>3. dC = {} /\ dT = {} /\ dS = {}
    BY <2>2
  <2> HIDE DEF dC, dT, dS
  <2>4. FillRegions(t, in, free) =
          [t EXCEPT !.countries = @ \cup {}, !.cities = @ \cup {}, !.sites = @ \cup {}]
    BY <2>1, <2>3
  <2> QED BY <2>4, ZenonT(30) DEF DocOK, Empty
<1>5. AppendRegions(t, in) = t
  <2> DEFINE R == {r \in in.regions : r.key \notin Keys(t)}
             C == Within(in.countries, Ids(R))
             T == Within(in.cities, Ids(C))
             S == Within(in.sites, Ids(T))
  <2>1. AppendRegions(t, in) =
          [t EXCEPT !.regions = @ \cup R, !.countries = @ \cup C, !.cities = @ \cup T, !.sites = @ \cup S]
    BY DEF AppendRegions
  <2>2. R = {}
    BY DEF Brings, Keys
  <2> HIDE DEF R
  <2>3. C = {}
    BY <2>2 DEF Within, Ids
  <2> HIDE DEF C
  <2>4. T = {}
    BY <2>3 DEF Within, Ids
  <2> HIDE DEF T
  <2>5. S = {}
    BY <2>4 DEF Within, Ids
  <2> HIDE DEF S
  <2>6. AppendRegions(t, in) =
          [t EXCEPT !.regions = @ \cup {}, !.countries = @ \cup {}, !.cities = @ \cup {}, !.sites = @ \cup {}]
    BY <2>1, <2>2, <2>3, <2>4, <2>5
  <2> QED BY <1>1, <2>6, ZenonT(30)
<1>6. Merge(t, in, free) = [t EXCEPT !.niosx = @ \cup {}]
  BY <1>3, <1>4, <1>5 DEF Merge
<1> QED BY <1>6 DEF DocOK, Empty

(* A tier the user chose stays, and every member.                          *)
LEMMA MembersStay ==
  ASSUME NEW s, DocOK(s), NEW v, NEW p, NEW pending, Commit(s, v, p, pending), NEW m \in s.niosx
  PROVE  \E k \in live'.niosx : k.id = m.id /\ (m.manual => k = m)
<1> DEFINE a == AutoSelect(s, pane')
           t == AutoTier(a, v)
<1>1. live' = t
  BY DEF Commit
<1>2. DocOK(a) /\ a.niosx = s.niosx
  BY Selected DEF SameBut, Empty
<1> HIDE DEF a
<1>3. /\ ~ OnStep(a, v, 3) => t = a
      /\ OnStep(a, v, 3) => t.niosx = {Retiered(a, n) : n \in a.niosx}
  BY <1>2, Tiered
<1> HIDE DEF t
<1>4. Retiered(a, m).id = m.id /\ (m.manual => Retiered(a, m) = m)
  BY DEF Retiered, DocOK, BoxesOK, BoxFields
<1> QED BY <1>1, <1>2, <1>3, <1>4

(* The sizer is entered from elsewhere with an import or without.          *)
LEMMA Entries ==
  ASSUME Next, view = "elsewhere", view' = "sizer"
  PROVE  Enter \/ \E scan \in Scans : Import(scan)
<1>1. ASSUME NEW s, Dispatch(s) PROVE FALSE
  BY <1>1 DEF Dispatch, Commit
<1>2. ~ \E step : OnStep(live, view, step)
  BY DEF OnStep
<1>3. ~ StepRegions /\ ~ StepInfra
  BY <1>1 DEF StepRegions, NewRegion, NewCountry, NewSiteInRegion, EditRegion, NewCity,
    NewSiteInCity, SelectNode, DeleteNode, StepInfra, NewNiosx, AssignNiosx, PickTier,
    AcceptRecommendation, RemoveNiosx, NewXaas, ToggleSite, RemoveXaas
<1>4. ~ StepSites
  BY <1>1, <1>2 DEF StepSites, PickPane, PickSite, Rename, EditUsers, EditField, ChooseMode, Clone,
    DeriveFires, Commit
<1>5. ~ SaveFires /\ ~ Reload /\ ~ Crash
  BY DEF SaveFires, Reload, Crash, Restarted
<1> QED BY <1>1, <1>3, <1>4, <1>5 DEF Next, Elsewhere, GoToStep, GoToIssue, ViewReport, Retreat,
    StartOver, EditInReport, EditUsersInReport, OnStep

(* What is merged twice is what is merged once.                            *)
LEMMA ImportAgain == ASSUME SizerInv, NEW scan \in Scans PROVE AddsOnce(scan)
<1> DEFINE in   == Incoming(scan)
           c    == Containers(scan)
           once == Merge(live, in, c)
           later == [k \in DOMAIN Free |-> Free[k] + 100]
           more == ImportFromScan(scan, later)
<1>1. DocOK(live) /\ DocOK(Loaded(stored)) /\ IsScan(scan) /\ NamedByKey(scan)
  BY ScansAssumption, NamesAssumption DEF SizerInv
<1>2. /\ IncomingOK(in) /\ c.country \in Nat /\ c.city \in Nat
      /\ \A n \in in.sites : \A m \in live.sites : m.id # n.id
  BY ScanFits
<1>3. /\ Free.region \in Nat /\ Free.country \in Nat /\ Free.city \in Nat /\ Free.site \in Nat
  BY <1>1, FreeIds
<1>4. /\ later.region \in Nat /\ later.country \in Nat /\ later.city \in Nat /\ later.site \in Nat
  <2>1. {"region", "country", "city", "site"} \subseteq DOMAIN Free
    BY DEF Free
  <2> QED BY <1>3, <2>1
<1>5. Brings(in, scan)
  BY <1>1, <1>3, Brought DEF Incoming
<1>6. Brings(more, scan)
  <2> HIDE DEF later
  <2> QED BY <1>1, <1>4, Brought
<1> HIDE DEF in, c, later, more
<1>7. DocOK(once) /\ once.niosx = live.niosx \cup NewMembers(live, in)
  BY <1>1, <1>2, Merged
<1>8. \A key \in KeysOf(scan) : key \in Keys(once) /\ NamesOf(scan, key) \subseteq KnownNames(once, key)
  <2> HIDE DEF once
  <2>1. once = Merge(live, in, c)
    BY DEF once
  <2> QED BY <1>1, <1>2, <1>5, <1>7, <2>1, NamesAreKnown
<1> HIDE DEF once
<1>9. Names(more.niosx) \subseteq Names(once.niosx)
  <2>1. Names(in.niosx) \subseteq Names(once.niosx)
    BY <1>1, <1>2, <1>7, MembersAreKnown
  <2> QED BY <1>5, <1>6, <2>1 DEF Brings
<1>10. Merge(once, more, later) = once
  BY <1>6, <1>7, <1>8, <1>9, MergedAgain
<1> QED BY <1>10 DEF AddsOnce, once, more, later, in, c

(* Both ways into the sizer keep the document.                             *)
LEMMA EntryKeeps ==
  ASSUME SizerInv, Enter \/ \E scan \in Scans : Import(scan)
  PROVE  DocumentKept
<1>1. DocOK(live)
  BY DEF SizerInv
<1>2. ASSUME NEW s, DocOK(s), NEW v, NEW p, NEW pending, Commit(s, v, p, pending),
             live.regions \subseteq s.regions, live.countries \subseteq s.countries,
             live.cities \subseteq s.cities, live.sites \subseteq s.sites,
             live.niosx \subseteq s.niosx, s.xaas = live.xaas, s.mode = live.mode,
             s.overrides = live.overrides
      PROVE  DocumentKept
  <2>1. SameBut(s, live', {"selected", "niosx"})
    BY <1>2, Committed
  <2>2. \A m \in s.niosx : \E k \in live'.niosx : k.id = m.id /\ (m.manual => k = m)
    BY <1>2, MembersStay
  <2> QED BY <1>2, <2>1, <2>2 DEF DocumentKept, SameBut, Empty
<1>3. CASE Enter
  BY <1>1, <1>2, <1>3 DEF Enter
<1>4. ASSUME NEW scan \in Scans, Import(scan) PROVE DocumentKept
  <2> DEFINE in == Incoming(scan)
             c  == Containers(scan)
             t  == Merge(live, in, c)
  <2>1. PICK at : Commit(SetStep(t, at), "sizer", 0, due)
    BY <1>4 DEF Import
  <2>2. /\ IncomingOK(in) /\ c.country \in Nat /\ c.city \in Nat
        /\ \A n \in in.sites : \A m \in live.sites : m.id # n.id
    BY ScanFits
  <2> HIDE DEF in, c
  <2>3. DocOK(t)
    BY <1>1, <2>2, Merged
  <2>4. /\ live.regions \subseteq t.regions /\ live.countries \subseteq t.countries
        /\ live.cities \subseteq t.cities /\ live.sites \subseteq t.sites
        /\ live.niosx \subseteq t.niosx /\ t.xaas = live.xaas /\ t.mode = live.mode
        /\ t.overrides = live.overrides
    BY <1>1, <2>2, MergeKeeps
  <2> HIDE DEF t
  <2> DEFINE s == SetStep(t, at)
  <2>5. DocOK(s)
    BY <2>3, PathAndStep
  <2>6. /\ s.regions = t.regions /\ s.countries = t.countries /\ s.cities = t.cities
        /\ s.sites = t.sites /\ s.niosx = t.niosx /\ s.xaas = t.xaas /\ s.mode = t.mode
        /\ s.overrides = t.overrides
    BY <2>3 DEF SetStep, DocOK, Empty
  <2> HIDE DEF s
  <2>7. Commit(s, "sizer", 0, due)
    BY <2>1 DEF s
  <2> QED BY <1>2, <2>4, <2>5, <2>6, <2>7
<1> QED BY <1>3, <1>4

(* Entering the sizer keeps the document (only tiers nobody chose may      *)
(* change), and importing a scan again adds nothing (mergeFullState):      *)
(* whatever was typed, deleted or imported before.                         *)
THEOREM ImportsKeep == Spec => ImportKeeps
<1>1. SizerInv /\ [Next]_vars =>
        [view = "elsewhere" /\ view' = "sizer" =>
           DocumentKept /\ \A scan \in Scans : AddsOnce(scan)]_vars
  BY Entries, EntryKeeps, ImportAgain
<1> QED BY <1>1, SizerInductive, PTL DEF Spec, ImportKeeps

-----------------------------------------------------------------------------
(* Settings and report.                                                    *)

(* The settings as a record; a toggle nobody used is in neither set.       *)
SettingsRecord ==
  [growth : Percents \cup {20}, advanced : BOOLEAN,
   overhead : [Categories -> Percents \cup {Undefined}],
   on : SUBSET Switched, off : SUBSET Switched]

(* The switch for the advanced overheads is stored in two places, and no   *)
(* toggle is both on and off.                                              *)
Agree ==
  /\ "advanced" \in DOMAIN ui /\ ui.advanced = settings.advanced
  /\ settings.on \cap settings.off = {}

(* The rest of the state has the fields it began with.                     *)
Shape ==
  /\ DOMAIN ui = {"open", "advanced", "auto"}
  /\ DOMAIN sec = {"enabled", "soc", "verified", "unverified", "dossier", "lookalikes"}
  /\ DOMAIN typed = AssetFields

ReportInv == settings \in SettingsRecord /\ Agree /\ Shape /\ AssetsFromTheirSource

LEMMA ReportInvInit == ReportInit => ReportInv
BY DEF ReportInit, ReportInv, SettingsRecord, Agree, Shape, AssetsFromTheirSource, NoSettings,
  NoUi, NoSecurity, NoAssets, AssetFields, Sections

(* When the numbers of assets are filled in, they are those of the sum     *)
(* that is noted with them.                                                *)
LEMMA FilledAssets ==
  ASSUME ReportInv, NEW u, NEW p, DOMAIN u = {"open", "advanced", "auto"},
         u.auto = ui.auto, UNCHANGED typed,
         FillIfNew(u, p) \/ Recalculated(u)
  PROVE  /\ (DOMAIN ui = DOMAIN u)' /\ (DOMAIN sec)' = DOMAIN sec
         /\ AssetsFromTheirSource' /\ ui'.advanced = u.advanced
<1>1. CASE Recalculated(u)
  <2>1. PICK s : s = Sums(doc.sites)
    OBVIOUS
  <2> HIDE DEF Sums
  <2>2. sec' = WithSums(sec, s) /\ ui' = [u EXCEPT !.auto = AssetFields] /\ summed' = s
    BY <1>1, <2>1 DEF Recalculated
  <2> QED
    BY <2>2 DEF WithSums, AssetsFromTheirSource, AssetFields, ReportInv, Shape
<1>2. CASE ui' = u /\ UNCHANGED <<sec, summed>>
  BY <1>2 DEF AssetsFromTheirSource, AssetFields, ReportInv, Shape
<1> QED
  BY <1>1, <1>2 DEF FillIfNew

(* New settings that agree with what is shown keep the invariant.          *)
LEMMA SettingsStep ==
  ASSUME settings \in SettingsRecord, Agree, Shape,
         NEW section, NEW new \in SettingsRecord, SetSettings(section, new),
         new.on \cap new.off = {}, DOMAIN ui' = DOMAIN ui, ui'.advanced = new.advanced,
         ui'.auto = ui.auto, AssetsFromTheirSource
  PROVE  ReportInv'
BY DEF ReportInv, SettingsRecord, Agree, Shape, SetSettings, AssetsFromTheirSource

LEMMA TogglesStep ==
  ASSUME ReportInv, NEW t \in Switched, SetModuleToggle(t)
  PROVE  ReportInv'
<1> USE DEF ReportInv
<1>1. PICK new : new = IF IsShownOn(t) THEN [settings EXCEPT !.on = @ \ {t}, !.off = @ \cup {t}]
                       ELSE [settings EXCEPT !.on = @ \cup {t}, !.off = @ \ {t}]
  OBVIOUS
<1>2. SetSettings("modules", new) /\ UNCHANGED ui
  BY <1>1 DEF SetModuleToggle
<1>3. /\ new \in SettingsRecord
      /\ new.on \cap new.off = {} /\ new.advanced = settings.advanced
  <2>1. CASE IsShownOn(t)
    BY <1>1, <2>1 DEF SettingsRecord, Agree
  <2>2. CASE ~ IsShownOn(t)
    BY <1>1, <2>2 DEF SettingsRecord, Agree
  <2> QED
    BY <2>1, <2>2
<1> QED
  BY <1>2, <1>3, SettingsStep DEF Agree

LEMMA GrowthStep ==
  ASSUME ReportInv,
         \/ \E n \in Percents : SetGrowthBuffer(n)
         \/ \E c \in Tuned, n \in Percents \cup {Undefined} : SetOverhead(c, n)
         \/ ToggleAdvanced
  PROVE  ReportInv'
<1> USE DEF ReportInv
<1>1. CASE \E n \in Percents : SetGrowthBuffer(n)
  <2>1. PICK n \in Percents : SetGrowthBuffer(n)
    BY <1>1
  <2>2. PICK new : new = [settings EXCEPT !.growth = n]
    OBVIOUS
  <2>3. SetSettings("growth", new) /\ UNCHANGED ui
    BY <2>1, <2>2 DEF SetGrowthBuffer
  <2> QED
    BY <2>2, <2>3, SettingsStep DEF SettingsRecord, Agree
<1>2. CASE \E c \in Tuned, n \in Percents \cup {Undefined} : SetOverhead(c, n)
  <2>1. PICK c \in Tuned, n \in Percents \cup {Undefined} : SetOverhead(c, n)
    BY <1>2
  <2>2. PICK new : new = [settings EXCEPT !.overhead[c] = n]
    OBVIOUS
  <2>3. SetSettings("growth", new) /\ UNCHANGED ui
    BY <2>1, <2>2 DEF SetOverhead
  <2> QED
    BY <2>2, <2>3, SettingsStep DEF SettingsRecord, Agree
<1>3. CASE ToggleAdvanced
  <2>2. PICK new : new = [settings EXCEPT !.advanced = ~ ui.advanced]
    OBVIOUS
  <2>3. SetSettings("growth", new) /\ ui' = [ui EXCEPT !.advanced = ~ @]
    BY <1>3, <2>2 DEF ToggleAdvanced
  <2>4. ui.advanced \in BOOLEAN
    BY DEF SettingsRecord, Agree
  <2> QED
    BY <2>2, <2>3, <2>4, SettingsStep DEF SettingsRecord, Agree, Shape
<1> QED
  BY <1>1, <1>2, <1>3

LEMMA SecurityStep ==
  ASSUME ReportInv,
         \/ Recalculate \/ Enable \/ SetSoc
         \/ \E f \in AssetFields, n \in Counts : TypeAssets(f, n)
         \/ \E n \in Queries : TypeQueries(n)
  PROVE  ReportInv'
<1> USE DEF ReportInv
<1>1. CASE Recalculate
  BY <1>1, FilledAssets DEF Recalculate, Shape, SettingsRecord, Agree
<1>2. ASSUME NEW f \in AssetFields, NEW n \in Counts, TypeAssets(f, n) PROVE ReportInv'
  BY <1>2 DEF TypeAssets, Shape, SettingsRecord, Agree, AssetsFromTheirSource, AssetFields
<1>3. ASSUME NEW s, SetSecurity(s), DOMAIN s = DOMAIN sec, \A f \in AssetFields : s[f] = sec[f]
      PROVE  ReportInv'
  BY <1>3 DEF SetSecurity, Shape, SettingsRecord, Agree, AssetsFromTheirSource
<1>4. CASE Enable
  BY <1>3, <1>4 DEF Enable, Shape, AssetFields
<1>5. CASE SetSoc
  BY <1>3, <1>5 DEF SetSoc, Shape, AssetFields
<1>6. ASSUME NEW n \in Queries, TypeQueries(n) PROVE ReportInv'
  <2>1. CASE SetSecurity([sec EXCEPT !.dossier = n])
    BY <1>3, <2>1 DEF Shape, AssetFields
  <2>2. CASE SetSecurity([sec EXCEPT !.lookalikes = n])
    BY <1>3, <2>2 DEF Shape, AssetFields
  <2> QED
    BY <1>6, <2>1, <2>2 DEF TypeQueries
<1> QED
  BY <1>1, <1>2, <1>4, <1>5, <1>6

LEMMA PagesStep ==
  ASSUME ReportInv,
         \/ ReportStartOver \/ UNCHANGED reportVars
         \/ \E k \in Folded : ToggleSection(k)
         \/ \E p \in {"settings", "report", "elsewhere"} : Turn(p)
         \/ \E d \in Documents : Work(d)
         \/ \E s \in doc.sites, n \in Counts : EditAddresses(s, n)
  PROVE  ReportInv'
<1> USE DEF ReportInv
<1>1. CASE ReportStartOver
  BY <1>1 DEF ReportStartOver, SettingsRecord, Agree, Shape, AssetsFromTheirSource, NoSettings,
    NoUi, NoSecurity, NoAssets, AssetFields, Sections
<1>2. ASSUME NEW k, ToggleSection(k) PROVE ReportInv'
  <2>1. PICK u : u = [ui EXCEPT !.open = IF k \in @ THEN @ \ {k} ELSE @ \cup {k}]
    OBVIOUS
  <2>2. DOMAIN u = {"open", "advanced", "auto"} /\ u.auto = ui.auto /\ u.advanced = ui.advanced
    BY <2>1 DEF Shape
  <2>3. FillIfNew(u, page) /\ UNCHANGED <<settings, typed>>
    BY <1>2, <2>1 DEF ToggleSection
  <2> QED
    BY <2>2, <2>3, FilledAssets DEF SettingsRecord, Agree, Shape
<1>3. ASSUME NEW p, Turn(p) PROVE ReportInv'
  BY <1>3, FilledAssets DEF Turn, SettingsRecord, Agree, Shape
<1>4. CASE UNCHANGED <<settings, sec, ui, typed, summed>>
  BY <1>4 DEF SettingsRecord, Agree, Shape, AssetsFromTheirSource
<1> QED
  BY <1>1, <1>2, <1>3, <1>4 DEF Work, EditAddresses, reportVars

(* The invariant of step 4 and the report holds whatever the sites are,    *)
(* what is typed, opened and closed, and how often.                        *)
THEOREM ReportInductive == ReportSpec => []ReportInv
<1>1. ReportInv /\ [ReportNext]_reportVars => ReportInv'
  BY TogglesStep, GrowthStep, SecurityStep, PagesStep DEF ReportNext
<1> QED
  BY <1>1, ReportInvInit, PTL DEF ReportSpec

(* The percentages and toggles on show are those the totals are calculated *)
(* with: resolveOverheads reads the stored switch, the growth section the  *)
(* one of the user interface, and only TOGGLE_GROWTH_ADVANCED and a reset  *)
(* change either.  The caption of the bill (results-bom.tsx) reads neither *)
(* and is right where no category has an overhead of its own.              *)
THEOREM SettingsShown == ReportSpec => []SettingsAsShown
<1>1. ReportInv => SettingsAsShown
  <2> SUFFICES ASSUME ReportInv PROVE SettingsAsShown
    OBVIOUS
  <2> USE DEF ReportInv
  <2>1. \A c \in Categories : ShownOverhead(c) = Overheads[c]
    BY DEF Agree, ShownOverhead, Overheads
  <2>2. ASSUME NEW c \in Billed, ~(ui.advanced /\ settings.overhead[c] # Undefined)
        PROVE  CaptionedOverhead(c) = Overheads[c]
    BY <2>2 DEF Agree, Billed, Categories, CaptionedOverhead, Overheads, Or
  <2>3. ASSUME NEW t \in {"csp", "s3", "cdc", "dns", "dhcp"}, t \in settings.on \cup settings.off
        PROVE  IsShownOn(t) <=> t \in ReportingToggles
    BY <2>3 DEF Agree, IsShownOn, ReportingToggles
  <2> QED
    BY <2>1, <2>2, <2>3 DEF SettingsAsShown
<1> QED
  BY <1>1, ReportInductive, PTL

(* A number of assets is what the badge beside it says: every action that  *)
(* sets a number sets the badge, although the section also fills the       *)
(* numbers by itself when it is mounted.                                   *)
THEOREM AssetsKeepTheirSource == ReportSpec => []AssetsFromTheirSource
<1>1. ReportInv => AssetsFromTheirSource
  BY DEF ReportInv
<1> QED
  BY <1>1, ReportInductive, PTL

-----------------------------------------------------------------------------
(* What the report adds up.                                                *)

LEMMA MaxOfThree ==
  ASSUME NEW a \in Nat, NEW b \in Nat, NEW c \in Nat
  PROVE  /\ Max({a, b, c}) \in Nat /\ Max({a, b, c}) \in {a, b, c}
         /\ a <= Max({a, b, c}) /\ b <= Max({a, b, c}) /\ c <= Max({a, b, c})
<1>1. \E x \in {a, b, c} : \A y \in {a, b, c} : x >= y
  <2>1. CASE a >= b /\ a >= c
    BY <2>1
  <2>2. CASE b >= a /\ b >= c
    BY <2>2
  <2>3. CASE c >= a /\ c >= b
    BY <2>3
  <2> QED
    BY <2>1, <2>2, <2>3
<1>2. Max({a, b, c}) \in {a, b, c} /\ \A y \in {a, b, c} : Max({a, b, c}) >= y
  BY <1>1 DEF Max
<1> QED
  BY <1>2

(* A product of doubles, rounded up, is the exact one or one more. *)
LEMMA DoubleIs ==
  ASSUME NEW num \in Nat, NEW den \in Nat \ {0}, NEW factors
  PROVE  /\ CeilDouble(num, den, factors) \in Nat
         /\ CeilDiv(num, den) <= CeilDouble(num, den, factors)
         /\ CeilDouble(num, den, factors) <= CeilDiv(num, den) + 1
<1>1. CeilDiv(num, den) \in Nat
  BY CeilIs
<1> QED
  BY <1>1 DEF CeilDouble

(* The numbers of a site. *)
SiteSet(sites) == IsFiniteSet(sites) /\ \A s \in sites : IsSite(s)

LEMMA KnownFields ==
  ASSUME NEW s, IsSite(s)
  PROVE  /\ s.multiplier \in Nat /\ AtLeastOne(s.multiplier) \in Nat
         /\ Known(s.activeIPs) \in Nat /\ Known(s.dnsRecords) \in Nat /\ Known(s.dhcpScopes) \in Nat
         /\ Known(s.assets) \in Nat /\ Known(s.verified) \in Nat /\ Known(s.unverified) \in Nat
         /\ Known(s.qps) \in Nat /\ Or(s.lease, LeaseHours) \in Nat \ {0}
<1>1. /\ s.multiplier \in Nat \ {0}
      /\ s.activeIPs \in Nat \cup {Undefined} /\ s.dnsRecords \in Nat \cup {Undefined}
      /\ s.dhcpScopes \in Nat \cup {Undefined} /\ s.assets \in Nat \cup {Undefined}
      /\ s.verified \in Nat \cup {Undefined} /\ s.unverified \in Nat \cup {Undefined}
      /\ s.qps \in Nat \cup {Undefined}
      /\ s.lease \in (Nat \ {0}) \cup {Undefined}
  BY DEF IsSite
<1> QED
  BY <1>1 DEF Known, Or, AtLeastOne, LeaseHours, Undefined

Ips(s) == Known(s.activeIPs) * s.multiplier
Assets(s) == Known(s.assets) * s.multiplier

LEMMA SiteNumbers ==
  ASSUME NEW s, IsSite(s)
  PROVE  /\ DdiObjects(s) \in Nat /\ Ips(s) \in Nat /\ Assets(s) \in Nat
         /\ Known(s.activeIPs) * AtLeastOne(s.multiplier) \in Nat
         /\ Known(s.verified) * s.multiplier \in Nat /\ Known(s.unverified) * s.multiplier \in Nat
<1> DEFINE m == s.multiplier
<1>1. \A a, b \in Nat : a * b \in Nat
  OBVIOUS
<1> QED
  BY <1>1, KnownFields DEF DdiObjects, Ips, Assets

DdiOf(sites) == CeilDiv(SumFunction([s \in sites |-> DdiObjects(s)]), 25)
IpsOf(sites) == CeilDiv(SumFunction([s \in sites |-> Ips(s)]), 13)
AssetsOf(sites) == CeilDiv(SumFunction([s \in sites |-> Assets(s)]), 3)
MostTokens(sites) == Max({DdiOf(sites), IpsOf(sites), AssetsOf(sites)})

LEMMA ManagementIs ==
  \A sites, p : ManagementTokens(sites, p)
                  = CeilDouble(MostTokens(sites) * (100 + p), 100, <<MostTokens(sites), p>>)
  BY DEF ManagementTokens, SumOver, PerToken, MostTokens, DdiOf, IpsOf, AssetsOf, Ips, Assets

LEMMA MostIs ==
  ASSUME NEW sites, SiteSet(sites)
  PROVE  /\ MostTokens(sites) \in Nat
         /\ MostTokens(sites) \in {DdiOf(sites), IpsOf(sites), AssetsOf(sites)}
         /\ DdiOf(sites) \in Nat /\ IpsOf(sites) \in Nat /\ AssetsOf(sites) \in Nat
         /\ DdiOf(sites) <= MostTokens(sites) /\ IpsOf(sites) <= MostTokens(sites)
         /\ AssetsOf(sites) <= MostTokens(sites)
<1>1. ASSUME NEW f \in [sites -> Nat], NEW r \in Nat \ {0} PROVE CeilDiv(SumFunction(f), r) \in Nat
  <2>1. SumFunction(f) \in Nat
    BY SumNat DEF SiteSet
  <2> QED
    BY <2>1, CeilIs
<1>2. /\ [s \in sites |-> DdiObjects(s)] \in [sites -> Nat]
      /\ [s \in sites |-> Ips(s)] \in [sites -> Nat]
      /\ [s \in sites |-> Assets(s)] \in [sites -> Nat]
  BY SiteNumbers DEF SiteSet
<1>3. DdiOf(sites) \in Nat /\ IpsOf(sites) \in Nat /\ AssetsOf(sites) \in Nat
  BY <1>1, <1>2 DEF DdiOf, IpsOf, AssetsOf
<1> QED
  BY <1>3, MaxOfThree DEF MostTokens

Group(sites, k, x) == {s \in sites : k[s] = x}

LEMMA FewerSites ==
  ASSUME NEW sites, SiteSet(sites), NEW part \in SUBSET sites
  PROVE  SiteSet(part)
  BY FS_Subset DEF SiteSet

(* One resource of all sites, and of the sites of each group. *)
LEMMA ResourceOfGroups ==
  ASSUME NEW sites, IsFiniteSet(sites), NEW S, IsFiniteSet(S), NEW k \in [sites -> S],
         NEW f \in [sites -> Nat], NEW r \in Nat \ {0}, NEW parts \in [S -> Nat],
         \A x \in S : CeilDiv(SumFunction([s \in Group(sites, k, x) |-> f[s]]), r) <= parts[x]
  PROVE  CeilDiv(SumFunction(f), r) <= SumFunction(parts)
  BY CeilByGroup DEF Group

LEMMA MostOfGroups ==
  ASSUME NEW sites, SiteSet(sites), NEW S, IsFiniteSet(S), NEW k \in [sites -> S],
         NEW parts \in [S -> Nat], \A x \in S : parts[x] = MostTokens(Group(sites, k, x))
  PROVE  MostTokens(sites) <= SumFunction(parts)
<1>1. ASSUME NEW x \in S
      PROVE  /\ DdiOf(Group(sites, k, x)) <= parts[x] /\ IpsOf(Group(sites, k, x)) <= parts[x]
             /\ AssetsOf(Group(sites, k, x)) <= parts[x]
             /\ Group(sites, k, x) \in SUBSET sites
  <2>1. Group(sites, k, x) \in SUBSET sites
    BY DEF Group
  <2> QED
    BY <2>1, FewerSites, MostIs
<1>2. IsFiniteSet(sites)
  BY DEF SiteSet
<1>3. DdiOf(sites) <= SumFunction(parts)
  <2> DEFINE f == [s \in sites |-> DdiObjects(s)]
  <2>1. f \in [sites -> Nat]
    BY SiteNumbers DEF SiteSet
  <2>2. \A x \in S : [s \in Group(sites, k, x) |-> f[s]]
                        = [s \in Group(sites, k, x) |-> DdiObjects(s)]
    BY <1>1
  <2>3. \A x \in S : CeilDiv(SumFunction([s \in Group(sites, k, x) |-> f[s]]), 25) <= parts[x]
    BY <1>1, <2>2 DEF DdiOf
  <2>4. DdiOf(sites) = CeilDiv(SumFunction(f), 25)
    BY DEF DdiOf
  <2> HIDE DEF f
  <2>5. CeilDiv(SumFunction(f), 25) <= SumFunction(parts)
    BY <1>2, <2>1, <2>3, ResourceOfGroups
  <2> QED
    BY <2>4, <2>5
<1>4. IpsOf(sites) <= SumFunction(parts)
  <2> DEFINE f == [s \in sites |-> Ips(s)]
  <2>1. f \in [sites -> Nat]
    BY SiteNumbers DEF SiteSet
  <2>2. \A x \in S : [s \in Group(sites, k, x) |-> f[s]] = [s \in Group(sites, k, x) |-> Ips(s)]
    BY <1>1
  <2>3. \A x \in S : CeilDiv(SumFunction([s \in Group(sites, k, x) |-> f[s]]), 13) <= parts[x]
    BY <1>1, <2>2 DEF IpsOf
  <2>4. IpsOf(sites) = CeilDiv(SumFunction(f), 13)
    BY DEF IpsOf
  <2> HIDE DEF f
  <2>5. CeilDiv(SumFunction(f), 13) <= SumFunction(parts)
    BY <1>2, <2>1, <2>3, ResourceOfGroups
  <2> QED
    BY <2>4, <2>5
<1>5. AssetsOf(sites) <= SumFunction(parts)
  <2> DEFINE f == [s \in sites |-> Assets(s)]
  <2>1. f \in [sites -> Nat]
    BY SiteNumbers DEF SiteSet
  <2>2. \A x \in S : [s \in Group(sites, k, x) |-> f[s]] = [s \in Group(sites, k, x) |-> Assets(s)]
    BY <1>1
  <2>3. \A x \in S : CeilDiv(SumFunction([s \in Group(sites, k, x) |-> f[s]]), 3) <= parts[x]
    BY <1>1, <2>2 DEF AssetsOf
  <2>4. AssetsOf(sites) = CeilDiv(SumFunction(f), 3)
    BY DEF AssetsOf
  <2> HIDE DEF f
  <2>5. CeilDiv(SumFunction(f), 3) <= SumFunction(parts)
    BY <1>2, <2>1, <2>3, ResourceOfGroups
  <2> QED
    BY <2>4, <2>5
<1> QED
  BY <1>3, <1>4, <1>5, MostIs

LEMMA ManagementType ==
  ASSUME NEW sites, SiteSet(sites), NEW p \in Nat
  PROVE  /\ ManagementTokens(sites, p) \in Nat
         /\ CeilDiv(MostTokens(sites) * (100 + p), 100) <= ManagementTokens(sites, p)
         /\ ManagementTokens(sites, p) <= CeilDiv(MostTokens(sites) * (100 + p), 100) + 1
<1>1. MostTokens(sites) * (100 + p) \in Nat
  <2>1. MostTokens(sites) \in Nat /\ 100 + p \in Nat
    BY MostIs
  <2> HIDE DEF MostTokens
  <2> QED
    BY <2>1
<1> DEFINE num == MostTokens(sites) * (100 + p)
           factors == <<MostTokens(sites), p>>
<1>2. ManagementTokens(sites, p) = CeilDouble(num, 100, factors)
  BY ManagementIs
<1>3. num \in Nat
  BY <1>1
<1> HIDE DEF num, factors
<1>4. /\ CeilDouble(num, 100, factors) \in Nat
      /\ CeilDiv(num, 100) <= CeilDouble(num, 100, factors)
      /\ CeilDouble(num, 100, factors) <= CeilDiv(num, 100) + 1
  BY <1>3, DoubleIs
<1> QED
  BY <1>2, <1>4 DEF num

(* Management of all sites is no more than that of the groups and one. *)
LEMMA ManagementOfGroups ==
  ASSUME NEW sites, SiteSet(sites), NEW S, IsFiniteSet(S), NEW k \in [sites -> S], NEW p \in Nat,
         NEW got \in [S -> Nat], \A x \in S : got[x] = ManagementTokens(Group(sites, k, x), p)
  PROVE  ManagementTokens(sites, p) <= SumFunction(got) + 1
<1> DEFINE parts == [x \in S |-> MostTokens(Group(sites, k, x))]
<1>1. \A x \in S : SiteSet(Group(sites, k, x))
  BY FewerSites DEF Group
<1>2. parts \in [S -> Nat] /\ \A x \in S : parts[x] = MostTokens(Group(sites, k, x))
  BY <1>1, MostIs
<1>3. \A x \in S : CeilDiv(parts[x] * (100 + p), 100) <= got[x]
  BY <1>1, <1>2, ManagementType
<1> HIDE DEF parts
<1>4. MostTokens(sites) <= SumFunction(parts) /\ MostTokens(sites) \in Nat
  BY <1>2, MostIs, MostOfGroups
<1>5. CeilDiv(MostTokens(sites) * (100 + p), 100) <= SumFunction(got)
  <2> DEFINE whole == MostTokens(sites)
             c     == 100 + p
             r     == 100
  <2>1. /\ c \in Nat /\ r \in Nat \ {0} /\ whole \in Nat /\ whole <= SumFunction(parts)
        /\ \A x \in S : CeilDiv(parts[x] * c, r) <= got[x]
    BY <1>3, <1>4
  <2> HIDE DEF whole, c, r
  <2>2. parts \in [S -> Nat]
    BY <1>2
  <2>3. CeilDiv(whole * c, r) <= SumFunction(got)
    BY <2>1, <2>2, ScaledParts
  <2> QED
    BY <2>3 DEF whole, c, r
<1>6. SumFunction(got) \in Nat /\ CeilDiv(MostTokens(sites) * (100 + p), 100) \in Nat
  <2>1. SumFunction(got) \in Nat
    BY SumNat
  <2>2. MostTokens(sites) * (100 + p) \in Nat
    BY <1>4
  <2> QED
    BY <2>1, <2>2, CeilIs
<1> QED
  BY <1>5, <1>6, ManagementType

(* By site, only those that are listed. *)
LEMMA ManagementBySite ==
  ASSUME NEW sites, SiteSet(sites), NEW p \in Nat,
         NEW listed \in [{s \in sites : SourceTokens(s, p) > 0} -> Nat],
         \A s \in DOMAIN listed : listed[s] = SourceTokens(s, p)
  PROVE  ManagementTokens(sites, p) <= SumFunction(listed) + 1
<1> DEFINE all == [s \in sites |-> SourceTokens(s, p)]
           k   == [s \in sites |-> s]
<1>1. k \in [sites -> sites] /\ IsFiniteSet(sites) /\ \A s \in sites : Group(sites, k, s) = {s}
  BY DEF Group, SiteSet
<1>2. \A s \in sites : SiteSet({s})
  BY FewerSites
<1>3. \A s \in sites : all[s] = ManagementTokens(Group(sites, k, s), p) /\ all[s] \in Nat
  BY <1>1, <1>2, ManagementType DEF SourceTokens
<1>4. all \in [sites -> Nat]
  BY <1>3
<1>5. \A s \in sites : all[s] = SourceTokens(s, p)
  OBVIOUS
<1> HIDE DEF all, k
<1>6. ManagementTokens(sites, p) <= SumFunction(all) + 1
  BY <1>1, <1>3, <1>4, ManagementOfGroups
<1>7. SumFunction(listed) = SumFunction(all)
  <2> DEFINE A == DOMAIN listed
  <2>1. /\ all \in [sites -> Int] /\ A \in SUBSET sites /\ listed \in [A -> Int]
        /\ (\A s \in sites \ A : all[s] = 0) /\ (\A s \in A : listed[s] = all[s])
    BY <1>4, <1>5
  <2> HIDE DEF A
  <2> QED
    BY <1>1, <2>1, SumOfNonzero
<1> QED
  BY <1>6, <1>7

LEMMA RegionGroups ==
  ASSUME NEW sites, IsFiniteSet(sites)
  PROVE  /\ IsFiniteSet(RegionsOf(sites))
         /\ [s \in sites |-> s.region] \in [sites -> RegionsOf(sites)]
         /\ \A r : Group(sites, [s \in sites |-> s.region], r) = InRegion(sites, r)
<1> DEFINE k == [s \in sites |-> s.region]
<1>1. DOMAIN k = sites /\ RegionsOf(sites) = {k[s] : s \in sites}
  BY DEF RegionsOf
<1>2. IsFiniteSet(RegionsOf(sites))
  <2> HIDE DEF k
  <2> QED
    BY <1>1, FiniteImage
<1> QED
  BY <1>1, <1>2 DEF RegionsOf, InRegion, Group

LEMMA ManagementByRegion ==
  ASSUME NEW sites, SiteSet(sites), NEW p \in Nat
  PROVE  ManagementTokens(sites, p)
           <= SumFunction([r \in RegionsOf(sites) |-> ManagementTokens(InRegion(sites, r), p)]) + 1
<1> DEFINE k   == [s \in sites |-> s.region]
           S   == RegionsOf(sites)
           got == [r \in S |-> ManagementTokens(InRegion(sites, r), p)]
<1>1. k \in [sites -> S] /\ IsFiniteSet(S) /\ \A r : Group(sites, k, r) = InRegion(sites, r)
  BY RegionGroups DEF SiteSet
<1>2. \A r \in S : got[r] = ManagementTokens(Group(sites, k, r), p) /\ got[r] \in Nat
  <2>1. \A r \in S : SiteSet(InRegion(sites, r))
    BY FewerSites DEF InRegion
  <2> QED
    BY <1>1, <2>1, ManagementType
<1>3. got \in [S -> Nat]
  BY <1>2
<1> HIDE DEF got, k, S
<1>4. ManagementTokens(sites, p) <= SumFunction(got) + 1
  BY <1>1, <1>2, <1>3, ManagementOfGroups
<1> QED
  BY <1>4 DEF got, S

(* The table of regions. *)
LEMMA RowsByRegion ==
  ASSUME NEW sites, SiteSet(sites)
  PROVE  RowTokens(sites) <= SumFunction([r \in RegionsOf(sites) |-> RowTokens(InRegion(sites, r))])
<1> DEFINE k   == [s \in sites |-> s.region]
           S   == RegionsOf(sites)
           f   == [s \in sites |-> Known(s.activeIPs) * AtLeastOne(s.multiplier)]
           got == [r \in S |-> RowTokens(InRegion(sites, r))]
<1>0. IsFiniteSet(sites)
  BY DEF SiteSet
<1>1. k \in [sites -> S] /\ IsFiniteSet(S) /\ \A r : Group(sites, k, r) = InRegion(sites, r)
  BY <1>0, RegionGroups
<1>2. f \in [sites -> Nat]
  BY SiteNumbers DEF SiteSet
<1>3. RowTokens(sites) = CeilDiv(SumFunction(f), 13)
  BY DEF RowTokens, SumOver, PerToken
<1>4. \A r \in S : got[r] = CeilDiv(SumFunction([s \in Group(sites, k, r) |-> f[s]]), 13)
  <2> SUFFICES ASSUME NEW r \in S
               PROVE  got[r] = CeilDiv(SumFunction([s \in Group(sites, k, r) |-> f[s]]), 13)
    OBVIOUS
  <2>1. got[r] = CeilDiv(SumFunction([s \in InRegion(sites, r) |->
                           Known(s.activeIPs) * AtLeastOne(s.multiplier)]), 13)
    BY DEF RowTokens, SumOver, PerToken
  <2>2. [s \in InRegion(sites, r) |-> Known(s.activeIPs) * AtLeastOne(s.multiplier)]
          = [s \in Group(sites, k, r) |-> f[s]]
    BY <1>1 DEF InRegion
  <2> QED
    BY <2>1, <2>2
<1>5. got \in [S -> Nat]
  <2>1. ASSUME NEW r \in S PROVE got[r] \in Nat
    <3> DEFINE A == Group(sites, k, r)
               g == [s \in A |-> f[s]]
    <3>1. A \in SUBSET sites
      BY DEF Group
    <3>2. IsFiniteSet(A) /\ g \in [A -> Nat]
      BY <1>0, <1>2, <3>1, FS_Subset
    <3>3. got[r] = CeilDiv(SumFunction(g), 13)
      BY <1>4
    <3> HIDE DEF A, g, got
    <3>4. SumFunction(g) \in Nat
      BY <3>2, SumNat
    <3> QED
      BY <3>3, <3>4, CeilIs
  <2> QED
    BY <2>1
<1> DEFINE thirteen == 13
<1>6. /\ thirteen \in Nat \ {0} /\ RowTokens(sites) = CeilDiv(SumFunction(f), thirteen)
      /\ \A r \in S : CeilDiv(SumFunction([s \in Group(sites, k, r) |-> f[s]]), thirteen) <= got[r]
  BY <1>3, <1>4, <1>5
<1> HIDE DEF got, k, S, f, thirteen
<1>7. CeilDiv(SumFunction(f), thirteen) <= SumFunction(got)
  BY <1>0, <1>1, <1>2, <1>5, <1>6, ResourceOfGroups
<1> QED
  BY <1>6, <1>7 DEF got, S

(* The share of a site among its members. *)
LEMMA SharesOfSite ==
  ASSUME NEW sites, SiteSet(sites), OneForEachId(sites), NEW niosx, IsFiniteSet(niosx),
         NEW p \in Nat,
         NEW s \in sites, NEW own, own = {n \in niosx : n.site = s.id}, own # {}
  PROVE  SumFunction([n \in own |-> MemberTokens(n, niosx, sites, p)]) >= SourceTokens(s, p)
<1> DEFINE count == Cardinality(own)
           whole == SourceTokens(s, p)
           share == CeilDiv(whole, count)
           f     == [n \in own |-> MemberTokens(n, niosx, sites, p)]
<1>1. own \in SUBSET niosx /\ IsFiniteSet(own)
  BY FS_Subset
<1>2. count \in Nat \ {0}
  BY <1>1, FS_CardinalityType, FS_EmptySet
<1>3. whole \in Nat
  <2>1. SiteSet({s})
    BY FewerSites
  <2> QED
    BY <2>1, ManagementType DEF SourceTokens
<1>4. share \in Nat /\ whole <= share * count
  <2> HIDE DEF count, whole
  <2> QED
    BY <1>2, <1>3, CeilIs
<1>5. ASSUME NEW n \in own PROVE MemberTokens(n, niosx, sites, p) = share
  <2>1. {t \in sites : t.id = n.site} = {s}
    BY DEF OneForEachId
  <2>2. {m \in niosx : m.site = n.site} = own
    OBVIOUS
  <2> QED
    BY <2>1, <2>2 DEF MemberTokens, SourceTokens
<1>6. f \in [own -> Int] /\ \A n \in own : f[n] = share
  BY <1>4, <1>5
<1> HIDE DEF count, whole, share, f
<1>7. SumFunction(f) = Cardinality(own) * share
  <2>1. share \in Int
    BY <1>4
  <2> QED
    BY <1>1, <1>6, <2>1, SumConstant
<1>8. SumFunction(f) = count * share
  BY <1>7 DEF count
<1>9. count * share = share * count
  BY <1>2, <1>4
<1> QED
  BY <1>4, <1>8, <1>9 DEF f, whole

(* Logs. *)
DnsLogs(s) ==
  Known(s.qps) * (86400 \div 75) * s.multiplier
    * (DaysPerMonth * SplitIPs(s).static + WorkDaysPerMonth * SplitIPs(s).dynamic)
DhcpLogs(s) ==
  ((Or(s.lease, LeaseHours) + 18) \div Or(s.lease, LeaseHours))
    * WorkDaysPerMonth * SplitIPs(s).dynamic * s.multiplier

LogsOf(sites, on) ==
  (IF "dns" \in on THEN SumFunction([s \in sites |-> DnsLogs(s)]) ELSE 0)
    + (IF "dhcp" \in on THEN CeilDiv(SumFunction([s \in sites |-> DhcpLogs(s)]), 75) ELSE 0)

LEMMA LogUnitsAre == \A sites, on : LogUnits(sites, on) = CeilDiv(LogsOf(sites, on), EventsPerUnit)
  BY DEF LogUnits, SumOver, LogsOf, DnsLogs, DhcpLogs

LEMMA UnitIsNumber == EventsPerUnit \in Nat \ {0}
  BY SMT DEF EventsPerUnit

LEMMA SplitNat ==
  ASSUME NEW s, IsSite(s)
  PROVE  SplitIPs(s).static \in Nat /\ SplitIPs(s).dynamic \in Nat
<1> DEFINE ips == Known(s.activeIPs)
           dns == Known(s.dnsRecords)
<1>1. ips \in Nat /\ dns \in Nat
  BY KnownFields
<1> DEFINE dynamic == 50 * dns - 80 * ips
           static  == 60 * ips - dynamic
<1>2. dynamic \in Int /\ static \in Int
  <2> HIDE DEF ips, dns
  <2> QED
    BY <1>1
<1>3. SplitIPs(s) = IF dynamic < 0 \/ static < 0 THEN [static |-> 12 * ips, dynamic |-> 48 * ips]
                    ELSE [static |-> static, dynamic |-> dynamic]
  BY DEF SplitIPs
<1>4. 12 * ips \in Nat /\ 48 * ips \in Nat
  <2> HIDE DEF ips
  <2> QED
    BY <1>1
<1> HIDE DEF ips, dynamic, static
<1>5. CASE dynamic < 0 \/ static < 0
  BY <1>3, <1>4, <1>5
<1>6. CASE ~ (dynamic < 0 \/ static < 0)
  BY <1>2, <1>3, <1>6
<1> QED
  BY <1>5, <1>6

LEMMA LogsNat ==
  ASSUME NEW s, IsSite(s)
  PROVE  DnsLogs(s) \in Nat /\ DhcpLogs(s) \in Nat
<1>1. \A a, b \in Nat : a * b \in Nat /\ a + b \in Nat
  OBVIOUS
<1> DEFINE q == Known(s.qps)
           m == s.multiplier
           h == Or(s.lease, LeaseHours)
           u == SplitIPs(s).static
           v == SplitIPs(s).dynamic
<1>2. q \in Nat /\ m \in Nat /\ h \in Nat \ {0} /\ u \in Nat /\ v \in Nat
  BY KnownFields, SplitNat
<1> HIDE DEF q, m, h, u, v
<1>3. q * (86400 \div 75) * m * (31 * u + 22 * v) \in Nat
  BY <1>1, <1>2
<1>4. (h + 18) \div h \in Nat
  BY <1>2
<1>5. ((h + 18) \div h) * 22 * v * m \in Nat
  BY <1>1, <1>2, <1>4
<1> QED
  BY <1>3, <1>5 DEF DnsLogs, DhcpLogs, q, m, h, u, v, DaysPerMonth, WorkDaysPerMonth

LEMMA LogsType ==
  ASSUME NEW sites, SiteSet(sites), NEW on
  PROVE  /\ LogsOf(sites, on) \in Nat /\ LogUnits(sites, on) \in Nat
         /\ [s \in sites |-> DnsLogs(s)] \in [sites -> Nat]
         /\ [s \in sites |-> DhcpLogs(s)] \in [sites -> Nat]
         /\ SumFunction([s \in sites |-> DnsLogs(s)]) \in Nat
         /\ SumFunction([s \in sites |-> DhcpLogs(s)]) \in Nat
         /\ CeilDiv(SumFunction([s \in sites |-> DhcpLogs(s)]), 75) \in Nat
<1> DEFINE f == [s \in sites |-> DnsLogs(s)]
           g == [s \in sites |-> DhcpLogs(s)]
<1>1. f \in [sites -> Nat] /\ g \in [sites -> Nat] /\ IsFiniteSet(sites)
  BY LogsNat DEF SiteSet
<1>2. LogsOf(sites, on) = (IF "dns" \in on THEN SumFunction(f) ELSE 0)
                            + (IF "dhcp" \in on THEN CeilDiv(SumFunction(g), 75) ELSE 0)
  BY DEF LogsOf
<1> HIDE DEF f, g
<1>3. SumFunction(f) \in Nat
  BY <1>1, SumNat
<1>4. SumFunction(g) \in Nat
  BY <1>1, SumNat
<1>5. CeilDiv(SumFunction(g), 75) \in Nat
  BY <1>4, CeilIs
<1>6. LogsOf(sites, on) \in Nat
  BY <1>2, <1>3, <1>5
<1>7. LogUnits(sites, on) \in Nat
  BY <1>6, LogUnitsAre, CeilIs, UnitIsNumber
<1> QED
  BY <1>1, <1>3, <1>4, <1>5, <1>6, <1>7 DEF f, g

(* Log units of all sites are no more than those of the regions. *)
LEMMA UnitsByRegion ==
  ASSUME NEW sites, SiteSet(sites), NEW on, NEW S, S = RegionsOf(sites),
         NEW parts \in [S -> Nat], \A r \in S : parts[r] = LogUnits(InRegion(sites, r), on)
  PROVE  LogUnits(sites, on) <= SumFunction(parts)
<1> DEFINE k    == [s \in sites |-> s.region]
           f    == [s \in sites |-> DnsLogs(s)]
           g    == [s \in sites |-> DhcpLogs(s)]
           dns  == [r \in S |-> SumFunction([s \in InRegion(sites, r) |-> DnsLogs(s)])]
           dhcp == [r \in S |->
                      CeilDiv(SumFunction([s \in InRegion(sites, r) |-> DhcpLogs(s)]), 75)]
           logs == [r \in S |-> LogsOf(InRegion(sites, r), on)]
<1>0. IsFiniteSet(sites)
  BY DEF SiteSet
<1>1. k \in [sites -> S] /\ IsFiniteSet(S) /\ \A r : Group(sites, k, r) = InRegion(sites, r)
  BY <1>0, RegionGroups
<1>2. \A r : SiteSet(InRegion(sites, r))
  BY FewerSites DEF InRegion
<1>3. dns \in [S -> Nat] /\ dhcp \in [S -> Nat] /\ logs \in [S -> Nat]
  BY <1>2, LogsType
<1>4. /\ f \in [sites -> Nat] /\ g \in [sites -> Nat]
      /\ SumFunction(f) \in Nat /\ SumFunction(g) \in Nat
      /\ CeilDiv(SumFunction(g), 75) \in Nat
  BY LogsType
<1>5. LogsOf(sites, on) = (IF "dns" \in on THEN SumFunction(f) ELSE 0)
                            + (IF "dhcp" \in on THEN CeilDiv(SumFunction(g), 75) ELSE 0)
  BY DEF LogsOf
<1>6. \A r \in S : logs[r] = (IF "dns" \in on THEN dns[r] ELSE 0)
                                + (IF "dhcp" \in on THEN dhcp[r] ELSE 0)
  BY DEF LogsOf
<1>7. \A r \in S : dns[r] = SumFunction([s \in {y \in sites : k[y] = r} |-> f[s]])
  <2> SUFFICES ASSUME NEW r \in S
               PROVE  dns[r] = SumFunction([s \in {y \in sites : k[y] = r} |-> f[s]])
    OBVIOUS
  <2>1. {y \in sites : k[y] = r} = InRegion(sites, r)
    BY DEF InRegion
  <2>2. [s \in {y \in sites : k[y] = r} |-> f[s]] = [s \in InRegion(sites, r) |-> DnsLogs(s)]
    BY <2>1 DEF InRegion
  <2> QED
    BY <2>2
<1>8. \A r \in S : dhcp[r] = CeilDiv(SumFunction([s \in Group(sites, k, r) |-> g[s]]), 75)
  <2> SUFFICES ASSUME NEW r \in S
               PROVE  dhcp[r] = CeilDiv(SumFunction([s \in Group(sites, k, r) |-> g[s]]), 75)
    OBVIOUS
  <2>1. [s \in Group(sites, k, r) |-> g[s]] = [s \in InRegion(sites, r) |-> DhcpLogs(s)]
    BY <1>1 DEF InRegion
  <2> QED
    BY <2>1
<1>a. \A r \in S : CeilDiv(logs[r], EventsPerUnit) = parts[r]
  BY LogUnitsAre
<1> HIDE DEF k, f, g, dns, dhcp, logs
<1>9. SumFunction(dns) = SumFunction(f)
  <2>1. dns \in [S -> Int] /\ f \in [sites -> Int]
    BY <1>3, <1>4
  <2> QED
    BY <1>0, <1>1, <1>7, <2>1, SumByGroup
<1>10. CeilDiv(SumFunction(g), 75) <= SumFunction(dhcp)
  <2> DEFINE r75 == 75
  <2>1. /\ r75 \in Nat \ {0}
        /\ \A r \in S : CeilDiv(SumFunction([s \in Group(sites, k, r) |-> g[s]]), r75) <= dhcp[r]
    BY <1>3, <1>8
  <2> HIDE DEF r75
  <2>2. dhcp \in [S -> Nat] /\ g \in [sites -> Nat]
    BY <1>3, <1>4
  <2>3. CeilDiv(SumFunction(g), r75) <= SumFunction(dhcp)
    BY <1>0, <1>1, <2>1, <2>2, ResourceOfGroups
  <2> QED
    BY <2>3 DEF r75
<1>11. SumFunction(dns) \in Nat /\ SumFunction(dhcp) \in Nat /\ SumFunction(logs) \in Nat
  BY <1>1, <1>3, SumNat
<1>12. LogsOf(sites, on) <= SumFunction(logs)
  <2> DEFINE a == [r \in S |-> IF "dns" \in on THEN dns[r] ELSE 0]
             b == [r \in S |-> IF "dhcp" \in on THEN dhcp[r] ELSE 0]
  <2>1. /\ a \in [S -> Int] /\ b \in [S -> Int] /\ logs \in [S -> Int]
        /\ \A r \in S : logs[r] = a[r] + b[r]
    BY <1>3, <1>6
  <2>2. SumFunction(logs) = SumFunction(a) + SumFunction(b)
    <3> HIDE DEF a, b
    <3>1. IsFiniteSet(S)
      BY <1>1
    <3> QED
      BY <2>1, <3>1, SumPlus
  <2>3. \A h : h \in [S -> Int] /\ (\A r \in S : h[r] = 0) => SumFunction(h) = 0
    <3> SUFFICES ASSUME NEW h \in [S -> Int], \A r \in S : h[r] = 0 PROVE SumFunction(h) = 0
      OBVIOUS
    <3>1. SumFunction(h) = Cardinality(S) * 0 /\ Cardinality(S) \in Int
      BY <1>1, SumConstant, FS_CardinalityType
    <3> QED
      BY <3>1
  <2>4. SumFunction(a) = IF "dns" \in on THEN SumFunction(dns) ELSE 0
    <3>1. CASE "dns" \in on
      <4>1. a = dns
        BY <1>3, <3>1
      <4> QED
        BY <3>1, <4>1
    <3>2. CASE "dns" \notin on
      <4>1. \A r \in S : a[r] = 0
        BY <3>2
      <4> HIDE DEF a
      <4> QED
        BY <2>1, <2>3, <3>2, <4>1
    <3> QED
      BY <3>1, <3>2
  <2>5. SumFunction(b) = IF "dhcp" \in on THEN SumFunction(dhcp) ELSE 0
    <3>1. CASE "dhcp" \in on
      <4>1. b = dhcp
        BY <1>3, <3>1
      <4> QED
        BY <3>1, <4>1
    <3>2. CASE "dhcp" \notin on
      <4>1. \A r \in S : b[r] = 0
        BY <3>2
      <4> HIDE DEF b
      <4> QED
        BY <2>1, <2>3, <3>2, <4>1
    <3> QED
      BY <3>1, <3>2
  <2> HIDE DEF a, b
  <2> QED
    BY <1>4, <1>5, <1>9, <1>10, <1>11, <2>2, <2>4, <2>5
<1> DEFINE whole == LogsOf(sites, on)
           one   == 1
           unit  == EventsPerUnit
<1>13. /\ whole \in Nat /\ whole <= SumFunction(logs) /\ one \in Nat /\ unit \in Nat \ {0}
       /\ \A r \in S : CeilDiv(logs[r] * one, unit) <= parts[r]
       /\ whole * one = whole
  <2>1. ASSUME NEW r \in S PROVE CeilDiv(logs[r] * one, unit) <= parts[r]
    <3>1. logs[r] * one = logs[r]
      BY <1>3
    <3>2. CeilDiv(logs[r], unit) = parts[r] /\ parts[r] \in Nat
      BY <1>a
    <3> QED
      BY <3>1, <3>2
  <2>2. whole \in Nat /\ one \in Nat /\ unit \in Nat \ {0}
    BY LogsType, UnitIsNumber
  <2>3. whole * one = whole
    BY <2>2
  <2> QED
    BY <1>12, <2>1, <2>2, <2>3
<1>14. LogUnits(sites, on) = CeilDiv(whole, unit)
  BY LogUnitsAre
<1> HIDE DEF whole, one, unit
<1>15. CeilDiv(whole * one, unit) <= SumFunction(parts)
  <2>1. logs \in [S -> Nat]
    BY <1>3
  <2> QED
    BY <1>1, <1>13, <2>1, ScaledParts
<1> QED
  BY <1>13, <1>14, <1>15

(* What a destination costs for a number of units. *)
ToDestination(units, p, d) ==
  CeilDouble(units * Rates[d] * (100 + p), 100, <<units, p, Rates[d]>>)

Destinations(on) == DOMAIN Rates \cap on

LEMMA ReportingIs ==
  \A sites, p, on : ReportingTokens(sites, p, on)
    = SumFunction([d \in Destinations(on) |-> ToDestination(LogUnits(sites, on), p, d)])
  BY DEF ReportingTokens, SumOver, ToDestination, Destinations

LEMMA RateIs ==
  ASSUME NEW p \in Nat, NEW d \in DOMAIN Rates
  PROVE  Rates[d] \in Nat /\ Rates[d] * (100 + p) \in Nat
<1> DEFINE r == Rates[d]
           c == 100 + p
<1>1. r \in Nat /\ c \in Nat
  BY DEF Rates
<1> HIDE DEF r, c
<1>2. r * c \in Nat
  BY <1>1
<1> QED
  BY <1>1, <1>2 DEF r, c

LEMMA DestinationIs ==
  ASSUME NEW units \in Nat, NEW p \in Nat, NEW d \in DOMAIN Rates
  PROVE  /\ ToDestination(units, p, d) \in Nat
         /\ CeilDiv(units * (Rates[d] * (100 + p)), 100) <= ToDestination(units, p, d)
         /\ ToDestination(units, p, d) <= CeilDiv(units * (Rates[d] * (100 + p)), 100) + 1
         /\ Rates[d] * (100 + p) \in Nat
<1> DEFINE num == units * Rates[d] * (100 + p)
           factors == <<units, p, Rates[d]>>
<1>1. Rates[d] \in Nat
  BY DEF Rates
<1>2. num = units * (Rates[d] * (100 + p)) /\ num \in Nat /\ Rates[d] * (100 + p) \in Nat
  <2> DEFINE r == Rates[d]
             c == 100 + p
  <2>1. r \in Nat /\ c \in Nat
    BY <1>1
  <2> HIDE DEF r, c
  <2>2. units * r * c = units * (r * c) /\ units * r * c \in Nat /\ r * c \in Nat
    BY <2>1
  <2> QED
    BY <2>2 DEF r, c
<1>3. ToDestination(units, p, d) = CeilDouble(num, 100, factors)
  BY DEF ToDestination
<1> HIDE DEF num, factors
<1>4. /\ CeilDouble(num, 100, factors) \in Nat
      /\ CeilDiv(num, 100) <= CeilDouble(num, 100, factors)
      /\ CeilDouble(num, 100, factors) <= CeilDiv(num, 100) + 1
  BY <1>2, DoubleIs
<1> QED
  BY <1>2, <1>3, <1>4

LEMMA DestinationsFinite ==
  \A on : /\ IsFiniteSet(Destinations(on)) /\ Destinations(on) \subseteq DOMAIN Rates
          /\ Cardinality(Destinations(on)) \in Nat /\ Cardinality(DOMAIN Rates) \in Nat
          /\ Cardinality(Destinations(on)) <= Cardinality(DOMAIN Rates)
<1>1. IsFiniteSet(DOMAIN Rates)
  <2>1. DOMAIN Rates = {"csp", "s3"} \cup {"cdc"}
    BY DEF Rates
  <2>2. {"csp", "s3"} = {"csp"} \cup {"s3"}
    OBVIOUS
  <2>3. IsFiniteSet({"csp"}) /\ IsFiniteSet({"s3"}) /\ IsFiniteSet({"cdc"})
    BY FS_Singleton
  <2>4. IsFiniteSet({"csp", "s3"})
    BY <2>2, <2>3, FS_Union, ZenonT(30)
  <2> QED
    BY <2>1, <2>3, <2>4, FS_Union, ZenonT(30)
<1>2. \A on : Destinations(on) \subseteq DOMAIN Rates
  BY DEF Destinations
<1> QED
  BY <1>1, <1>2, FS_Subset, FS_CardinalityType

LEMMA ReportingType ==
  ASSUME NEW sites, SiteSet(sites), NEW p \in Nat, NEW on
  PROVE  ReportingTokens(sites, p, on) \in Nat
<1> DEFINE T == Destinations(on)
           f == [d \in T |-> ToDestination(LogUnits(sites, on), p, d)]
<1>1. f \in [T -> Nat] /\ IsFiniteSet(T)
  BY LogsType, DestinationIs, DestinationsFinite
<1>2. ReportingTokens(sites, p, on) = SumFunction(f)
  BY ReportingIs
<1> HIDE DEF T, f
<1> QED
  BY <1>1, <1>2, SumNat

(* Reporting of all sites is no more than that of the regions and one *)
(* token for each destination.                                        *)
LEMMA ReportingByRegion ==
  ASSUME NEW sites, SiteSet(sites), NEW p \in Nat, NEW on
  PROVE  ReportingTokens(sites, p, on)
           <= SumFunction([r \in RegionsOf(sites) |-> ReportingTokens(InRegion(sites, r), p, on)])
                + Cardinality(DOMAIN Rates)
<1> DEFINE S     == RegionsOf(sites)
           T     == Destinations(on)
           units == [r \in S |-> LogUnits(InRegion(sites, r), on)]
           a     == [d \in T |-> [r \in S |-> ToDestination(units[r], p, d)]]
           rows  == [d \in T |-> SumFunction(a[d])]
           cols  == [r \in S |-> ReportingTokens(InRegion(sites, r), p, on)]
           total == [d \in T |-> ToDestination(LogUnits(sites, on), p, d)]
           ones  == [d \in T |-> 1]
           more  == [d \in T |-> rows[d] + 1]
<1>0. IsFiniteSet(S) /\ IsFiniteSet(T) /\ T \subseteq DOMAIN Rates
  BY RegionGroups, DestinationsFinite DEF SiteSet
<1>1. \A r \in S : SiteSet(InRegion(sites, r))
  BY FewerSites DEF InRegion
<1>2. units \in [S -> Nat] /\ LogUnits(sites, on) \in Nat
  BY <1>1, LogsType
<1>3. LogUnits(sites, on) <= SumFunction(units)
  <2>1. \A r \in S : units[r] = LogUnits(InRegion(sites, r), on)
    OBVIOUS
  <2> HIDE DEF units
  <2> QED
    BY <1>2, <2>1, UnitsByRegion
<1>4. a \in [T -> [S -> Nat]] /\ total \in [T -> Nat]
  <2> HIDE DEF units, S, T
  <2>1. \A d \in T : \A r \in S : ToDestination(units[r], p, d) \in Nat
    BY <1>0, <1>2, DestinationIs
  <2>2. \A d \in T : ToDestination(LogUnits(sites, on), p, d) \in Nat
    BY <1>0, <1>2, DestinationIs
  <2> QED
    BY <2>1, <2>2
<1>5. cols \in [S -> Nat] /\ \A r \in S : cols[r] = SumFunction([d \in T |-> a[d][r]])
  <2>1. ASSUME NEW r \in S PROVE cols[r] = SumFunction([d \in T |-> a[d][r]])
    <3>1. cols[r] = SumFunction([d \in T |-> ToDestination(LogUnits(InRegion(sites, r), on), p, d)])
      BY ReportingIs
    <3>2. [d \in T |-> a[d][r]]
            = [d \in T |-> ToDestination(LogUnits(InRegion(sites, r), on), p, d)]
      OBVIOUS
    <3> QED
      BY <3>1, <3>2
  <2> QED
    BY <1>1, <2>1, ReportingType
<1>6. \A d \in T : \A r \in S : a[d][r] = ToDestination(units[r], p, d)
  OBVIOUS
<1>7. ReportingTokens(sites, p, on) = SumFunction(total)
  BY ReportingIs
<1>8. \A d \in T : total[d] = ToDestination(LogUnits(sites, on), p, d)
  OBVIOUS
<1>9. \A d \in T : rows[d] = SumFunction(a[d]) /\ more[d] = rows[d] + 1 /\ ones[d] = 1
  OBVIOUS
<1>10. rows \in [T -> Nat]
  <2> HIDE DEF a
  <2>1. \A d \in T : SumFunction(a[d]) \in Nat
    BY <1>0, <1>4, SumNat
  <2> QED
    BY <2>1
<1>11. more \in [T -> Nat] /\ ones \in [T -> Int]
  <2> HIDE DEF rows
  <2> QED
    BY <1>10
<1> HIDE DEF S, T, units, a, rows, cols, total, ones, more
<1>12. \A d \in T : total[d] <= more[d]
  <2> SUFFICES ASSUME NEW d \in T PROVE total[d] <= more[d]
    OBVIOUS
  <2> DEFINE c     == Rates[d] * (100 + p)
             r     == 100
             whole == LogUnits(sites, on)
             got   == a[d]
  <2>1. d \in DOMAIN Rates
    BY <1>0
  <2>a. c \in Nat /\ r \in Nat \ {0}
    BY <2>1, RateIs
  <2>b. \A u \in Nat : /\ ToDestination(u, p, d) \in Nat
                       /\ CeilDiv(u * c, r) <= ToDestination(u, p, d)
                       /\ ToDestination(u, p, d) <= CeilDiv(u * c, r) + 1
    BY <2>1, DestinationIs
  <2>2. whole \in Nat /\ got \in [S -> Nat] /\ whole <= SumFunction(units)
    BY <1>2, <1>3, <1>4
  <2>3. \A x \in S : CeilDiv(units[x] * c, r) <= got[x]
    <3> HIDE DEF c, r
    <3> QED
      BY <1>2, <1>6, <2>b
  <2>4. total[d] <= CeilDiv(whole * c, r) + 1 /\ total[d] \in Nat /\ CeilDiv(whole * c, r) \in Nat
    <3>1. total[d] <= CeilDiv(whole * c, r) + 1 /\ total[d] \in Nat
      <4> HIDE DEF c, r
      <4> QED
        BY <1>8, <2>2, <2>b
    <3>2. whole * c \in Nat
      <4> HIDE DEF whole, c
      <4> QED
        BY <2>2, <2>a
    <3> QED
      BY <3>1, <3>2, CeilIs
  <2>5. more[d] = SumFunction(got) + 1 /\ SumFunction(got) \in Nat
    BY <1>9, <1>10
  <2> HIDE DEF c, r, whole, got
  <2>6. CeilDiv(whole * c, r) <= SumFunction(got)
    <3>1. IsFiniteSet(S) /\ units \in [S -> Nat]
      BY <1>0, <1>2
    <3> QED
      BY <2>2, <2>3, <2>a, <3>1, ScaledParts
  <2> QED
    BY <2>4, <2>5, <2>6
<1>13. SumFunction(total) <= SumFunction(more)
  BY <1>0, <1>4, <1>11, <1>12, SumGrows
<1>14. SumFunction(more) = SumFunction(rows) + SumFunction(ones)
  <2>1. /\ more \in [T -> Int] /\ rows \in [T -> Int] /\ ones \in [T -> Int] /\ IsFiniteSet(T)
        /\ \A d \in T : more[d] = rows[d] + ones[d]
    BY <1>0, <1>9, <1>10, <1>11
  <2> QED
    BY <2>1, SumPlus
<1>15. SumFunction(ones) = Cardinality(T)
  <2>1. SumFunction(ones) = Cardinality(T) * 1
    BY <1>0, <1>9, <1>11, SumConstant
  <2> QED
    BY <1>0, <2>1, FS_CardinalityType
<1>16. SumFunction(rows) = SumFunction(cols)
  <2>1. /\ a \in [T -> [S -> Int]] /\ rows \in [T -> Int] /\ cols \in [S -> Int]
        /\ (\A d \in T : rows[d] = SumFunction(a[d]))
    BY <1>4, <1>5, <1>9, <1>10
  <2>2. \A r \in S : cols[r] = SumFunction([d \in T |-> a[d][r]])
    BY <1>5
  <2>3. IsFiniteSet(S) /\ IsFiniteSet(T)
    BY <1>0
  <2> QED
    BY <2>1, <2>2, <2>3, SumSwap
<1>17. SumFunction(total) \in Nat /\ SumFunction(more) \in Nat /\ SumFunction(cols) \in Nat
  <2>1. SumFunction(total) \in Nat
    BY <1>0, <1>4, SumNat
  <2>2. SumFunction(more) \in Nat
    BY <1>0, <1>11, SumNat
  <2>3. SumFunction(cols) \in Nat
    BY <1>0, <1>5, SumNat
  <2> QED
    BY <2>1, <2>2, <2>3
<1>18. ReportingTokens(sites, p, on) <= SumFunction(cols) + Cardinality(DOMAIN Rates)
  <2>1. /\ Cardinality(T) \in Nat /\ Cardinality(DOMAIN Rates) \in Nat
        /\ Cardinality(T) <= Cardinality(DOMAIN Rates)
    BY DestinationsFinite DEF T
  <2> QED
    BY <1>7, <1>13, <1>14, <1>15, <1>16, <1>17, <2>1
<1> QED
  BY <1>18 DEF cols, S

(* Sizes. *)
BoxTokens(n) == ServerTiers[TierNamed(ServerTiers, n.tier)].tokens
PointTokens(x) ==
  XaasTiers[TierNamed(XaasTiers, x.tier)].tokens
    + LET over == x.connections - XaasTiers[TierNamed(XaasTiers, x.tier)].connections
      IN  IF over > 0 THEN over * XaasExtraConnectionCost ELSE 0

LEMMA BoxIs == ASSUME NEW n, IsMember(n) PROVE BoxTokens(n) \in Nat
<1>1. TierNamed(ServerTiers, n.tier) \in DOMAIN ServerTiers
  BY DEF TierNamed, IsMember
<1>2. \A i \in DOMAIN ServerTiers : ServerTiers[i].tokens \in Nat
  BY DEF ServerTiers
<1> QED
  BY <1>1, <1>2 DEF BoxTokens

LEMMA PointIs == ASSUME NEW x, IsPoint(x) PROVE PointTokens(x) \in Nat
<1> DEFINE t == XaasTiers[TierNamed(XaasTiers, x.tier)]
<1>1. TierNamed(XaasTiers, x.tier) \in DOMAIN XaasTiers
  BY DEF TierNamed, IsPoint
<1>2. \A i \in DOMAIN XaasTiers : XaasTiers[i].tokens \in Nat /\ XaasTiers[i].connections \in Nat
  BY DEF XaasTiers
<1>3. t.tokens \in Nat /\ t.connections \in Nat /\ x.connections \in Nat
  BY <1>1, <1>2 DEF IsPoint
<1> QED
  BY <1>3 DEF PointTokens, XaasExtraConnectionCost

LEMMA ServersAre ==
  \A niosx, xaas, p : ServerTokens(niosx, xaas, p)
    = LET sum == SumFunction([n \in niosx |-> BoxTokens(n)])
                   + SumFunction([x \in xaas |-> PointTokens(x)])
      IN  CeilDouble(sum * (100 + p), 100, <<sum, p>>)
  BY DEF ServerTokens, SumOver, BoxTokens, PointTokens

LEMMA ServersType ==
  ASSUME NEW niosx, IsFiniteSet(niosx), \A n \in niosx : IsMember(n),
         NEW xaas, IsFiniteSet(xaas), \A x \in xaas : IsPoint(x), NEW p \in Nat
  PROVE  ServerTokens(niosx, xaas, p) \in Nat
<1> DEFINE f == [n \in niosx |-> BoxTokens(n)]
           g == [x \in xaas |-> PointTokens(x)]
           sum == SumFunction(f) + SumFunction(g)
           num == sum * (100 + p)
           factors == <<sum, p>>
<1>1. f \in [niosx -> Nat] /\ g \in [xaas -> Nat]
  BY BoxIs, PointIs
<1>2. ServerTokens(niosx, xaas, p) = CeilDouble(num, 100, factors)
  BY ServersAre
<1> HIDE DEF f, g
<1>3. SumFunction(f) \in Nat /\ SumFunction(g) \in Nat
  BY <1>1, SumNat
<1>4. sum \in Nat /\ 100 + p \in Nat
  BY <1>3
<1> HIDE DEF sum, factors
<1>5. num \in Nat
  BY <1>4
<1> HIDE DEF num
<1> QED
  BY <1>2, <1>5, DoubleIs

LEMMA Appends ==
  ASSUME NEW T, NEW s \in Seq(T), NEW r \in T
  PROVE  /\ Append(s, r) \in Seq(T) /\ Len(Append(s, r)) = Len(s) + 1
         /\ \A i \in 1..Len(s) : Append(s, r)[i] = s[i]
         /\ Append(s, r)[Len(s) + 1] = r
BY AppendProperties, Z3

LEMMA AppendToOne ==
  ASSUME NEW T, NEW s \in Seq(T), Len(s) = 1, NEW r \in T
  PROVE  Len(Append(s, r)) = 2 /\ Append(s, r)[2] = r /\ Append(s, r)[1] = s[1]
<1>1. /\ Append(s, r) \in Seq(T) /\ Len(Append(s, r)) = Len(s) + 1
      /\ \A i \in 1..Len(s) : Append(s, r)[i] = s[i]
      /\ Append(s, r)[Len(s) + 1] = r
  BY Appends
<1>2. Len(s) + 1 = 2 /\ 1 \in 1..Len(s)
  OBVIOUS
<1> QED
  BY <1>1, <1>2, Zenon

(* Names apart. *)
LEMMA NamesApart ==
  ASSUME NEW niosx, OneForEachId(niosx), \A n \in niosx : IsMember(n) /\ Len(n.name) = 1,
         NEW a \in niosx, NEW b \in niosx, UniqueName(a, niosx) = UniqueName(b, niosx)
  PROVE  a = b
<1> DEFINE same(n)  == {k \in niosx : k.name = n.name}
           below(n) == {k \in same(n) : k.id <= n.id}
<1>1. \A n \in niosx : n.name \in Seq({n.name[1]}) /\ Len(n.name) = 1
  <2> SUFFICES ASSUME NEW n \in niosx PROVE n.name \in Seq({n.name[1]}) /\ Len(n.name) = 1
    OBVIOUS
  <2>1. Len(n.name) = 1 /\ n.name = [i \in 1..1 |-> n.name[i]]
    BY DEF IsMember
  <2>2. \A i \in 1..1 : i = 1
    OBVIOUS
  <2>3. [i \in 1..1 |-> n.name[i]] \in Seq({n.name[1]})
    BY <2>2
  <2> QED
    BY <2>1, <2>3
<1>2. \A n \in niosx, r \in Nat : Len(Append(n.name, r)) = 2 /\ Append(n.name, r)[2] = r
                                 /\ Append(n.name, r)[1] = n.name[1]
  <2> SUFFICES ASSUME NEW n \in niosx, NEW r \in Nat
               PROVE  Len(Append(n.name, r)) = 2 /\ Append(n.name, r)[2] = r
                      /\ Append(n.name, r)[1] = n.name[1]
    OBVIOUS
  <2> DEFINE s == n.name
             T == {s[1]} \cup Nat
  <2>1. s \in Seq(T) /\ Len(s) = 1 /\ r \in T
    <3>1. s \in Seq({s[1]})
      BY <1>1
    <3>2. s \in Seq(T)
      <4> HIDE DEF s
      <4> QED
        BY <3>1
    <3> QED
      BY <1>1, <3>2
  <2> HIDE DEF s, T
  <2>2. Len(Append(s, r)) = 2 /\ Append(s, r)[2] = r /\ Append(s, r)[1] = s[1]
    BY <2>1, AppendToOne
  <2> QED
    BY <2>2 DEF s
<1>3. \A x, y \in niosx : x.name[1] = y.name[1] => x.name = y.name
  <2>1. \A n \in niosx : n.name = [i \in 1..1 |-> n.name[i]]
    BY DEF IsMember
  <2>2. \A i \in 1..1 : i = 1
    OBVIOUS
  <2>3. \A n \in niosx : n.name = [i \in 1..1 |-> n.name[1]]
    BY <2>1, <2>2
  <2> QED
    BY <2>3
<1>4. \A n \in niosx : /\ IsFiniteSet(same(n)) /\ IsFiniteSet(below(n)) /\ n \in below(n)
                      /\ Cardinality(below(n)) \in Nat /\ Cardinality(same(n)) \in Nat
  <2> SUFFICES ASSUME NEW n \in niosx
               PROVE  /\ IsFiniteSet(same(n)) /\ IsFiniteSet(below(n)) /\ n \in below(n)
                      /\ Cardinality(below(n)) \in Nat /\ Cardinality(same(n)) \in Nat
    OBVIOUS
  <2>1. same(n) \in SUBSET niosx /\ below(n) \in SUBSET niosx /\ IsFiniteSet(niosx) /\ n.id \in Nat
    BY DEF OneForEachId, IsMember
  <2>2. n \in below(n)
    BY <2>1
  <2> HIDE DEF same, below
  <2> QED
    BY <2>1, <2>2, FS_Subset, FS_CardinalityType
<1>5. \A n \in niosx : UniqueName(n, niosx) = IF Cardinality(same(n)) <= 1 THEN n.name
                                             ELSE Append(n.name, Cardinality(below(n)))
  BY DEF UniqueName
<1>6. a.name = b.name
  <2>1. Cardinality(below(a)) \in Nat /\ Cardinality(below(b)) \in Nat
    BY <1>4
  <2> HIDE DEF same, below
  <2>2. /\ Len(a.name) = 1 /\ Len(b.name) = 1
        /\ Len(Append(a.name, Cardinality(below(a)))) = 2
        /\ Len(Append(b.name, Cardinality(below(b)))) = 2
        /\ Append(a.name, Cardinality(below(a)))[1] = a.name[1]
        /\ Append(b.name, Cardinality(below(b)))[1] = b.name[1]
    BY <1>2, <2>1
  <2>3. a.name[1] = b.name[1]
    BY <1>5, <2>2
  <2> QED
    BY <1>3, <2>3
<1>7. same(a) = same(b)
  BY <1>6
<1>8. CASE Cardinality(same(a)) <= 1
  <2>1. a \in same(a) /\ b \in same(a)
    BY <1>6
  <2>2. ASSUME a # b PROVE FALSE
    <3>1. {a, b} \in SUBSET same(a) /\ IsFiniteSet(same(a))
      BY <1>4, <2>1
    <3>2. Cardinality({a, b}) <= Cardinality(same(a)) /\ IsFiniteSet({a, b})
      <4> HIDE DEF same
      <4> QED
        BY <3>1, FS_Subset
    <3>3. Cardinality({a, b}) = 2
      <4>1. {a, b} = {a} \cup {b} /\ IsFiniteSet({a}) /\ Cardinality({a}) = 1 /\ b \notin {a}
        BY <2>2, FS_Singleton
      <4>2. Cardinality({a} \cup {b})
              = IF b \in {a} THEN Cardinality({a}) ELSE Cardinality({a}) + 1
        BY <4>1, FS_AddElement, Zenon
      <4> HIDE DEF same, below
      <4> QED
        BY <4>1, <4>2
    <3>4. Cardinality(same(a)) \in Nat
      BY <1>4
    <3> QED
      BY <1>8, <3>2, <3>3, <3>4
  <2> QED
    BY <2>2
<1>9. CASE ~ (Cardinality(same(a)) <= 1)
  <2>1. Cardinality(below(a)) = Cardinality(below(b))
    <3>1. /\ UniqueName(a, niosx) = Append(a.name, Cardinality(below(a)))
          /\ UniqueName(b, niosx) = Append(b.name, Cardinality(below(b)))
      BY <1>5, <1>7, <1>9
    <3>2. Cardinality(below(a)) \in Nat /\ Cardinality(below(b)) \in Nat
      BY <1>4
    <3> HIDE DEF below
    <3>3. /\ Append(a.name, Cardinality(below(a)))[2] = Cardinality(below(a))
          /\ Append(b.name, Cardinality(below(b)))[2] = Cardinality(below(b))
      BY <1>2, <3>2
    <3> QED
      BY <3>1, <3>3
  <2>2. ASSUME NEW x \in niosx, NEW y \in niosx, same(x) = same(y), x.id < y.id,
               Cardinality(below(x)) = Cardinality(below(y))
        PROVE  FALSE
    <3>1. x.id \in Nat /\ y.id \in Nat /\ \A k \in same(y) : k.id \in Nat
      BY DEF IsMember
    <3>2. below(x) \in SUBSET below(y) /\ y \in below(y) /\ y \notin below(x)
      BY <2>2, <3>1
    <3>3. IsFiniteSet(below(y)) /\ IsFiniteSet(below(x)) /\ Cardinality(below(y)) \in Nat
      BY <1>4
    <3> HIDE DEF below, same
    <3>4. below(x) \in SUBSET (below(y) \ {y}) /\ IsFiniteSet(below(y) \ {y})
      BY <3>2, <3>3, FS_RemoveElement
    <3>5. Cardinality(below(x)) <= Cardinality(below(y) \ {y})
      BY <3>4, FS_Subset
    <3>6. Cardinality(below(y) \ {y}) = Cardinality(below(y)) - 1
      BY <3>2, <3>3, FS_RemoveElement
    <3> QED
      BY <2>2, <3>3, <3>5, <3>6
  <2>3. a.id \in Nat /\ b.id \in Nat
    BY DEF IsMember
  <2>4. ~ (a.id < b.id) /\ ~ (b.id < a.id)
    BY <1>7, <2>1, <2>2
  <2>5. a.id = b.id
    BY <2>3, <2>4
  <2> QED
    BY <2>5 DEF OneForEachId
<1> QED
  BY <1>8, <1>9

(* The plan, by the names of its members. *)
LEMMA PlanIsWhole ==
  ASSUME NEW niosx, OneForEachId(niosx), \A n \in niosx : IsMember(n) /\ Len(n.name) = 1
  PROVE  SumFunction([line \in {<<UniqueName(n, niosx), BoxTokens(n)>> : n \in niosx} |-> line[2]])
           = ServerTokens(niosx, {}, 0)
<1> DEFINE plan == {<<UniqueName(n, niosx), BoxTokens(n)>> : n \in niosx}
           f == [n \in niosx |-> BoxTokens(n)]
           g == [line \in plan |-> line[2]]
           k == [n \in niosx |-> <<UniqueName(n, niosx), BoxTokens(n)>>]
           e == [x \in {} |-> PointTokens(x)]
           sum == SumFunction(f) + SumFunction(e)
<1>1. f \in [niosx -> Nat] /\ IsFiniteSet(niosx)
  BY BoxIs DEF OneForEachId
<1>2. /\ k \in [niosx -> plan] /\ (\A s \in plan : \E x \in niosx : k[x] = s)
      /\ plan = {k[x] : x \in niosx}
  OBVIOUS
<1>3. \A x, y \in niosx : k[x] = k[y] => x = y
  BY NamesApart
<1>4. \A x \in niosx : g[k[x]] = f[x]
  OBVIOUS
<1>5. g \in [plan -> Int]
  BY <1>1
<1>6. e = [x \in {} |-> 0] /\ DOMAIN e = {}
  OBVIOUS
<1>7. ServerTokens(niosx, {}, 0) = CeilDouble(sum * (100 + 0), 100, <<sum, 0>>)
  BY ServersAre
<1> HIDE DEF plan, f, g, k, e
<1>8. IsFiniteSet(plan)
  <2>1. DOMAIN k = niosx /\ IsFiniteSet(niosx)
    BY <1>1, <1>2
  <2>2. plan = {k[x] : x \in niosx}
    BY <1>2
  <2> QED
    BY <2>1, <2>2, FiniteImage
<1>9. SumFunction(g) = SumFunction(f)
  <2>1. /\ IsFiniteSet(niosx) /\ IsFiniteSet(plan) /\ f \in [niosx -> Int] /\ g \in [plan -> Int]
        /\ k \in [niosx -> plan]
    BY <1>1, <1>2, <1>5, <1>8
  <2>2. \A s \in plan : \E x \in niosx : k[x] = s
    BY <1>2
  <2> QED
    BY <1>3, <1>4, <2>1, <2>2, SumRenamed
<1>10. SumFunction(e) = 0 /\ SumFunction(f) \in Nat
  BY <1>1, <1>6, SumEmpty, SumNat
<1>11. sum = SumFunction(f) /\ sum \in Nat
  BY <1>10
<1> HIDE DEF sum
<1>12. CeilDouble(sum * (100 + 0), 100, <<sum, 0>>) = CeilDiv(sum * 100, 100)
  <2>1. <<sum, 0>> \notin Above
    BY AboveAssumption
  <2>2. CeilDiv(sum * 100, 100) \in Nat /\ 100 + 0 = 100
    BY <1>11, CeilIs
  <2> QED
    BY <2>1, <2>2 DEF CeilDouble
<1>13. CeilDiv(sum * 100, 100) = sum
  BY <1>11 DEF CeilDiv
<1> QED
  BY <1>7, <1>9, <1>11, <1>12, <1>13 DEF g, plan

(* What the report adds up is made of numbers: the sites, members and      *)
(* service points are well formed, and so is what the security section     *)
(* holds, typed or filled in.                                              *)
SecurityFields == {"verified", "unverified", "dossier", "lookalikes"}
SecurityNumbers == \A f \in SecurityFields : sec[f] \in Nat
Numbers == WellFormed(doc) /\ SecurityNumbers

LEMMA EmptyDocument == WellFormed(NoDocument)
BY FS_EmptySet DEF NoDocument, WellFormed, OneForEachId

LEMMA NumbersInit == ReportInit => Numbers
<1> SUFFICES ASSUME ReportInit PROVE Numbers
  OBVIOUS
<1>1. SecurityNumbers
  BY DEF ReportInit, SecurityNumbers, SecurityFields, NoSecurity
<1> QED
  BY <1>1, EmptyDocument DEF ReportInit, Numbers

LEMMA DocumentParts ==
  ASSUME NEW d, WellFormed(d)
  PROVE  /\ SiteSet(d.sites) /\ OneForEachId(d.sites)
         /\ IsFiniteSet(d.niosx) /\ OneForEachId(d.niosx) /\ (\A n \in d.niosx : IsMember(n))
         /\ IsFiniteSet(d.xaas) /\ \A x \in d.xaas : IsPoint(x)
BY DEF WellFormed, OneForEachId, SiteSet

LEMMA SumsAreNumbers ==
  ASSUME NEW sites, SiteSet(sites)
  PROVE  Sums(sites).verified \in Nat /\ Sums(sites).unverified \in Nat
<1> DEFINE f == [s \in sites |-> Known(s.verified) * s.multiplier]
           g == [s \in sites |-> Known(s.unverified) * s.multiplier]
<1>1. f \in [sites -> Nat] /\ g \in [sites -> Nat]
  BY SiteNumbers DEF SiteSet
<1>2. Sums(sites).verified = SumFunction(f) /\ Sums(sites).unverified = SumFunction(g)
  BY DEF Sums, SumOver
<1> HIDE DEF f, g
<1>3. SumFunction(f) \in Nat /\ SumFunction(g) \in Nat
  BY <1>1, SumNat DEF SiteSet
<1> QED
  BY <1>2, <1>3

(* The section fills in numbers. *)
LEMMA FilledNumbers ==
  ASSUME Shape, Numbers, NEW u, NEW p, FillIfNew(u, p) \/ Recalculated(u)
  PROVE  SecurityNumbers'
<1>1. CASE Recalculated(u)
  <2>1. Sums(doc.sites).verified \in Nat /\ Sums(doc.sites).unverified \in Nat
    BY SumsAreNumbers, DocumentParts DEF Numbers
  <2>2. PICK s : s = Sums(doc.sites)
    OBVIOUS
  <2>3. s.verified \in Nat /\ s.unverified \in Nat
    BY <2>1, <2>2
  <2> HIDE DEF Sums
  <2>4. sec' = WithSums(sec, s)
    BY <1>1, <2>2 DEF Recalculated
  <2>5. SecurityNumbers
    BY DEF Numbers
  <2> QED
    BY <2>3, <2>4, <2>5 DEF WithSums, SecurityNumbers, SecurityFields, Shape
<1>2. CASE UNCHANGED sec
  BY <1>2 DEF SecurityNumbers, Numbers
<1> QED
  BY <1>1, <1>2 DEF FillIfNew

LEMMA EditedDocument ==
  ASSUME NEW d, WellFormed(d), NEW s \in d.sites, NEW n \in Nat,
         NEW e, e = [d EXCEPT !.sites = (@ \ {s}) \cup {[s EXCEPT !.activeIPs = n]}]
  PROVE  WellFormed(e)
<1> DEFINE t     == [s EXCEPT !.activeIPs = n]
           sites == (d.sites \ {s}) \cup {t}
<1>1. DOMAIN e = DOMAIN d /\ e.sites = sites /\ e.niosx = d.niosx /\ e.xaas = d.xaas
  BY DEF WellFormed
<1>2. IsSite(s)
  BY DEF WellFormed
<1>3. IsSite(t) /\ t.id = s.id
  BY <1>2 DEF IsSite
<1>4. IsFiniteSet(sites)
  BY FS_RemoveElement, FS_AddElement DEF WellFormed, OneForEachId
<1>5. ASSUME NEW a \in sites, NEW b \in sites, a.id = b.id PROVE a = b
  <2>1. \A c \in d.sites \ {s} : c.id # s.id
    BY DEF WellFormed, OneForEachId
  <2> QED
    BY <1>3, <1>5, <2>1 DEF WellFormed, OneForEachId
<1>6. \A c \in sites : IsSite(c)
  BY <1>3 DEF WellFormed
<1> HIDE DEF sites, t
<1> QED
  BY <1>1, <1>4, <1>5, <1>6 DEF WellFormed, OneForEachId

LEMMA NumbersStep ==
  ASSUME ReportInv, Numbers, [ReportNext]_reportVars
  PROVE  Numbers'
<1> USE DEF Numbers
<1>0. Shape /\ SecurityNumbers /\ WellFormed(doc)
  BY DEF ReportInv
<1>1. CASE UNCHANGED <<doc, sec>>
  BY <1>0, <1>1 DEF SecurityNumbers
<1>2. CASE Recalculate
  <2>1. SecurityNumbers'
    BY <1>0, <1>2, FilledNumbers DEF Recalculate
  <2> QED
    BY <1>0, <1>2, <2>1 DEF Recalculate
<1>3. ASSUME NEW f \in AssetFields, NEW n \in Counts, TypeAssets(f, n) PROVE Numbers'
  <2>1. n \in Nat
    BY TypedAssumption
  <2> QED
    BY <1>0, <1>3, <2>1 DEF TypeAssets, SecurityNumbers, SecurityFields, AssetFields, Shape
<1>4. ASSUME NEW s, SetSecurity(s), \A f \in SecurityFields : s[f] \in Nat PROVE Numbers'
  BY <1>0, <1>4 DEF SetSecurity, SecurityNumbers
<1>5. CASE Enable
  <2>1. \A f \in SecurityFields : [sec EXCEPT !.enabled = ~@][f] \in Nat
    BY <1>0 DEF Shape, SecurityNumbers, SecurityFields
  <2> QED
    BY <1>4, <1>5, <2>1 DEF Enable
<1>6. CASE SetSoc
  <2>1. \A f \in SecurityFields : [sec EXCEPT !.soc = ~@][f] \in Nat
    BY <1>0 DEF Shape, SecurityNumbers, SecurityFields
  <2> QED
    BY <1>4, <1>6, <2>1 DEF SetSoc
<1>7. ASSUME NEW n \in Queries, TypeQueries(n) PROVE Numbers'
  <2>1. n \in Nat
    BY TypedAssumption
  <2>2. /\ \A f \in SecurityFields : [sec EXCEPT !.dossier = n][f] \in Nat
        /\ \A f \in SecurityFields : [sec EXCEPT !.lookalikes = n][f] \in Nat
    BY <1>0, <2>1 DEF Shape, SecurityNumbers, SecurityFields
  <2> QED
    BY <1>4, <1>7, <2>2 DEF TypeQueries
<1>8. ASSUME NEW k, ToggleSection(k) PROVE Numbers'
  <2>1. PICK u : u = [ui EXCEPT !.open = IF k \in @ THEN @ \ {k} ELSE @ \cup {k}]
    OBVIOUS
  <2>2. FillIfNew(u, page) /\ UNCHANGED doc
    BY <1>8, <2>1 DEF ToggleSection
  <2> QED
    BY <1>0, <2>2, FilledNumbers
<1>9. ASSUME NEW p, Turn(p) PROVE Numbers'
  BY <1>0, <1>9, FilledNumbers DEF Turn
<1>10. ASSUME NEW d \in Documents, Work(d) PROVE Numbers'
  BY <1>0, <1>10, DocumentsAssumption DEF Work, SecurityNumbers
<1>11. ASSUME NEW s \in doc.sites, NEW n \in Counts, EditAddresses(s, n) PROVE Numbers'
  <2>1. n \in Nat
    BY TypedAssumption
  <2>2. WellFormed(doc')
    BY <1>0, <1>11, <2>1, EditedDocument DEF EditAddresses
  <2> QED
    BY <1>0, <1>11, <2>2 DEF EditAddresses, SecurityNumbers
<1>12. CASE ReportStartOver
  <2>1. SecurityNumbers'
    BY <1>12 DEF ReportStartOver, SecurityNumbers, NoSecurity, SecurityFields
  <2>2. doc' = NoDocument
    BY <1>12 DEF ReportStartOver
  <2> QED
    BY <2>1, <2>2, EmptyDocument
<1>13. CASE \/ ToggleAdvanced
            \/ \E t \in Switched : SetModuleToggle(t)
            \/ \E n \in Percents : SetGrowthBuffer(n)
            \/ \E c \in Tuned, n \in Percents \cup {Undefined} : SetOverhead(c, n)
  BY <1>1, <1>13 DEF ToggleAdvanced, SetModuleToggle, SetGrowthBuffer, SetOverhead, SetSettings
<1> QED
  BY <1>1, <1>2, <1>3, <1>5, <1>6, <1>7, <1>8, <1>9, <1>10, <1>11, <1>12, <1>13
  DEF ReportNext, reportVars

(* The overheads are numbers. *)
LEMMA OverheadsAre ==
  ASSUME settings \in SettingsRecord, NEW c \in Categories
  PROVE  Overheads[c] \in Nat
<1>1. /\ settings.growth \in Nat
      /\ settings.overhead[c] \in Nat \cup {Undefined}
  BY TypedAssumption DEF SettingsRecord
<1> QED
  BY <1>1 DEF Overheads, Or

(* Of a whole number of packs none are left out. *)
LEMMA PacksOfSome ==
  ASSUME NEW t \in Nat, NEW r \in Nat \ {0}
  PROVE  CeilDiv(t, r) > 0 <=> t > 0
<1>1. CeilDiv(t, r) \in Nat /\ t <= CeilDiv(t, r) * r /\ CeilDiv(t, r) * r < t + r
  BY CeilIs
<1>2. PICK q \in Nat : q = CeilDiv(t, r)
  BY <1>1
<1>3. CASE q = 0
  <2>1. q * r = 0
    BY <1>3
  <2> QED
    BY <1>1, <1>2, <1>3, <2>1
<1>4. CASE q > 0
  <2>1. q * r >= r
    BY <1>4
  <2>2. q * r < t + r
    BY <1>1, <1>2
  <2>3. q * r \in Nat
    OBVIOUS
  <2> QED
    BY <1>2, <1>4, <2>1, <2>2, <2>3
<1> QED
  BY <1>2, <1>3, <1>4

LEMMA BillsAgree ==
  ASSUME NEW total, \A c \in DOMAIN PackSize : total[c] \in Nat
  PROVE  CopiedBill(total) = ShownBill(total)
<1>1. \A c \in DOMAIN PackSize : PackSize[c] \in Nat \ {0}
  BY DEF PackSize
<1>2. \A c \in DOMAIN PackSize : CeilDiv(total[c], PackSize[c]) > 0 <=> total[c] > 0
  BY <1>1, PacksOfSome
<1>3. "management" \in DOMAIN PackSize
  BY DEF PackSize
<1>4. {c \in DOMAIN PackSize : c = "management" \/ CeilDiv(total[c], PackSize[c]) > 0}
        = {"management"} \cup {c \in DOMAIN PackSize : total[c] > 0}
  BY <1>2, <1>3
<1> DEFINE shown == {"management"} \cup {c \in DOMAIN PackSize : total[c] > 0}
<1>5. shown \subseteq DOMAIN PackSize
  BY <1>3
<1>6. ShownBill(total) = [k \in shown |-> CeilDiv(total[k], PackSize[k])]
  BY DEF ShownBill
<1>7. CopiedBill(total) = [k \in shown |-> CeilDiv(total[k], PackSize[k])]
  BY <1>4, <1>5 DEF CopiedBill
<1> QED
  BY <1>6, <1>7

(* Security. *)
LEMMA SecurityType ==
  ASSUME SecurityNumbers, NEW p \in Nat
  PROVE  SecurityTokens(sec, p) \in Nat
<1> DEFINE assets == 3 * (sec.verified + sec.unverified)
           c      == 100 + p
           units  == CeilDiv(sec.dossier, 25)
           looks  == CeilDiv(sec.lookalikes, 25)
<1>1. /\ sec.verified \in Nat /\ sec.unverified \in Nat
      /\ sec.dossier \in Nat /\ sec.lookalikes \in Nat
  BY DEF SecurityNumbers, SecurityFields
<1>2. assets \in Nat /\ c \in Nat
  BY <1>1
<1>3. units \in Nat /\ looks \in Nat
  <2>1. 25 \in Nat \ {0}
    OBVIOUS
  <2>2. \A n \in Nat : CeilDiv(n, 25) \in Nat
    BY <2>1, CeilIs
  <2> QED
    BY <1>1, <2>2
<1>4. /\ TdCloud(sec, p) = IF sec.soc THEN CeilDouble(assets * 135 * c, 10000, <<assets, 135, p>>)
                           ELSE CeilDouble(assets * c, 100, <<assets, p>>)
      /\ Dossier(sec, p) = CeilDouble(units * 450 * c, 100, <<units, 450, p>>)
      /\ Lookalikes(sec, p) = RoundDiv(looks * 1200 * c, 100)
  BY DEF TdCloud, Dossier, Lookalikes
<1> HIDE DEF assets, c, units, looks
<1>5. /\ assets * 135 \in Nat /\ units * 450 \in Nat /\ looks * 1200 \in Nat
  BY <1>2, <1>3
<1>6. \A a, b \in Nat : a * b \in Nat
  OBVIOUS
<1>7. /\ assets * 135 * c \in Nat /\ units * 450 * c \in Nat /\ looks * 1200 * c \in Nat
      /\ assets * c \in Nat
  BY <1>2, <1>3, <1>5, <1>6
<1>8. \A factors : \A num \in Nat : CeilDouble(num, 100, factors) \in Nat
                                /\ CeilDouble(num, 10000, factors) \in Nat
  BY DoubleIs
<1>9. \A num \in Nat : RoundDiv(num, 100) \in Nat
  BY DEF RoundDiv
<1>10. TdCloud(sec, p) \in Nat
  BY <1>4, <1>7, <1>8
<1>11. Dossier(sec, p) \in Nat
  BY <1>4, <1>7, <1>8
<1>12. Lookalikes(sec, p) \in Nat
  BY <1>4, <1>7, <1>9
<1> QED
  BY <1>10, <1>11, <1>12 DEF SecurityTokens

LEMMA PreviewAgrees ==
  ASSUME SecurityNumbers
  PROVE  Preview.td + Preview.dossier + Preview.lookalikes
           = SecurityTokens(sec, Overheads["security"])
<1> DEFINE o == Overheads["security"]
<1>1. (sec.verified + sec.unverified) * 3 = 3 * (sec.verified + sec.unverified)
  BY DEF SecurityNumbers, SecurityFields
<1>2. CASE ~ sec.enabled
  BY <1>2 DEF Preview, SecurityTokens
<1>3. CASE sec.enabled
  <2>1. Preview = [td |-> TdCloud(sec, o), dossier |-> Dossier(sec, o),
                   lookalikes |-> Lookalikes(sec, o)]
    BY <1>1, <1>3 DEF Preview, TdCloud, Dossier, Lookalikes
  <2>2. SecurityTokens(sec, o) = TdCloud(sec, o) + Dossier(sec, o) + Lookalikes(sec, o)
    BY <1>3 DEF SecurityTokens
  <2> HIDE DEF o
  <2>3. Preview.td = TdCloud(sec, o) /\ Preview.dossier = Dossier(sec, o)
        /\ Preview.lookalikes = Lookalikes(sec, o)
    BY <2>1
  <2> QED
    BY <2>2, <2>3 DEF o
<1> QED
  BY <1>2, <1>3

LEMMA PartsCover ==
  ASSUME settings \in SettingsRecord, Numbers
  PROVE  PartsCoverTotals
<1> DEFINE o == Overheads["mgmt"]
           r == Overheads["reporting"]
           S == DOMAIN SummarySheet
<1>1. \A c \in Categories : Overheads[c] \in Nat
  BY OverheadsAre
<1>2. o \in Nat /\ r \in Nat /\ Overheads["server"] \in Nat /\ Overheads["security"] \in Nat
  BY <1>1 DEF Categories
<1>3. /\ SiteSet(doc.sites) /\ OneForEachId(doc.sites)
      /\ IsFiniteSet(doc.niosx) /\ OneForEachId(doc.niosx) /\ (\A n \in doc.niosx : IsMember(n))
      /\ IsFiniteSet(doc.xaas) /\ (\A x \in doc.xaas : IsPoint(x))
  BY DocumentParts DEF Numbers
<1>4. /\ Totals.management = ManagementTokens(doc.sites, o)
      /\ Totals.server = ServerTokens(doc.niosx, doc.xaas, Overheads["server"])
      /\ Totals.reporting = ReportingTokens(doc.sites, r, ReportingToggles)
      /\ Totals.security = SecurityTokens(sec, Overheads["security"])
      /\ DOMAIN PackSize = {"management", "server", "reporting", "security"}
  BY DEF Totals, PackSize
<1>5. \A c \in DOMAIN PackSize : Totals[c] \in Nat
  <2> HIDE DEF o, r
  <2>1. Totals.management \in Nat
    BY <1>2, <1>3, <1>4, ManagementType
  <2>2. Totals.server \in Nat
    BY <1>2, <1>3, <1>4, ServersType
  <2>3. Totals.reporting \in Nat
    BY <1>2, <1>3, <1>4, ReportingType
  <2>4. Totals.security \in Nat
    BY <1>2, <1>4, SecurityType DEF Numbers
  <2> QED
    BY <1>4, <2>1, <2>2, <2>3, <2>4
<1>6. CopiedBill(Totals) = ShownBill(Totals)
  BY <1>5, BillsAgree
<1>7. Totals.management <= SumFunction([x \in DOMAIN Sources |-> Sources[x]]) + 1
  <2> DEFINE listed == [x \in DOMAIN Sources |-> Sources[x]]
             A      == {s \in doc.sites : SourceTokens(s, o) > 0}
  <2>1. DOMAIN Sources = A /\ \A s \in A : Sources[s] = SourceTokens(s, o)
    BY DEF Sources
  <2>2. \A s \in doc.sites : SourceTokens(s, o) \in Nat
    <3>1. \A s \in doc.sites : SiteSet({s})
      BY <1>3, FewerSites
    <3> HIDE DEF o
    <3> QED
      BY <1>2, <3>1, ManagementType DEF SourceTokens
  <2>3. listed \in [A -> Nat] /\ \A s \in DOMAIN listed : listed[s] = SourceTokens(s, o)
    BY <2>1, <2>2
  <2> HIDE DEF listed, o
  <2>4. ManagementTokens(doc.sites, o) <= SumFunction(listed) + 1
    BY <1>2, <1>3, <2>3, ManagementBySite
  <2> QED
    BY <1>4, <2>4 DEF listed
<1>8. /\ S = RegionsOf(doc.sites)
      /\ \A x \in S : /\ SummarySheet[x].management = ManagementTokens(InRegion(doc.sites, x), o)
                      /\ SummarySheet[x].reporting
                           = ReportingTokens(InRegion(doc.sites, x), r, ReportingToggles)
  BY DEF SummarySheet
<1>9. Totals.management <= SumFunction([x \in S |-> SummarySheet[x].management]) + 1
  <2>1. [x \in S |-> SummarySheet[x].management]
          = [x \in RegionsOf(doc.sites) |-> ManagementTokens(InRegion(doc.sites, x), o)]
    <3> HIDE DEF o, r, S
    <3> QED
      BY <1>8
  <2>2. ManagementTokens(doc.sites, o)
          <= SumFunction([x \in RegionsOf(doc.sites) |->
                            ManagementTokens(InRegion(doc.sites, x), o)]) + 1
    <3> HIDE DEF o
    <3> QED
      BY <1>2, <1>3, ManagementByRegion
  <2> HIDE DEF o, S
  <2> QED
    BY <1>4, <2>1, <2>2
<1>10. Totals.reporting <= SumFunction([x \in S |-> SummarySheet[x].reporting])
                             + Cardinality(DOMAIN Rates)
  <2>1. [x \in S |-> SummarySheet[x].reporting]
          = [x \in RegionsOf(doc.sites) |->
               ReportingTokens(InRegion(doc.sites, x), r, ReportingToggles)]
    <3> HIDE DEF o, r, S
    <3> QED
      BY <1>8
  <2>2. ReportingTokens(doc.sites, r, ReportingToggles)
          <= SumFunction([x \in RegionsOf(doc.sites) |->
                            ReportingTokens(InRegion(doc.sites, x), r, ReportingToggles)])
               + Cardinality(DOMAIN Rates)
    <3> HIDE DEF r
    <3> QED
      BY <1>2, <1>3, ReportingByRegion
  <2> HIDE DEF r, S
  <2> QED
    BY <1>4, <2>1, <2>2
<1>11. RowTokens(doc.sites) <= SumFunction([x \in S |-> RowTokens(InRegion(doc.sites, x))])
  BY <1>3, <1>8, RowsByRegion
<1>12. \A s \in doc.sites :
         {n \in doc.niosx : n.site = s.id} # {} =>
           SumFunction([n \in {n \in doc.niosx : n.site = s.id} |->
                          MemberTokens(n, doc.niosx, doc.sites, o)]) >= SiteSheet[s]
  <2>1. \A s \in doc.sites : SiteSheet[s] = SourceTokens(s, o)
    BY DEF SiteSheet
  <2> HIDE DEF o
  <2> QED
    BY <1>2, <1>3, <2>1, SharesOfSite
<1>13. ASSUME \A n \in doc.niosx : Len(n.name) = 1
       PROVE  SumFunction([line \in PlanSheet |-> line[2]]) = ServerTokens(doc.niosx, {}, 0)
  <2>1. PlanSheet = {<<UniqueName(n, doc.niosx), BoxTokens(n)>> : n \in doc.niosx}
    BY DEF PlanSheet, BoxTokens
  <2> QED
    BY <1>3, <1>13, <2>1, PlanIsWhole
<1>14. Preview.td + Preview.dossier + Preview.lookalikes
         = SecurityTokens(sec, Overheads["security"])
  BY PreviewAgrees DEF Numbers
<1> QED
  BY <1>6, <1>7, <1>9, <1>10, <1>11, <1>12, <1>13, <1>14 DEF PartsCoverTotals, SumOver

(* The invariant of the numbers of the report holds whatever the other     *)
(* steps lead to and the user types.                                       *)
THEOREM ReportNumbers == ReportSpec => []Numbers
<1>1. ReportInv /\ Numbers /\ [ReportNext]_reportVars => Numbers'
  BY NumbersStep
<1> QED
  BY <1>1, NumbersInit, ReportInductive, PTL DEF ReportSpec

(* For any sites, members, service points, percentages and numbers, and    *)
(* whichever products of doubles round up too far, no total of the report  *)
(* is more than its parts but for one token of rounding in each product,   *)
(* and what is calculated in two places comes out the same.                *)
THEOREM PartsAddUp == ReportSpec => []PartsCoverTotals
<1>1. ReportInv /\ Numbers => PartsCoverTotals
  BY PartsCover DEF ReportInv
<1> QED
  BY <1>1, ReportInductive, ReportNumbers, PTL
=============================================================================
