----------------------------- MODULE MCResults ------------------------------
(* The instance of Results that TLC checks: two grids, each a member and a *)
(* master without workload, one with rows of a source that is no server,   *)
(* and two forests, the rows of one of which share their key.              *)
EXTENDS Results

Row(p, source, region, item, category, count, rate, place) ==
  [provider |-> p, source |-> source, region |-> region, item |-> item,
   category |-> category, count |-> count, rate |-> rate, place |-> place]
On(platform, model, family) == [platform |-> platform, model |-> model, family |-> family]
Server(name, role, qps, objects, hardware) ==
  [name |-> name, role |-> role, qps |-> qps, lps |-> 0, objects |-> objects] @@ hardware
Controller(name, qps, objects) == Server(name, "DC", qps, objects, On("", "", ""))

Grid(hardware, other) ==
  [rows |-> {Row("nios", "m1", "r1", "zones", "ddi", 60, 50, 1),
             Row("nios", other, "r1", "leases", "ip", 30, 25, 2)},
   servers |-> {Server("m1", "DNS", 4000, 60, hardware),
                Server("gm", "GM", 0, 0, On("VMware", "IB-V1425", ""))}]
ForestA ==
  [rows |-> {Row("microsoft", "dc1", "r1", "zones", "ddi", 30000, 25, 1),
             Row("microsoft", "dc1", "r2", "zones", "ddi", 26, 25, 2)},
   servers |-> {Controller("dc1", 60000, 300), Controller("dc2", 60000, 26)}]
ForestB ==
  [rows |-> {Row("microsoft", "dc3", "r1", "hosts", "asset", 7, 3, 1)},
   servers |-> {Controller("dc3", 6000, 7)}]

MCOutcomes ==
  [p \in Providers |->
     IF p = "nios" THEN {Grid(On("AWS", "IB-V1415", ""), "gm"), Grid(On("VMware", "IB-V926", ""), "m3")}
     ELSE {ForestA, ForestB}]
MCSamples == {Server("sample", "DNS", 20000, 10000, On("Physical", "IB-2225", "22"))}

-----------------------------------------------------------------------------
(* Both tables of appliances, both rules for their savings and both lists  *)
(* of tiers say the same, of models in either table, on any platform, and  *)
(* of loads at a limit of a tier or just beyond it.                        *)

Models ==
  {spec.model : spec \in Go!Specs} \cup
  UNION {{row[1] : row \in SpecsOf(p)} : p \in Platforms} \cup {"", "IB-9999"}

ASSUME SavingsAgreeOnAllModels ==
  \A platform \in Platforms \cup {"Other"} :
  \A model \in Models, family \in {"4", "22", "14", "1", "8", ""}, chosen \in 0..4 :
  \A tier \in {t.name : t \in Range(ServerTiers)}, target \in {"nios-x", "nios-xaas"} :
    LET m == On(platform, model, family)
    IN  CalcMemberSavings(m, platform, tier, target, chosen) =
          Go!CalcMemberSavings(m, tier, target, chosen)

Limits(field) == {0} \cup UNION {{t[field], t[field] + 1} : t \in Range(ServerTiers)}

ASSUME TiersAgreeAtTheirLimits ==
  \A qps \in Limits("qps"), lps \in Limits("lps"), objects \in Limits("objects") :
    LET load == [qps |-> qps, lps |-> lps, objects |-> objects]
        tier == CalcServerTokenTier(load, "nios-x")
    IN  TierOf(load)[1] = tier.name /\ TokensOf(load) = tier.tokens
=============================================================================
