--------------------------- MODULE ResultsTokens ----------------------------
(***************************************************************************)
(* What the pages of the results compute from the rows and the metrics of  *)
(* a scan: the management tokens by category, the NIOS licences, the tier  *)
(* of a server and the instances that XaaS members are consolidated into   *)
(* (mock-data.ts, nios-calc.ts, wizard.tsx, results-migration-planner.tsx).*)
(*                                                                         *)
(* A row is a record of its provider, source, region, item, category,      *)
(* count and rate, and of the place it has in the results of its provider. *)
(***************************************************************************)
EXTENDS TokenTiers, SequencesExt

Categories == {"ddi", "ip", "asset"}

(* Objects per token: of Universal DDI, and of a NIOS licence. *)
TokenRates     == [ddi |-> 25, ip |-> 13, asset |-> 3]
NiosTokenRates == [ddi |-> 50, ip |-> 25, asset |-> 13]

(* Math.ceil(v * (1 + pct)) *)
WithBuffer(v, percent) == CeilDiv(v * (100 + percent), 100)

CountIn(rows, category) ==
  SumFunction([f \in {g \in rows : g.category = category} |-> f.count])

CalcUddiTokensAggregated(rows) ==
  SumFunction([c \in Categories |-> CeilDiv(CountIn(rows, c), TokenRates[c])])

CalcNiosTokens(rows) ==
  LET licences(c) == CeilDiv(CountIn(rows, c), NiosTokenRates[c])
  IN  Max({licences(c) : c \in Categories})

(* One division for each category and rate, as the cards by category do. *)
CategoryTokens(rows, category) ==
  LET ofRate(r) == {f \in rows : f.category = category /\ f.rate = r}
  IN  SumFunction([r \in {f.rate : f \in rows} |-> CeilDiv(CountIn(ofRate(r), category), r)])

-----------------------------------------------------------------------------
(* Overridden counts.                                                      *)

(* Rows of several regions share a key. *)
FindingKey(f) == <<f.provider, f.source, f.item>>

EffectiveFindings(rows, overrides) ==
  {IF FindingKey(f) \in DOMAIN overrides
   THEN [f EXCEPT !.count = overrides[FindingKey(f)].count] ELSE f : f \in rows}

(* findings.find: the count of the first row with the key. *)
OriginalCount(rows, key) ==
  LET sharing == {f \in rows : FindingKey(f) = key}
  IN  (CHOOSE f \in sharing : \A g \in sharing : f.place <= g.place).count

-----------------------------------------------------------------------------
(* Servers: records of name, role, qps, lps and objects.                   *)

(* A grid master, or candidate, without workload: the portal replaces it. *)
IsInfraOnlyMember(m) ==
  m.role \in {"GM", "GMC"} /\ m.qps = 0 /\ m.lps = 0 /\ m.objects = 0

(* The load of a member, with what the user typed in place of what was scanned. *)
ApplyServerOverrides(m, overrides) ==
  LET value(f) == IF <<m.name, f>> \in DOMAIN overrides THEN overrides[<<m.name, f>>] ELSE m[f]
  IN  [name |-> m.name, qps |-> value("qps"), lps |-> value("lps"), objects |-> value("objects")]

SumOf(loads, field) == SumFunction([i \in DOMAIN loads |-> loads[i][field]])

Total(loads) ==
  [qps |-> SumOf(loads, "qps"), lps |-> SumOf(loads, "lps"), objects |-> SumOf(loads, "objects")]

(* Whether one XaaS instance, of the largest size, may take these members. *)
FitsLargest(loads) ==
  LET largest == XaasTiers[Len(XaasTiers)]
  IN  /\ Covers(largest, Total(loads))
      /\ Len(loads) <= largest.connections + XaasMaxExtraConnections

(* The size, and the tokens, of an instance that serves these members. *)
XaasTierOf(loads) ==
  XaasTiers[SmallestTier(XaasTiers,
    {i \in DOMAIN XaasTiers : /\ Covers(XaasTiers[i], Total(loads))
                              /\ Len(loads) <= XaasTiers[i].connections})]

XaasInstanceTokens(loads) ==
  LET tier  == XaasTierOf(loads)
      extra == IF Len(loads) > tier.connections THEN Len(loads) - tier.connections ELSE 0
  IN  tier.tokens + extra * XaasExtraConnectionCost

(* A member joins the instance being filled, or begins the next one. *)
AddMember(instances, load) ==
  IF instances = <<>> \/ ~FitsLargest(Append(Last(instances), load))
  THEN Append(instances, <<load>>)
  ELSE Front(instances) \o << Append(Last(instances), load) >>

(* The instances of a set of members, each the sequence of its members,    *)
(* the busiest first.                                                      *)
ConsolidateXaasInstances(loads) ==
  LET weight(load) == load.qps + 100 * load.lps
      sorted == SetToSortSeq(loads, LAMBDA a, b : weight(a) > weight(b))
  IN  IF loads = {} THEN <<>> ELSE FoldLeft(AddMember, <<>>, sorted)

(* The tokens of members on NIOS-X, each a server, and on XaaS. *)
NiosXTokens(loads) ==
  SumFunction([load \in loads |-> CalcServerTokenTier(load, "nios-x").tokens])

XaasTokens(loads) ==
  LET instances == ConsolidateXaasInstances(loads)
  IN  SumFunction([i \in DOMAIN instances |-> XaasInstanceTokens(instances[i])])

(* Those of members that move as the map says; members without an entry    *)
(* count as NIOS-X.                                                        *)
ServerTokens(loads, map) ==
  LET onXaas == {load \in loads : load.name \in DOMAIN map /\ map[load.name] = "nios-xaas"}
  IN  NiosXTokens(loads \ onXaas) + XaasTokens(onXaas)
=============================================================================
