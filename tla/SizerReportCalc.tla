-------------------------- MODULE SizerReportCalc --------------------------
(***************************************************************************)
(* What the contents of the sizer amount to: the token formulas            *)
(* (sizer-calc.ts), what the report shows per site and per member          *)
(* (sizer-derive.ts, results-breakdown.tsx), the bill of materials         *)
(* (results-bom.tsx) and what the exports add (sizer-xlsx-export.ts).      *)
(*                                                                         *)
(* The code computes with doubles and rounds up at the end.  A product of  *)
(* doubles is so close to the exact one that rounding it up can differ in  *)
(* one way only: when the exact product is an integer and the double lies  *)
(* above it, the result is one too many.  100 * (1 + 0.1) is such a        *)
(* product.  Above holds the factors of those that are.                    *)
(***************************************************************************)
EXTENDS SizerCalc

CONSTANT Above

(* A growth of nothing is not among them: n * 1 is exact. *)
ASSUME AboveAssumption == \A factors \in Above : Len(factors) = 2 => factors[2] # 0

(* Math.ceil of the product of the factors, which is num / den exactly. *)
CeilDouble(num, den, factors) ==
  CeilDiv(num, den) + IF num % den = 0 /\ factors \in Above THEN 1 ELSE 0

Known(v) == Or(v, 0)

SumOver(set, f(_)) == SumFunction([x \in set |-> f(x)])

-----------------------------------------------------------------------------
(* The four totals.                                                        *)

PerToken == [ddi |-> 25, activeIP |-> 13, asset |-> 3]

DdiObjects(site) ==
  (Known(site.dnsRecords) + 2 * Known(site.dhcpScopes)) * site.multiplier

ManagementTokens(sites, percent) ==
  LET ips(s)    == Known(s.activeIPs) * s.multiplier
      assets(s) == Known(s.assets) * s.multiplier
      most      == Max({CeilDiv(SumOver(sites, DdiObjects), PerToken.ddi),
                        CeilDiv(SumOver(sites, ips), PerToken.activeIP),
                        CeilDiv(SumOver(sites, assets), PerToken.asset)})
  IN  CeilDouble(most * (100 + percent), 100, <<most, percent>>)

TierNamed(tiers, name) == CHOOSE i \in DOMAIN tiers : tiers[i].name = name

ServerTokens(niosx, xaas, percent) ==
  LET box(n)   == ServerTiers[TierNamed(ServerTiers, n.tier)].tokens
      extra(x) == LET over == x.connections - XaasTiers[TierNamed(XaasTiers, x.tier)].connections
                  IN  IF over > 0 THEN over * XaasExtraConnectionCost ELSE 0
      point(x) == XaasTiers[TierNamed(XaasTiers, x.tier)].tokens + extra(x)
      sum      == SumOver(niosx, box) + SumOver(xaas, point)
  IN  CeilDouble(sum * (100 + percent), 100, <<sum, percent>>)

(* The static and dynamic addresses of a site in 75ths, when 80 % of its   *)
(* addresses are from DHCP: solved from the number of DNS records, or one  *)
(* fifth and four fifths when that has no solution.                        *)
SplitIPs(site) ==
  LET ips     == Known(site.activeIPs)
      dynamic == 50 * Known(site.dnsRecords) - 80 * ips
      static  == 60 * ips - dynamic
  IN  IF dynamic < 0 \/ static < 0 THEN [static |-> 12 * ips, dynamic |-> 48 * ips]
      ELSE [static |-> static, dynamic |-> dynamic]

DaysPerMonth == 31
WorkDaysPerMonth == 22
EventsPerUnit == 10000000
Rates == [csp |-> 80, s3 |-> 40, cdc |-> 40]

(* Millions of log events of a month, rounded up to units of ten million.  *)
(* A lease of h hours is renewed 18 / h times a day; h divides 18 here.    *)
LogUnits(sites, on) ==
  LET dns(s) == LET ips == SplitIPs(s)
                IN  Known(s.qps) * (86400 \div 75) * s.multiplier
                      * (DaysPerMonth * ips.static + WorkDaysPerMonth * ips.dynamic)
      dhcp(s) == LET h == Or(s.lease, LeaseHours)
                 IN  ((h + 18) \div h) * WorkDaysPerMonth * SplitIPs(s).dynamic * s.multiplier
      logs == (IF "dns" \in on THEN SumOver(sites, dns) ELSE 0)
                + (IF "dhcp" \in on THEN CeilDiv(SumOver(sites, dhcp), 75) ELSE 0)
  IN  CeilDiv(logs, EventsPerUnit)

(* on: the destinations and the kinds of log that are turned on *)
ReportingTokens(sites, percent, on) ==
  LET units  == LogUnits(sites, on)
      to(d)  == CeilDouble(units * Rates[d] * (100 + percent), 100, <<units, percent, Rates[d]>>)
  IN  SumOver(DOMAIN Rates \cap on, to)

(* The three parts of the security tokens; SOC insights cost 35 % more. *)
TdCloud(sec, percent) ==
  LET assets == 3 * (sec.verified + sec.unverified)
  IN  IF sec.soc THEN CeilDouble(assets * 135 * (100 + percent), 10000, <<assets, 135, percent>>)
      ELSE CeilDouble(assets * (100 + percent), 100, <<assets, percent>>)

Dossier(sec, percent) ==
  LET units == CeilDiv(sec.dossier, 25)
  IN  CeilDouble(units * 450 * (100 + percent), 100, <<units, 450, percent>>)

Lookalikes(sec, percent) == RoundDiv(CeilDiv(sec.lookalikes, 25) * 1200 * (100 + percent), 100)

SecurityTokens(sec, percent) ==
  IF ~sec.enabled THEN 0
  ELSE TdCloud(sec, percent) + Dossier(sec, percent) + Lookalikes(sec, percent)

-----------------------------------------------------------------------------
(* What the report shows beside the totals.                                *)

(* The rows of "By Source", of the site sheet and of a region's summary. *)
SourceTokens(site, percent) == ManagementTokens({site}, percent)

RegionsOf(sites) == {s.region : s \in sites}
InRegion(sites, r) == {s \in sites : s.region = r}

(* The table of regions counts addresses only, a site at least once. *)
RowTokens(sites) ==
  LET ips(s) == Known(s.activeIPs) * AtLeastOne(s.multiplier)
  IN  CeilDiv(SumOver(sites, ips), PerToken.activeIP)

(* Slip: a share of a site is rounded down. *)
MemberTokensFloor(n, niosx, sites, percent) ==
  LET own   == {s \in sites : s.id = n.site}
      share == Cardinality({k \in niosx : k.site = n.site})
  IN  IF own = {} THEN 0 ELSE ManagementTokens(own, percent) \div share

(* The tokens of a site are divided among its members. *)
MemberTokens(n, niosx, sites, percent) ==
  LET own   == {s \in sites : s.id = n.site}
      share == Cardinality({k \in niosx : k.site = n.site})
  IN  IF own = {} THEN 0 ELSE CeilDiv(ManagementTokens(own, percent), share)

(* A name is a sequence: what the user typed, and a number for each " #N"  *)
(* after it.  Members that share a name get their place among them.        *)
UniqueName(n, niosx) ==
  LET same == {k \in niosx : k.name = n.name}
  IN  IF Cardinality(same) <= 1 THEN n.name
      ELSE Append(n.name, Cardinality({k \in same : k.id <= n.id}))

(* The lines of the bill as it is shown, and as "Copy BOM" writes them. *)
PackSize == [management |-> 1000, server |-> 500, reporting |-> 40, security |-> 100]

ShownBill(tokens) ==
  [k \in {"management"} \cup {c \in DOMAIN PackSize : tokens[c] > 0} |->
    CeilDiv(tokens[k], PackSize[k])]

CopiedBill(tokens) ==
  LET packs == [k \in DOMAIN PackSize |-> CeilDiv(tokens[k], PackSize[k])]
  IN  [k \in {c \in DOMAIN PackSize : c = "management" \/ packs[c] > 0} |-> packs[k]]
=============================================================================
