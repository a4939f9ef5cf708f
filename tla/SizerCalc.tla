----------------------------- MODULE SizerCalc ------------------------------
(***************************************************************************)
(* The calculations of the sizer (sizer-derive.ts, sizer-calc.ts): what a  *)
(* number of users amounts to, and overheads.                              *)
(*                                                                         *)
(* Fractions of the code are integers here: percentages for overheads and  *)
(* shares, tenths for the factors per user.  Rounding is that of Math.ceil *)
(* and Math.round on exact numbers; the code rounds products of doubles.   *)
(***************************************************************************)
EXTENDS TokenTiers

(* A field that has no value: undefined in the code, where 0 is a value.   *)
Undefined == -1

(* v ?? d *)
Or(v, d) == IF v = Undefined THEN d ELSE v

-----------------------------------------------------------------------------
(* What a number of users amounts to.                                      *)

(* Users up to max use assets / 10 assets each, verified % of them verified. *)
UserTiers ==
  << [max |-> 1249, assets |-> 20, verified |-> 22],
     [max |-> 2499, assets |-> 20, verified |-> 11],
     [max |-> 4999, assets |-> 20, verified |-> 38],
     [max |-> 9999, assets |-> 15, verified |-> 19] >>

BeyondUserTiers == [assets |-> 10, verified |-> 18]

UserTier(users) ==
  LET fitting == {i \in DOMAIN UserTiers : users <= UserTiers[i].max}
  IN  IF fitting = {} THEN BeyondUserTiers
      ELSE [assets   |-> UserTiers[Min(fitting)].assets,
            verified |-> UserTiers[Min(fitting)].verified]

DhcpPercent == 80
LeaseHours == 1

AtLeastOne(n) == IF n < 1 THEN 1 ELSE n

(* The fields of a site as its users imply them.  given has a value for    *)
(* each field the user has set, which replaces the implied one; dhcpPct is *)
(* a percentage.                                                           *)
DeriveFromUsers(users, given) ==
  LET tier      == UserTier(users)
      ips       == Or(given.activeIPs, CeilDiv(15 * users, 10))
      assets    == Or(given.assets, RoundDiv(users * tier.assets, 10))
      verified  == RoundDiv(assets * tier.verified, 100)
      networks  == Or(given.networksPerSite, AtLeastOne(CeilDiv(users, 250)))
      dhcpPct   == Or(given.dhcpPct, DhcpPercent)
      lease     == Or(given.avgLeaseDuration, LeaseHours)
  IN  [activeIPs        |-> ips,
       qps              |-> Or(given.qps, CeilDiv(32 * users, 10)),
       lps              |-> Or(given.lps, AtLeastOne(CeilDiv(ips * dhcpPct, 100 * lease * 3600))),
       assets           |-> assets,
       verifiedAssets   |-> verified,
       unverifiedAssets |-> assets - verified,
       networksPerSite  |-> networks,
       dnsZones         |-> Or(given.dnsZones, AtLeastOne(CeilDiv(users, 500))),
       dhcpScopes       |-> Or(given.dhcpScopes, networks),
       dhcpPct          |-> dhcpPct,
       avgLeaseDuration |-> lease]

DerivedFields ==
  {"activeIPs", "qps", "lps", "assets", "verifiedAssets", "unverifiedAssets",
   "networksPerSite", "dnsZones", "dhcpScopes", "dhcpPct", "avgLeaseDuration"}

(* The fields a user can set against the derivation. *)
OverridableFields == DerivedFields \ {"verifiedAssets", "unverifiedAssets"}

NoneGiven == [f \in OverridableFields |-> Undefined]
=============================================================================
