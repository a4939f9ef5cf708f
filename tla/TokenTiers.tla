----------------------------- MODULE TokenTiers -----------------------------
(***************************************************************************)
(* The sizes servers are sold in and the one that covers a load            *)
(* (shared/token-tiers.ts, nios-calc.ts).                                  *)
(***************************************************************************)
EXTENDS Integers, Sequences, FiniteSets, FiniteSetsExt

CeilDiv(a, b) == (a + b - 1) \div b
RoundDiv(a, b) == (2 * a + b) \div (2 * b)

(* SERVER_TOKEN_TIERS, smallest first *)
ServerTiers ==
  << [name |-> "2XS", qps |->   5000, lps |->  75, objects |->   3000, tokens |->  130],
     [name |-> "XS",  qps |->  10000, lps |-> 150, objects |->   7500, tokens |->  250],
     [name |-> "S",   qps |->  20000, lps |-> 200, objects |->  29000, tokens |->  470],
     [name |-> "M",   qps |->  40000, lps |-> 300, objects |-> 110000, tokens |->  880],
     [name |-> "L",   qps |->  70000, lps |-> 400, objects |-> 440000, tokens |-> 1900],
     [name |-> "XL",  qps |-> 115000, lps |-> 675, objects |-> 880000, tokens |-> 2700] >>

(* XAAS_TOKEN_TIERS *)
XaasTiers ==
  << [name |-> "S",  qps |->  20000, lps |-> 200, objects |->  29000,
      tokens |-> 2400, connections |-> 10],
     [name |-> "M",  qps |->  40000, lps |-> 300, objects |-> 110000,
      tokens |-> 4100, connections |-> 20],
     [name |-> "L",  qps |->  70000, lps |-> 400, objects |-> 440000,
      tokens |-> 6100, connections |-> 35],
     [name |-> "XL", qps |-> 115000, lps |-> 675, objects |-> 880000,
      tokens |-> 8500, connections |-> 85] >>

XaasExtraConnectionCost == 100
XaasMaxExtraConnections == 400

Covers(tier, load) ==
  /\ tier.qps >= load.qps
  /\ tier.lps >= load.lps
  /\ tier.objects >= load.objects

(* The place of the smallest tier with the property, the last when none has it. *)
SmallestTier(tiers, fitting) ==
  IF fitting = {} THEN Len(tiers) ELSE CHOOSE i \in fitting : \A j \in fitting : i <= j

TierFor(tiers, load) ==
  SmallestTier(tiers, {i \in DOMAIN tiers : Covers(tiers[i], load)})

PickServerTier(load) == TierFor(ServerTiers, load)

(* calcServerTokenTier, the other implementation, for a form factor *)
CalcServerTokenTier(load, formFactor) ==
  LET tiers == IF formFactor = "nios-xaas" THEN XaasTiers ELSE ServerTiers
  IN  tiers[TierFor(tiers, load)]
=============================================================================
