-------------------------- MODULE ResourceSavings ---------------------------
(***************************************************************************)
(* The virtual CPUs and the memory that go when members move: what each    *)
(* appliance has, what the server that replaces it has, and the totals.    *)
(* This is how the pages compute it (resource-savings.ts); the server does *)
(* it on its own for the workbook: VNIOSSpecs.                             *)
(*                                                                         *)
(* Memory is in quarters of a gigabyte.  The name of a physical model is   *)
(* represented by the family its prefix says it is of.                     *)
(***************************************************************************)
EXTENDS ResultsTokens

Gb(vCPU, ram) == [vCPU |-> vCPU, ram |-> 4 * ram]
Quarters(vCPU, ram) == [vCPU |-> vCPU, ram |-> ram]

(* A row of the table; the first configuration is the default. *)
Model(model, configurations) == <<model, configurations>>

-----------------------------------------------------------------------------
(* VNIOS_SPECS, by generation and platform.                                *)

X5VMware ==
  { Model("IB-V815", <<Gb(2, 16)>>),
    Model("IB-V825", <<Gb(2, 16)>>),
    Model("IB-V1415", <<Gb(4, 32)>>),
    Model("IB-V1425", <<Gb(4, 32)>>),
    Model("IB-V2215", <<Gb(8, 64)>>),
    Model("IB-V2225", <<Gb(8, 64)>>),
    Model("IB-V4015", <<Gb(14, 128)>>),
    Model("IB-V4025", <<Gb(14, 128)>>) }

X6VMware ==
  { Model("IB-V926", <<Gb(4, 32), Gb(8, 32)>>),
    Model("IB-V1516", <<Gb(6, 64), Gb(12, 64)>>),
    Model("IB-V1526", <<Gb(8, 64), Gb(16, 64)>>),
    Model("IB-V2326", <<Gb(12, 128), Gb(20, 192)>>),
    Model("IB-V4126", <<Gb(16, 256), Gb(32, 384)>>) }

X5Azure ==
  { Model("IB-V825", <<Gb(2, 14)>>),
    Model("IB-V1425", <<Gb(4, 28)>>),
    Model("IB-V2225", <<Gb(8, 56)>>),
    Model("IB-V4015", <<Gb(16, 112)>>),
    Model("IB-V4025", <<Gb(16, 112)>>) }

X6Azure ==
  { Model("IB-V926", <<Gb(4, 32)>>),
    Model("IB-V1516", <<Gb(8, 64)>>),
    Model("IB-V1526", <<Gb(16, 128)>>),
    Model("IB-V2326", <<Gb(20, 160)>>),
    Model("IB-V4126", <<Gb(32, 256)>>) }

X5Aws ==
  { Model("IB-V825", <<Gb(2, 16), Gb(2, 8), Quarters(2, 61)>>),
    Model("IB-V1425", <<Gb(4, 32), Gb(4, 16), Quarters(4, 122)>>),
    Model("IB-V2225", <<Gb(8, 64), Gb(8, 32), Gb(8, 61)>>),
    Model("IB-V4015", <<Gb(16, 128), Gb(16, 64), Gb(16, 122)>>),
    Model("IB-V4025", <<Gb(16, 128), Gb(16, 64), Gb(16, 122)>>) }

X6Aws ==
  { Model("IB-V926", <<Gb(4, 32), Gb(8, 32)>>),
    Model("IB-V1516", <<Gb(8, 64), Gb(16, 64)>>),
    Model("IB-V1526", <<Gb(16, 64), Gb(16, 128)>>),
    Model("IB-V2326", <<Gb(32, 128), Gb(32, 256)>>),
    Model("IB-V4126", <<Gb(32, 256), Gb(48, 384)>>) }

X5Gcp ==
  { Model("IB-V825", <<Gb(2, 16)>>),
    Model("IB-V1425", <<Gb(4, 32)>>),
    Model("IB-V2225", <<Gb(8, 64)>>),
    Model("IB-V4015", <<Gb(16, 128)>>),
    Model("IB-V4025", <<Gb(16, 128)>>) }

X6Gcp ==
  { Model("IB-V926", <<Gb(8, 16), Gb(8, 32), Gb(8, 64)>>),
    Model("IB-V1516", <<Gb(16, 32), Gb(16, 64), Gb(16, 128)>>),
    Model("IB-V1526", <<Gb(16, 64), Gb(16, 128), Gb(32, 64)>>),
    Model("IB-V2326", <<Gb(32, 64), Gb(32, 128), Gb(32, 256)>>),
    Model("IB-V4126", <<Gb(64, 512), Gb(80, 160), Gb(80, 320)>>) }
(* physicalFamilyDefaults, without the three spellings of a prefix *)
FamilyDefaults ==
  { Model("4", <<Gb(16, 128)>>), Model("22", <<Gb(12, 64)>>), Model("14", <<Gb(4, 16)>>),
    Model("1", <<Gb(4, 16)>>), Model("8", <<Gb(4, 16)>>) }

AwsLegacyAliases ==
  { <<"IB-V815", "IB-V825">>, <<"IB-V1415", "IB-V1425">>, <<"IB-V2215", "IB-V2225">> }

Platforms == {"VMware", "Azure", "AWS", "GCP", "Physical"}

SpecsOf(platform) ==
  CASE platform = "VMware"   -> X5VMware \cup X6VMware
    [] platform = "Azure"    -> X5Azure \cup X6Azure
    [] platform = "AWS"      -> X5Aws \cup X6Aws
    [] platform = "GCP"      -> X5Gcp \cup X6Gcp
    [] platform = "Physical" -> {Model("IB-4030", <<Gb(8, 32)>>)}
    [] OTHER                 -> {}

KnownSomewhere(model) == \E p \in Platforms : \E row \in SpecsOf(p) : row[1] = model

(* What the rows of a table have for a name: at most one, find's first. *)
Having(rows, name) == {row[2] : row \in {r \in rows : r[1] = name}}

(* The configurations of an appliance, of a physical one by its family; a  *)
(* model without a row on AWS is looked up as its sibling.                 *)
RowsOf(m, platform) ==
  LET exact == Having(SpecsOf(platform), m.model)
  IN  CASE exact # {} -> exact
        [] exact = {} /\ platform = "Physical" -> Having(FamilyDefaults, m.family)
        [] exact = {} /\ platform = "AWS" ->
             UNION {Having(SpecsOf("AWS"), sibling) : sibling \in Having(AwsLegacyAliases, m.model)}
        [] OTHER -> {}

(* None when there is no row for it. *)
LookupApplianceSpec(m, platform) ==
  IF RowsOf(m, platform) = {} THEN <<>> ELSE CHOOSE spec \in RowsOf(m, platform) : TRUE

(* Cores and memory of the NIOS-X sizes: cpu and ram of SERVER_TOKEN_TIERS *)
TierHardware(tier) ==
  CASE tier = "2XS" -> Gb(3, 4)
    [] tier = "XS"  -> Gb(3, 4)
    [] tier = "S"   -> Gb(4, 4)
    [] tier = "M"   -> Gb(4, 32)
    [] tier = "L"   -> Gb(16, 32)
    [] tier = "XL"  -> Gb(24, 32)

NoHardware == Gb(0, 0)

-----------------------------------------------------------------------------
(* The savings of a member that moves to a server of the tier, or to XaaS. *)
(* chosen is the configuration the user says it has, 0 without a choice.   *)

Excluded(why) == [kind |-> why, before |-> NoHardware, after |-> NoHardware]

CalcMemberSavings(m, platform, tier, formFactor, chosen) ==
  LET spec == LookupApplianceSpec(m, platform)
      before == spec[IF chosen \in DOMAIN spec THEN chosen ELSE 1]
  IN  CASE m.model = "" \/ (spec = <<>> /\ ~KnownSomewhere(m.model)) -> Excluded("missing")
        [] m.model # "" /\ spec = <<>> /\ KnownSomewhere(m.model) -> Excluded("invalid")
        [] OTHER -> [kind   |-> IF platform = "Physical" THEN "physical" ELSE formFactor,
                     before |-> before,
                     after  |-> IF formFactor = "nios-xaas" THEN NoHardware ELSE TierHardware(tier)]

(* Savings are a function from members; those of physical appliances are   *)
(* units, and those that are not known are left out.                       *)
CalcFleetSavings(savings) ==
  LET of(kind) == {m \in DOMAIN savings : savings[m].kind = kind}
      counted  == of("nios-x") \cup of("nios-xaas")
      sum(members, side, field) == SumFunction([m \in members |-> savings[m][side][field]])
      gain(members, field) == sum(members, "after", field) - sum(members, "before", field)
      gains(members) == [vCPU |-> gain(members, "vCPU"), ram |-> gain(members, "ram"),
                         members |-> Cardinality(members)]
  IN  [all |-> gains(counted), niosX |-> gains(of("nios-x")), xaas |-> gains(of("nios-xaas")),
       retired |-> Cardinality(of("physical")),
       unknown |-> Cardinality(of("missing")), invalid |-> Cardinality(of("invalid"))]

=============================================================================
