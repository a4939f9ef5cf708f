----------------------------- MODULE VNIOSSpecs -----------------------------
(***************************************************************************)
(* The appliances and the savings as the server knows them, for the        *)
(* workbook (internal/calculator/vnios_specs.go).  The pages have a table  *)
(* and functions of their own: ResourceSavings.                            *)
(*                                                                         *)
(* A row of a table is a model with the virtual CPUs and the gigabytes of  *)
(* each of its configurations, the default first; the table X5AWS is in    *)
(* quarters of a gigabyte, and so is whatever is computed from the tables. *)
(***************************************************************************)
EXTENDS Integers, Sequences, FiniteSets, Functions

X5VMware ==
  { <<"IB-V815",  <<2>>,  <<16>>>>,  <<"IB-V825",  <<2>>,  <<16>>>>,
    <<"IB-V1415", <<4>>,  <<32>>>>,  <<"IB-V1425", <<4>>,  <<32>>>>,
    <<"IB-V2215", <<8>>,  <<64>>>>,  <<"IB-V2225", <<8>>,  <<64>>>>,
    <<"IB-V4015", <<14>>, <<128>>>>, <<"IB-V4025", <<14>>, <<128>>>> }

X5Azure ==
  { <<"IB-V825",  <<2>>,  <<14>>>>,  <<"IB-V1425", <<4>>,  <<28>>>>,
    <<"IB-V2225", <<8>>,  <<56>>>>,
    <<"IB-V4015", <<16>>, <<112>>>>, <<"IB-V4025", <<16>>, <<112>>>> }

X5AWS ==
  { <<"IB-V825",  <<2, 2, 2>>,    << 64,  32,  61>>>>,
    <<"IB-V1425", <<4, 4, 4>>,    <<128,  64, 122>>>>,
    <<"IB-V2225", <<8, 8, 8>>,    <<256, 128, 244>>>>,
    <<"IB-V4015", <<16, 16, 16>>, <<512, 256, 488>>>>,
    <<"IB-V4025", <<16, 16, 16>>, <<512, 256, 488>>>> }

X5GCP ==
  { <<"IB-V825",  <<2>>,  <<16>>>>,  <<"IB-V1425", <<4>>,  <<32>>>>,
    <<"IB-V2225", <<8>>,  <<64>>>>,
    <<"IB-V4015", <<16>>, <<128>>>>, <<"IB-V4025", <<16>>, <<128>>>> }

X6VMware ==
  { <<"IB-V926",  <<4, 8>>,   <<32, 32>>>>,
    <<"IB-V1516", <<6, 12>>,  <<64, 64>>>>,
    <<"IB-V1526", <<8, 16>>,  <<64, 64>>>>,
    <<"IB-V2326", <<12, 20>>, <<128, 192>>>>,
    <<"IB-V4126", <<16, 32>>, <<256, 384>>>> }

X6Azure ==
  { <<"IB-V926",  <<4>>,  <<32>>>>,  <<"IB-V1516", <<8>>,  <<64>>>>,
    <<"IB-V1526", <<16>>, <<128>>>>,
    <<"IB-V2326", <<20>>, <<160>>>>, <<"IB-V4126", <<32>>, <<256>>>> }

X6AWS ==
  { <<"IB-V926",  <<4, 8>>,   <<32, 32>>>>,
    <<"IB-V1516", <<8, 16>>,  <<64, 64>>>>,
    <<"IB-V1526", <<16, 16>>, <<64, 128>>>>,
    <<"IB-V2326", <<32, 32>>, <<128, 256>>>>,
    <<"IB-V4126", <<32, 48>>, <<256, 384>>>> }

X6GCP ==
  { <<"IB-V926",  <<8, 8, 8>>,    <<16, 32, 64>>>>,
    <<"IB-V1516", <<16, 16, 16>>, <<32, 64, 128>>>>,
    <<"IB-V1526", <<16, 16, 32>>, <<64, 128, 64>>>>,
    <<"IB-V2326", <<32, 32, 32>>, <<64, 128, 256>>>>,
    <<"IB-V4126", <<64, 80, 80>>, <<512, 160, 320>>>> }

Physical == { <<"IB-4030", <<8>>, <<32>>>> }

Hardware(vCPU, ram) == [vCPU |-> vCPU, ram |-> ram]

(* The specs of a table; scale is the quarters in a unit of its memory. *)
SpecsOfTable(platform, table, scale) ==
  {[model |-> row[1], platform |-> platform,
    variants |-> [i \in DOMAIN row[2] |-> Hardware(row[2][i], scale * row[3][i])]] : row \in table}

Specs ==
  UNION {SpecsOfTable("VMware", X5VMware \cup X6VMware, 4),
         SpecsOfTable("Azure", X5Azure \cup X6Azure, 4),
         SpecsOfTable("AWS", X5AWS, 1), SpecsOfTable("AWS", X6AWS, 4),
         SpecsOfTable("GCP", X5GCP \cup X6GCP, 4),
         SpecsOfTable("Physical", Physical, 4)}

-----------------------------------------------------------------------------
(* Lookups return the variants of the spec in a set, empty when there is   *)
(* none.                                                                   *)

LookupApplianceSpec(model, platform) ==
  {spec.variants : spec \in {s \in Specs : s.model = model /\ s.platform = platform}}

ModelExistsOnAnyPlatform(model) == \E spec \in Specs : spec.model = model

(* physicalFamilyDefaults without the spellings IB-, TE- and T-, and the    *)
(* family a name begins with in place of the name.                          *)
LookupPhysicalFamily(family) ==
  CASE family = "4"              -> {<<Hardware(16, 4 * 128)>>}
    [] family = "22"             -> {<<Hardware(12, 4 * 64)>>}
    [] family \in {"14", "1", "8"} -> {<<Hardware(4, 4 * 16)>>}
    [] OTHER                     -> {}

(* awsLegacyAliases: models for VMware only and their siblings on AWS. *)
LookupAwsLegacy(model) ==
  LET siblings == { <<"IB-V815", "IB-V825">>, <<"IB-V1415", "IB-V1425">>, <<"IB-V2215", "IB-V2225">> }
  IN  UNION {LookupApplianceSpec(pair[2], "AWS") : pair \in {p \in siblings : p[1] = model}}

Lookup(m) ==
  LET exact == LookupApplianceSpec(m.model, m.platform)
  IN  CASE exact # {}                           -> exact
        [] exact = {} /\ m.platform = "Physical" -> LookupPhysicalFamily(m.family)
        [] exact = {} /\ m.platform = "AWS"      -> LookupAwsLegacy(m.model)
        [] OTHER                                -> {}

-----------------------------------------------------------------------------
(* The savings of a member.                                                *)

NiosXTierMinima(tier) ==
  CASE tier \in {"2XS", "XS"} -> Hardware(3, 4 * 4)
    [] tier = "S"             -> Hardware(4, 4 * 4)
    [] tier = "M"             -> Hardware(4, 4 * 32)
    [] tier = "L"             -> Hardware(16, 4 * 32)
    [] tier = "XL"            -> Hardware(24, 4 * 32)

(* A choice that is out of range, of another model, is the default. *)
ResolveVariant(variants, chosen) ==
  variants[IF chosen \in DOMAIN variants THEN chosen ELSE 1]

NotCounted(why) == [kind |-> why, before |-> Hardware(0, 0), after |-> Hardware(0, 0)]

(* Chassis are counted as chassis, whatever they move to. *)
CalcMemberSavings(m, tier, formFactor, chosen) ==
  IF m.model = "" THEN NotCounted("missing")
  ELSE IF Lookup(m) = {} THEN
    NotCounted(IF ModelExistsOnAnyPlatform(m.model) THEN "invalid" ELSE "missing")
  ELSE [kind   |-> IF m.platform = "Physical" THEN "physical" ELSE formFactor,
        before |-> ResolveVariant(CHOOSE variants \in Lookup(m) : TRUE, chosen),
        after  |-> IF formFactor = "nios-xaas" THEN Hardware(0, 0) ELSE NiosXTierMinima(tier)]

(* Savings are a function from members: what all that count save, those    *)
(* that go to NIOS-X, and those that go to XaaS.                           *)
CalcFleetSavings(savings) ==
  LET of(kinds) == {m \in DOMAIN savings : savings[m].kind \in kinds}
      delta(m, field) == savings[m].after[field] - savings[m].before[field]
      sum(members) == [vCPU    |-> SumFunction([m \in members |-> delta(m, "vCPU")]),
                       ram     |-> SumFunction([m \in members |-> delta(m, "ram")]),
                       members |-> Cardinality(members)]
  IN  [all |-> sum(of({"nios-x", "nios-xaas"})),
       niosX |-> sum(of({"nios-x"})), xaas |-> sum(of({"nios-xaas"})),
       retired |-> Cardinality(of({"physical"})),
       unknown |-> Cardinality(of({"missing"})), invalid |-> Cardinality(of({"invalid"}))]
=============================================================================
