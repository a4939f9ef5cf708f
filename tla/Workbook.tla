------------------------------ MODULE Workbook ------------------------------
(***************************************************************************)
(* The workbook that the server builds from a session, sheet by sheet      *)
(* (internal/exporter, internal/calculator, and the tier of a domain       *)
(* controller in internal/scanner/ad).  It has the numbers of the scan,    *)
(* and knows of nothing the user typed or planned but the configurations   *)
(* that come with the request.                                             *)
(*                                                                         *)
(* A session is a record of the rows of its scan and of its servers, by    *)
(* provider: grid members in "nios", domain controllers in "microsoft".    *)
(* The sheet of errors, that of migration flags, and what the sheet of     *)
(* domain controllers says of the first half of them are left out.         *)
(***************************************************************************)
EXTENDS ResourceSavings

Go == INSTANCE VNIOSSpecs

-----------------------------------------------------------------------------
(* Management tokens.                                                      *)

PerToken     == [ddi |-> 25, ip |-> 13, asset |-> 3]
NiosPerToken == [ddi |-> 50, ip |-> 25, asset |-> 13]

(* Counts are added up before they are divided. *)
Tokens(rows, rates) == [c \in Categories |-> CeilDiv(CountIn(rows, c), rates[c])]

Largest(tokens) == Max({tokens[c] : c \in Categories})

(* calculator.Calculate, at the rates of Universal DDI for rows of any rate *)
Calculate(rows) ==
  LET tokens == Tokens(rows, PerToken)
  IN  [tokens |-> tokens, grandTotal |-> Largest(tokens)]

OfProvider(rows, p) == {f \in rows : f.provider = p}

UddiTokens(rows) == SumFunction(Tokens(rows, PerToken))
NiosTokens(rows) == Largest(Tokens(rows, NiosPerToken))

(* The scenarios assume that every count grows by a fifth. *)
Grown(rows) == {[f EXCEPT !.count = CeilDiv(120 * f.count, 100)] : f \in rows}

-----------------------------------------------------------------------------
(* Servers: the tiers by name, limits on queries, leases and objects, and  *)
(* tokens; adServerTiers of the scanner has the same.                      *)

NiosXTiers ==
  << <<"2XS",   5000,  75,   3000,  130>>,
     <<"XS",   10000, 150,   7500,  250>>,
     <<"S",    20000, 200,  29000,  470>>,
     <<"M",    40000, 300, 110000,  880>>,
     <<"L",    70000, 400, 440000, 1900>>,
     <<"XL",  115000, 675, 880000, 2700>> >>

(* The first tier that takes the server, the last when none does. *)
TierOf(m) ==
  LET last == Len(NiosXTiers)
      takes(t) == m.qps <= t[2] /\ m.lps <= t[3] /\ m.objects <= t[4]
      i == SelectInSeq(NiosXTiers, takes)
  IN  NiosXTiers[IF i = 0 THEN last ELSE i]

TokensOf(m) == TierOf(m)[5]

(* What the scanner of domain controllers stores with each of them. *)
ADServerTokens(dc) == TokensOf(dc)

InfraOnly(m) ==
  m.role \in {"GM", "GMC"} /\ m.qps = 0 /\ m.lps = 0 /\ m.objects = 0

-----------------------------------------------------------------------------
(* Sheets.                                                                 *)

(* Rows with their tokens, rounded up row by row. *)
TokenCalculationSheet(session) ==
  {[row |-> f, tokens |-> CeilDiv(f.count, f.rate)] : f \in session.rows}

ProviderSheet(session, p) == {r \in TokenCalculationSheet(session) : r.row.provider = p}

(* Tokens by category, and for each provider those of its rows. *)
SummarySheet(session) ==
  LET total(p) == SumFunction([r \in ProviderSheet(session, p) |-> r.tokens])
      all == Calculate(session.rows)
  IN  [tokens |-> all.tokens, grandTotal |-> all.grandTotal,
       providers |-> [p \in {f.provider : f \in session.rows} |-> total(p)]]

(* Slip: masters without workload are listed as well. *)
ServerTokensOfAllSheet(session) ==
  LET listed == session.servers["nios"]
  IN  [rows |-> {[member |-> m.name, tier |-> TierOf(m)[1], tokens |-> TokensOf(m)] : m \in listed},
       total |-> SumFunction([m \in listed |-> TokensOf(m)])]

(* Masters without workload need no server. *)
NiosServerTokensSheet(session) ==
  LET listed == {m \in session.servers["nios"] : ~InfraOnly(m)}
  IN  [rows |-> {[member |-> m.name, tier |-> TierOf(m)[1], tokens |-> TokensOf(m)] : m \in listed},
       total |-> SumFunction([m \in listed |-> TokensOf(m)])]

NiosMigrationScenariosSheet(session) ==
  LET rows == OfProvider(session.rows, "nios")
  IN  [current |-> [management |-> NiosTokens(rows), servers |-> 0],
       full    |-> [management |-> UddiTokens(Grown(rows)),
                    servers    |-> NiosServerTokensSheet(session).total]]

NiosMemberDetailsSheet(session) ==
  {[member |-> m.name, infraOnly |-> InfraOnly(m)] : m \in session.servers["nios"]}

ADMigrationSheet(session) ==
  [total |-> SumFunction([dc \in session.servers["microsoft"] |-> ADServerTokens(dc)])]

(* Packs of 1000 management tokens and of 500 server tokens. *)
SKUSheet(session) ==
  LET servers == NiosServerTokensSheet(session).total + ADMigrationSheet(session).total
  IN  [management |-> CeilDiv(Calculate(session.rows).grandTotal, 1000),
       servers    |-> CeilDiv(servers, 500)]

(* Every member counts as one that moves to NIOS-X, with the load that was *)
(* scanned, on the platform as it was scanned.  Choices are a function     *)
(* from the names of members.                                              *)
ResourceSavingsSheet(session, choices) ==
  Go!CalcFleetSavings(
    [m \in {n \in session.servers["nios"] : ~InfraOnly(n)} |->
       Go!CalcMemberSavings(m, TierOf(m)[1], "nios-x",
         IF m.name \in DOMAIN choices THEN choices[m.name] ELSE 0)])

(* Sheets about a provider, its members and controllers are there when it  *)
(* has some.                                                               *)
SheetsOf(session) ==
  {"summary", "skus", "rows", "providers"}
    \cup (IF session.servers["nios"] = {} THEN {}
          ELSE {"savings", "scenarios", "servers", "members"})
    \cup (IF session.servers["microsoft"] = {} THEN {} ELSE {"ad"})

Build(session, choices) ==
  [sheet \in SheetsOf(session) |->
    CASE sheet = "summary"   -> SummarySheet(session)
      [] sheet = "skus"      -> SKUSheet(session)
      [] sheet = "rows"      -> TokenCalculationSheet(session)
      [] sheet = "providers" -> [p \in {f.provider : f \in session.rows} |-> ProviderSheet(session, p)]
      [] sheet = "savings"   -> ResourceSavingsSheet(session, choices)
      [] sheet = "scenarios" -> NiosMigrationScenariosSheet(session)
      [] sheet = "servers"   -> NiosServerTokensSheet(session)
      [] sheet = "members"   -> NiosMemberDetailsSheet(session)
      [] sheet = "ad"        -> ADMigrationSheet(session)]
=============================================================================
