--------------------------- MODULE MCSizerReport ---------------------------
(* Two regions; sites that fill a token and sites that do not, one that    *)
(* stands for two, members of a site that do not divide its tokens.        *)
EXTENDS SizerReport

Site(id, region, multiplier, ips, records, assets) ==
  [id |-> id, region |-> region, multiplier |-> multiplier, activeIPs |-> ips,
   dnsRecords |-> records, dhcpScopes |-> 2, assets |-> assets,
   verified |-> assets \div 2, unverified |-> Undefined, qps |-> 1, lease |-> Undefined]

Box(id, name, site, tier) == [id |-> id, name |-> name, site |-> site, tier |-> tier]

Mixed ==
  [sites |-> {Site(1, "eu", 1, 14, 28, 5), Site(2, "eu", 2, 7, 0, 40), Site(3, "us", 1, Undefined, 90, 20)},
   niosx |-> {Box(1, <<"New">>, 1, "M"), Box(2, <<"New">>, 1, "XL"), Box(3, <<"New">>, 0, "S")},
   xaas  |-> {[id |-> 1, tier |-> "S", connections |-> 12]}]

(* 50 tokens each before growth, 100 together: 56 and 111 with 10 % *)
Round ==
  [sites |-> {Site(1, "eu", 1, 13, 0, 150), Site(2, "us", 1, 13, 30, 150)},
   niosx |-> {Box(1, <<"New">>, 1, "2XS"), Box(2, <<"New", 1>>, 1, "2XS"), Box(3, <<"New">>, 1, "M")},
   xaas  |-> {}]

MCDocuments == {Mixed, Round}

(* The products that occur here and are above the integer as doubles, with *)
(* growth of 0 and of 10 %.                                                *)
MCAbove ==
  LET tens == {5} \cup 9..11 \cup 17..23 \cup 33..46 \cup 65..93
                \cup 129..186 \cup 257..372 \cup 513..744
      units == {7, 11, 14, 17, 19, 22, 25, 28, 33, 34, 38, 39, 43, 44, 45}
  IN  {<<10 * n, 10>> : n \in tens}
        \cup {<<n, 10, r>> : n \in units, r \in {40, 80}}
        \cup {<<n, 450, 10>> : n \in {1, 2, 3, 4, 6, 7, 8}}
        \cup {<<180, 135, 0>>, <<360, 135, 0>>, <<600, 135, 10>>}
=============================================================================
