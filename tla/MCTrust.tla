------------------------------- MODULE MCTrust -------------------------------
(***************************************************************************)
(* A small public-key infrastructure: a root, an authority under it, an    *)
(* intermediate under that one, and the variations that matter: a rollover *)
(* of the intermediate's key, a cross-sign by another root, a self-issued  *)
(* authority, one that is no authority, path lengths, name constraints.    *)
(* Chains are a leaf and up to three of the others in any order.           *)
(***************************************************************************)
EXTENDS Trust

CONSTANTS none, noStaple, noLimit

Dns(value) == [type |-> "dns", value |-> value]
Ip(value) == [type |-> "ip", value |-> value]
Tree(name, strict) == [type |-> name.type, value |-> name.value, strict |-> strict]
Foreign == [type |-> "other", value |-> <<>>, strict |-> FALSE]

Shop == Dns(<<"shop", "example">>)
Www == Dns(<<"www", "shop", "example">>)
AnyShop == Dns(<<"*", "shop", "example">>)
Address == Ip(<<"1", "0", "1">>)

Free == [permitted |-> {}, excluded |-> {}, critical |-> FALSE]
Only(trees) == [permitted |-> trees, excluded |-> {}, critical |-> TRUE]
Without(trees) == [permitted |-> {}, excluded |-> trees, critical |-> TRUE]

Authority(subject, key, issuer, signer) ==
  [parses |-> TRUE, serial |-> 0, subject |-> subject, issuer |-> issuer, key |-> key,
   signer |-> signer, weak |-> FALSE, ski |-> none, aki |-> none, from |-> 0, to |-> 9,
   ca |-> TRUE, pathLen |-> noLimit, certSign |-> TRUE, digital |-> TRUE, server |-> TRUE,
   ocsp |-> FALSE, odd |-> FALSE, names |-> {}, nc |-> Free]

LeafCert == [Authority("leaf", "kLeaf", "mid", "kMid")
               EXCEPT !.serial = 7, !.ca = FALSE, !.certSign = FALSE, !.names = {Www}]
Leaves ==
  <<LeafCert, [LeafCert EXCEPT !.names = {AnyShop, Address}, !.digital = FALSE],
   [LeafCert EXCEPT !.names = {AnyShop, Address}, !.aki = "idMid"],
   [LeafCert EXCEPT !.signer = "kMid2"], [LeafCert EXCEPT !.issuer = "ca", !.signer = "kCa"],
   [LeafCert EXCEPT !.names = {Www, Dns(<<"other", "example">>)}],
    [LeafCert EXCEPT !.names = {Address}], [LeafCert EXCEPT !.issuer = "root", !.signer = "kRoot"]>>

Mid == Authority("mid", "kMid", "ca", "kCa")
Ca == Authority("ca", "kCa", "root", "kRoot")
Root == Authority("root", "kRoot", "root", "kRoot")
Others ==
  <<Mid, [Mid EXCEPT !.key = "kMid2", !.ski = "idMid2"], [Mid EXCEPT !.key = "kOdd"], [Mid EXCEPT !.ca = FALSE],
   [Mid EXCEPT !.to = 4], [Mid EXCEPT !.weak = TRUE], [Mid EXCEPT !.signer = "kRoot"],
   [Mid EXCEPT !.issuer = "old", !.signer = "kOld"],
   [Mid EXCEPT !.pathLen = 0, !.nc = Only({Tree(Shop, TRUE), Foreign}), !.nc.critical = FALSE],
   [Mid EXCEPT !.nc = Without({Tree(Ip(<<"1", "0">>), FALSE)}), !.ski = "idMid"],
   Ca, [Ca EXCEPT !.pathLen = 0], [Ca EXCEPT !.pathLen = 1, !.nc = Only({Tree(Www, FALSE)})],
   [Ca EXCEPT !.odd = TRUE],
   Authority("ca", "kCa", "ca", "kCa2"), Authority("ca", "kCa2", "root", "kRoot"),
   Root, [Root EXCEPT !.parses = FALSE]>>

Anchor(name, key, nc) == [name |-> name, key |-> key, kid |-> none, nc |-> nc]
Roots == <<Anchor("root", "kRoot", Free)>>
Both == <<Anchor("root", "kGone", Free), Anchor("root", "kRoot", Only({Tree(Shop, FALSE)})),
          Anchor("ca", "kCa2", Free), Anchor("ca", "kGone", Free)>>
Replaced == <<Anchor("ca", "kGone", Free), Anchor("ca", "kCa2", Free), Anchor("root", "kRoot", Free)>>

\* The intermediate, the cross-signing root and the responder have keys on a curve; an abandoned
\* anchor and an intermediate are on one that is not supported.
MCEc == {"kMid", "kCa2", "kResp", "kOdd", "kGone"}
MCOddCurves == {"kOdd", "kGone"}

Policy(mode, anchors, pins, revocation) ==
  [mode |-> mode, anchors |-> anchors, pins |-> pins, revocation |-> revocation]

Picks(n) == {p \in [1..n -> 1..Len(Others)] : IsInjective(p)}
MCParsed == Leaves \o Others
Chains(n) == {<<l>> \o [i \in 1..n |-> p[i] + Len(Leaves)] : l \in 1..Len(Leaves), p \in Picks(n)}

\* Every order of up to three certificates under two sets of anchors.
Trusting(anchors) == Policy("anchors", anchors, {}, "staple")
Shapes == [chain : UNION {Chains(n) : n \in 0..3}, policy : {Trusting(Roots), Trusting(Both)},
           staple : {noStaple}, host : {Www}]

\* A few chains under every policy and every stapled response.
Der(cert) == CHOOSE i \in DOMAIN MCParsed : MCParsed[i] = cert
Honest == {<<1, Der(Mid), Der(Ca)>>, <<1, Der(Ca), Der(Root), Der(Mid)>>, <<1>>,
           <<7, Der(Mid), Len(MCParsed)>>, <<8, Der(Mid)>>}
Policies == {Policy("system", Roots, {}, r) : r \in {"staple", "require-staple"}}
     \union {Policy("pinned", Roots, p, r) : p \in {{"kCa"}, {"kRoot"}, {"kElse"}},
                                            r \in {"staple", "require-staple"}}
     \union {Policy("none", <<>>, p, "staple") : p \in {{}, {"kCa"}, {"kElse"}}}
     \union {Policy("custom", <<>>, {}, "staple")}
Responder == [Authority("resp", "kResp", "ca", "kCa") EXCEPT !.ocsp = TRUE, !.ca = FALSE]
MidResponder == [Responder EXCEPT !.issuer = "mid", !.signer = "kMid"]
Single == [serial |-> 7, name |-> "mid", key |-> "kMid", status |-> "good", this |-> 4, next |-> 6]
Singles0 == {Single, [Single EXCEPT !.status = "revoked"], [Single EXCEPT !.this = 7],
             [Single EXCEPT !.next = 3], [Single EXCEPT !.this = 0, !.next = noLimit],
             [Single EXCEPT !.name = "root", !.key = "kRoot"], [Single EXCEPT !.serial = 8]}
Staple(parses, ok, singles, responder, certs, signer) ==
  [parses |-> parses, successful |-> ok, singles |-> singles, responder |-> responder,
   certs |-> certs, signer |-> signer]
Attached == {<<>>, <<Responder>>, <<MidResponder>>, <<[MidResponder EXCEPT !.ocsp = FALSE]>>,
             <<MidResponder, [Mid EXCEPT !.ca = FALSE, !.pathLen = 0]>>,
             <<[MidResponder EXCEPT !.to = 4], MidResponder>>, <<[MidResponder EXCEPT !.key = "kOdd"]>>}
Staples ==
  {Staple(TRUE, TRUE, s, r, c, k) :
     s \in {<<x>> : x \in Singles0} \union {<<[Single EXCEPT !.serial = 8], Single>>},
     r \in {"mid", "kMid", "resp", "kResp", "root"}, c \in Attached, k \in {"kMid", "kResp", "kRoot", "kOdd"}}
  \union {Staple(FALSE, TRUE, <<Single>>, "mid", <<>>, "kMid"), Staple(TRUE, FALSE, <<>>, "mid", <<>>, "kMid")}
Verdicts == [chain : Honest, policy : Policies, staple : Staples \union {noStaple}, host : {Www}]

\* Other names for the same servers.
Hosts == [chain : Chains(2), policy : {Trusting(Roots)}, staple : {noStaple},
          host : {Address, Dns(<<"a", "www", "shop", "example">>)}]

\* A same-named anchor is listed first whose key is on a curve that is not supported.
Curves == [chain : Chains(2), policy : {Trusting(Replaced)}, staple : {noStaple}, host : {Www}]

MCCalls == <<Shapes, Verdicts, Hosts, Curves>>
=============================================================================
