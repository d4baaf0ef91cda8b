-------------------------------- MODULE Trust --------------------------------
(***************************************************************************)
(* Deciding whether a certificate chain is trusted: verifyChain of         *)
(* src/trust/index.js with the path building and validation of path.js,    *)
(* the identity rules of name.js and the stapled response of ocsp.js.      *)
(*                                                                         *)
(* A certificate is a record of what parseCertificate reads from it:       *)
(*   parses, serial, subject, issuer, key, signer   the key its signature  *)
(*                     verifies under; weak, when the scheme is refused    *)
(*   ski, aki          key identifiers, or NoKid                           *)
(*   from, to          its validity                                        *)
(*   ca, pathLen, certSign, digital, server, ocsp   basicConstraints,      *)
(*                     keyUsage and extendedKeyUsage: what they permit     *)
(*   odd               an unrecognised critical extension                  *)
(*   names, nc         subjectAltName and nameConstraints                  *)
(* Signatures are ideal: one verifies under one key and no other, and its  *)
(* algorithm is ECDSA when that key is on an elliptic curve.               *)
(***************************************************************************)
EXTENDS Integers, FiniteSets, SequencesExt

CONSTANTS Parsed,        \* parseCertificate: the certificate of each DER encoding
          Calls,         \* families of [chain, policy, staple, host]: what verifyChain is called with
          Now,           \* the clock
          MaxPathLength, \* certificates of a path, at most
          Skew, MaxAge,  \* CLOCK_SKEW_MS and MAX_AGE_WITHOUT_NEXT_UPDATE_MS
          Ec, OddCurves, \* the keys on an elliptic curve, and on one CURVE_TO_SCHEME does not know
          NoKid, NoStaple, NoLimit

NoAnchor == [name |-> "none"]

\* A call presents at least one certificate; parseCertificate reads the names of the two
\* types a host can have, and a path length that is a number where there is one.
ASSUME TrustAssumption ==
  /\ MaxPathLength \in Nat \ {0}
  /\ {Now, Skew, MaxAge} \subseteq Nat
  /\ NoLimit \notin Nat
  /\ OddCurves \subseteq Ec
  /\ \A d \in DOMAIN Parsed : /\ Parsed[d].pathLen \in Nat \union {NoLimit}
                              /\ \A n \in Parsed[d].names : n.type \in {"dns", "ip"}
  /\ \A f \in DOMAIN Calls : \A c \in Calls[f] :
       /\ c.chain \in Seq(DOMAIN Parsed) \ {<<>>}
       /\ c.policy.anchors \in Seq(ToSet(c.policy.anchors) \ {NoAnchor})
       /\ c.staple # NoStaple => /\ c.staple.certs \in Seq(ToSet(c.staple.certs))
                                /\ c.staple.singles \in Seq(ToSet(c.staple.singles))

VARIABLES
  case,      \* the call
  at,        \* "start", "build", "judge", "pins", "staple", "accepted" or "refused"
  path,      \* indices into the chain, the leaf's first
  anchor,    \* the trust anchor that ends the path
  level,     \* the index in path of the next certificate to judge
  left,      \* pathLenRemaining.value
  permitted, \* dnsPermittedLayers, ipPermittedLayers: sets of subtrees of one type
  excluded   \* dnsExcluded, ipExcluded

vars == <<case, at, path, anchor, level, left, permitted, excluded>>

chain == [i \in DOMAIN case.chain |-> Parsed[case.chain[i]]]
policy == case.policy
Leaf == chain[1]
OnPath(i) == chain[path[i]]

Init ==
  /\ \E family \in DOMAIN Calls : case \in Calls[family]
  /\ at = "start" /\ path = <<1>> /\ anchor = NoAnchor /\ level = 0 /\ left = MaxPathLength
  /\ permitted = {} /\ excluded = {}

Judging == <<level, left, permitted, excluded>>
Refuse == at' = "refused" /\ UNCHANGED <<case, path, anchor, level, left, permitted, excluded>>
Pass(next) == at' = next /\ UNCHANGED <<case, path, anchor, level, left, permitted, excluded>>

-----------------------------------------------------------------------------
\* Names: a dNSName is a sequence of labels, an iPAddress its bits.

\* dnsNameMatches: a wildcard is a whole leftmost label over two labels or more.
DnsNameMatches(san, host) ==
  \/ "*" \notin ToSet(san) /\ san = host
  \/ /\ san # <<>> /\ Head(san) = "*" /\ "*" \notin ToSet(Tail(san))
     /\ Len(san) >= 3 /\ Len(host) = Len(san) /\ Tail(host) = Tail(san)

MatchesIdentity(cert, host) ==
  \E n \in cert.names :
    /\ n.type = host.type
    /\ IF host.type = "ip" THEN n.value = host.value ELSE DnsNameMatches(n.value, host.value)

\* A subtree is below its base, or (a base that starts with a dot) strictly below.
Within(name, tree) ==
  IF tree.type = "ip" THEN IsPrefix(tree.value, name.value)
  ELSE IsSuffix(tree.value, name.value) /\ (tree.strict => name.value # tree.value)

Judged(type, trees) == {t \in trees : t.type = type}
Layers(nc) == {Judged(type, nc.permitted) : type \in {"dns", "ip"}} \ {{}}
Excluded(nc) == {t \in nc.excluded : t.type # "other"}
Understood(nc) == nc.critical => \A t \in nc.permitted \union nc.excluded : t.type # "other"

\* Mutant: the subtrees of all issuers are pooled, so that one may permit what another does not.
WithinAnyLayer(names) ==
  \A n \in names : LET pool == Judged(n.type, UNION permitted)
                   IN /\ pool # {} => \E t \in pool : Within(n, t)
                      /\ \A t \in excluded : t.type = n.type => ~Within(n, t)
WithinConstraints(names) ==
  \A n \in names :
    /\ \A layer \in permitted : (\A t \in layer : t.type = n.type) => \E t \in layer : Within(n, t)
    /\ \A t \in excluded : t.type = n.type => ~Within(n, t)

-----------------------------------------------------------------------------
\* What parseCertificate refuses: malformed DER, and fields that contradict each other.
Parses(cert) == cert.parses /\ cert.from <= cert.to /\ (cert.pathLen # NoLimit => cert.ca)

-----------------------------------------------------------------------------
\* buildPath.

SelfIssued(cert) == cert.subject = cert.issuer
KidCompatible(aki, ski) == aki = NoKid \/ ski = NoKid \/ aki = ski
ResolveSignatureScheme(cert) == ~cert.weak
\* verifySignedObject throws CERT_SIGNATURE_WEAK or _UNSUPPORTED, before it tries the key: a weak
\* scheme, or an ECDSA signature and a key on a curve that is not supported, whoever signed.
Unsupported(cert, key) == ~ResolveSignatureScheme(cert) \/ (cert.signer \in Ec /\ key \in OddCurves)
VerifySignedObject(cert, key) == ~Unsupported(cert, key) /\ cert.signer = key

Current == OnPath(Len(path))
AnchorCandidates ==
  {i \in DOMAIN policy.anchors : /\ policy.anchors[i].name = Current.issuer
                                 /\ KidCompatible(Current.aki, policy.anchors[i].kid)}

CandidatesOf(used) ==
  {i \in DOMAIN chain \ used : /\ chain[i].subject = Current.issuer
                               /\ KidCompatible(Current.aki, chain[i].ski)
                               /\ case.chain[i] # case.chain[path[Len(path)]]}
\* Mutant: the chain is taken to be in order.
CandidatesInOrder == CandidatesOf(1..path[Len(path)])
Candidates == CandidatesOf(ToSet(path))

Anchoring == {i \in AnchorCandidates : VerifySignedObject(Current, policy.anchors[i].key)}
Signing == {i \in Candidates : VerifySignedObject(Current, chain[i].key)}
\* A lone candidate is taken as it is, and verified later; of several, the first that verifies.
Suitable == IF Cardinality(Candidates) = 1 THEN Candidates ELSE Signing

TooLong == Len(path) > MaxPathLength
\* The candidates are tried in order, and all but a plain mismatch is thrown on: one that is
\* unsupported ends the search, though it need not be the issuer, unless one before it verifies.
AnchorAborts == \E i \in AnchorCandidates : /\ Unsupported(Current, policy.anchors[i].key)
                                            /\ \A j \in Anchoring : i < j
CandidateAborts == /\ Cardinality(Candidates) > 1
                   /\ \E i \in Candidates : /\ Unsupported(Current, chain[i].key)
                                            /\ \A j \in Signing : i < j

ReachAnchor ==
  /\ at = "build" /\ ~TooLong /\ Anchoring # {} /\ ~AnchorAborts
  /\ anchor' = policy.anchors[Min(Anchoring)]
  /\ at' = "judge" /\ level' = Len(path) /\ left' = MaxPathLength
  /\ permitted' = Layers(anchor'.nc) /\ excluded' = Excluded(anchor'.nc)
  /\ UNCHANGED <<case, path>>

Extend ==
  /\ at = "build" /\ ~TooLong /\ Anchoring = {} /\ ~AnchorAborts
  /\ Suitable # {} /\ ~CandidateAborts
  /\ path' = Append(path, Min(Suitable))
  /\ UNCHANGED <<case, at, anchor, Judging>>

NoIssuer ==
  /\ at = "build"
  /\ \/ TooLong
     \/ AnchorAborts
     \/ Anchoring = {} /\ (CandidateAborts \/ Suitable = {})
  /\ Refuse

-----------------------------------------------------------------------------
\* validatePath, from the certificate under the anchor down to the leaf.

AnchorUnderstood == Understood([anchor.nc EXCEPT !.critical = TRUE])

LinkVerifies(i) == i # Len(path) => VerifySignedObject(OnPath(i), OnPath(i + 1).key)
InDate(cert) == cert.from <= Now /\ Now <= cert.to

AnyCertificate(i) ==
  /\ ~OnPath(i).odd /\ LinkVerifies(i) /\ InDate(OnPath(i))
  /\ (i = 1 \/ ~SelfIssued(OnPath(i))) => WithinConstraints(OnPath(i).names)
MayIssue(cert) ==
  /\ cert.ca /\ cert.certSign /\ cert.server
  /\ SelfIssued(cert) \/ left > 0
  /\ Understood(cert.nc)
MayServe(cert) == cert.server /\ cert.digital /\ MatchesIdentity(cert, case.host)

\* Each intermediate that is not self-issued uses one slot; a limit lowers, never raises.
LeftAfter(cert) ==
  LET used == IF SelfIssued(cert) THEN left ELSE left - 1
  IN IF cert.pathLen = NoLimit THEN used ELSE Min({used, cert.pathLen})

JudgeIssuer ==
  /\ at = "judge" /\ level > 1 /\ AnchorUnderstood
  /\ AnyCertificate(level) /\ MayIssue(OnPath(level))
  /\ left' = LeftAfter(OnPath(level))
  /\ permitted' = permitted \union Layers(OnPath(level).nc)
  /\ excluded' = excluded \union Excluded(OnPath(level).nc)
  /\ level' = level - 1
  /\ UNCHANGED <<case, at, path, anchor>>

JudgeLeaf ==
  /\ at = "judge" /\ level = 1 /\ AnchorUnderstood
  /\ AnyCertificate(1) /\ MayServe(Leaf)
  /\ Pass("pins")

JudgeRefuses ==
  /\ at = "judge"
  /\ \/ ~AnchorUnderstood
     \/ ~AnyCertificate(level)
     \/ level > 1 /\ ~MayIssue(OnPath(level))
     \/ level = 1 /\ ~MayServe(Leaf)
  /\ Refuse

-----------------------------------------------------------------------------
\* checkPins and checkRevocation.

PinMatches(certs) == policy.pins \intersect ({c.key : c \in certs} \union
                       IF anchor = NoAnchor THEN {} ELSE {anchor.key}) # {}

CheckPins ==
  /\ at = "pins"
  /\ IF policy.mode = "pinned" => PinMatches({OnPath(i) : i \in DOMAIN path})
     THEN Pass("staple") ELSE Refuse

Issuer == IF Len(path) > 1 THEN [name |-> OnPath(2).subject, key |-> OnPath(2).key]
          ELSE [name |-> anchor.name, key |-> anchor.key]

ParseSingleResponse(single) == single.next # NoLimit => single.this <= single.next
ParseBasicResponse(staple) ==
  /\ \A i \in DOMAIN staple.certs : Parses(staple.certs[i])
  /\ \A i \in DOMAIN staple.singles : ParseSingleResponse(staple.singles[i])
ParseOcspResponse(staple) == staple.parses /\ ParseBasicResponse(staple)

\* The first single response about this serial from this issuer.
Singles(staple) == {i \in DOMAIN staple.singles :
                      LET s == staple.singles[i]
                      IN s.serial = Leaf.serial /\ s.name = Issuer.name /\ s.key = Issuer.key}

\* A responder is named by its subject or by its key.
ByIssuer(staple) == staple.responder \in {Issuer.name, Issuer.key}
Responders(staple) == {i \in DOMAIN staple.certs :
                         staple.responder \in {staple.certs[i].subject, staple.certs[i].key}}
Delegated(cert) ==
  /\ cert.issuer = Issuer.name /\ cert.ocsp /\ InDate(cert) /\ cert.digital /\ ~cert.odd
  /\ VerifySignedObject(cert, Issuer.key)
ResponderKey(staple) ==
  IF ByIssuer(staple) THEN {Issuer.key}
  ELSE LET found == Responders(staple)
       IN IF found # {} /\ Delegated(staple.certs[Min(found)]) THEN {staple.certs[Min(found)].key}
          ELSE {}

Fresh(single) ==
  /\ single.this <= Now + Skew
  /\ IF single.next # NoLimit THEN Now <= single.next + Skew ELSE Now - single.this <= MaxAge

VerifyOcspStaple(staple) ==
  /\ ParseOcspResponse(staple)
  /\ staple.successful /\ Singles(staple) # {}
  /\ staple.signer \in ResponderKey(staple) \ OddCurves
  /\ LET single == staple.singles[Min(Singles(staple))]
     IN single.status = "good" /\ Fresh(single)

CheckRevocation ==
  /\ at = "staple"
  /\ IF (IF case.staple = NoStaple THEN policy.revocation # "require-staple"
         ELSE VerifyOcspStaple(case.staple))
     THEN Pass("accepted") ELSE Refuse

-----------------------------------------------------------------------------
\* verifyChain.

ChainParses == \A i \in DOMAIN chain : Parses(chain[i])

\* mode "none": nothing is checked but the pins, if there are any.
TrustNone ==
  /\ at = "start" /\ policy.mode = "none"
  /\ IF \/ policy.pins = {} /\ Parses(Leaf)
        \/ policy.pins # {} /\ ChainParses /\ PinMatches({chain[i] : i \in DOMAIN chain})
     THEN Pass("accepted") ELSE Refuse

\* mode "custom": the caller's verify decides.
TrustCustom ==
  /\ at = "start" /\ policy.mode = "custom"
  /\ \/ ChainParses /\ Pass("accepted")
     \/ Refuse

Validate ==
  /\ at = "start" /\ policy.mode \in {"system", "anchors", "pinned"}
  /\ IF ChainParses THEN Pass("build") ELSE Refuse

Next ==
  \/ TrustNone \/ TrustCustom \/ Validate
  \/ ReachAnchor \/ Extend \/ NoIssuer
  \/ JudgeIssuer \/ JudgeLeaf \/ JudgeRefuses
  \/ CheckPins \/ CheckRevocation

Spec == Init /\ [][Next]_vars

-----------------------------------------------------------------------------
(***************************************************************************)
(* What a trusted chain is, said without an order: RFC 5280 section 6.1    *)
(* of a path as a whole.                                                   *)
(***************************************************************************)
Paths == {p \in UNION {[1..n -> DOMAIN chain] : n \in 1..Len(chain)} :
            p[1] = 1 /\ Len(p) <= MaxPathLength /\ IsInjective(p)}

Linked(p, a) ==
  /\ \A i \in 1..(Len(p) - 1) : /\ chain[p[i]].issuer = chain[p[i + 1]].subject
                                /\ VerifySignedObject(chain[p[i]], chain[p[i + 1]].key)
  /\ chain[p[Len(p)]].issuer = a.name /\ VerifySignedObject(chain[p[Len(p)]], a.key)

Authorities(p) == {chain[p[i]] : i \in 2..Len(p)}
Between(p, i) == {k \in 2..(i - 1) : ~SelfIssued(chain[p[k]])}
Allows(nc, names) ==
  \A n \in names : LET mine == {t \in nc.permitted : t.type = n.type}
                   IN /\ mine # {} => \E t \in mine : Within(n, t)
                      /\ ~\E t \in nc.excluded : t.type = n.type /\ Within(n, t)

ValidPath(p, a) ==
  /\ Linked(p, a)
  /\ \A i \in DOMAIN p : InDate(chain[p[i]]) /\ ~chain[p[i]].odd
  /\ \A c \in Authorities(p) : c.ca /\ c.certSign /\ c.server /\ Understood(c.nc)
  /\ \A i \in 2..Len(p) : chain[p[i]].pathLen = NoLimit
                          \/ Cardinality(Between(p, i)) <= chain[p[i]].pathLen
  /\ \A i \in DOMAIN p : (i = 1 \/ ~SelfIssued(chain[p[i]])) =>
       \A nc \in {a.nc} \union {chain[p[k]].nc : k \in (i + 1)..Len(p)} : Allows(nc, chain[p[i]].names)
  /\ \A t \in a.nc.permitted \union a.nc.excluded : t.type # "other"
  /\ MayServe(Leaf)

IssuerKey(p, a) == IF Len(p) > 1 THEN chain[p[2]].key ELSE a.key

\* The issuing authority of the leaf, or a responder it designated, says the leaf is good.
Vouched(p, a) ==
  LET issuer == IssuerKey(p, a)
      name   == Leaf.issuer
      staple == case.staple
  IN /\ ParseOcspResponse(staple) /\ staple.successful /\ staple.signer \notin OddCurves
     /\ \/ staple.signer = issuer
        \/ \E i \in DOMAIN staple.certs :
             LET c == staple.certs[i]
             IN /\ c.key = staple.signer /\ c.issuer = name /\ VerifySignedObject(c, issuer)
                /\ c.ocsp /\ c.digital /\ InDate(c) /\ ~c.odd
     /\ \E i \in DOMAIN staple.singles :
          LET s == staple.singles[i]
          IN /\ s.serial = Leaf.serial /\ s.name = name /\ s.key = issuer
             /\ s.status = "good" /\ Fresh(s)

Acceptable(p, a) ==
  /\ ValidPath(p, a)
  /\ policy.mode = "pinned" => policy.pins \intersect ({chain[p[i]].key : i \in DOMAIN p} \union {a.key}) # {}
  /\ IF case.staple = NoStaple THEN policy.revocation # "require-staple" ELSE Vouched(p, a)

Validates == policy.mode \in {"system", "anchors", "pinned"}

\* A chain that is accepted is trusted: some path through its certificates runs from the leaf to
\* an anchor, every certificate of it may do what it does there, and pins and revocation agree.
AcceptedIsTrusted ==
  (at = "accepted" /\ Validates) => \E p \in Paths, a \in ToSet(policy.anchors) : Acceptable(p, a)

\* The path is the only one: no other certificate and no other anchor seems to have issued one of
\* its certificates.
Unrivalled(p, a) ==
  /\ \A i \in 1..(Len(p) - 1) :
       /\ {c \in ToSet(chain) : c.subject = chain[p[i]].issuer /\ c.key = chain[p[i]].signer}
            = {chain[p[i + 1]]}
       /\ ~\E b \in ToSet(policy.anchors) : b.name = chain[p[i]].issuer /\ b.key = chain[p[i]].signer
       /\ KidCompatible(chain[p[i]].aki, chain[p[i + 1]].ski)
  /\ {b \in ToSet(policy.anchors) : b.name = chain[p[Len(p)]].issuer /\ b.key = chain[p[Len(p)]].signer} = {a}
  /\ KidCompatible(chain[p[Len(p)]].aki, a.kid)

\* A responder names itself, by its name or its key, and reports on a certificate once.  It
\* attaches one certificate of its own: of several with its name or its key, ocsp.js takes the first.
Plain(p, a) ==
  case.staple # NoStaple =>
    LET staple == case.staple
        key    == IssuerKey(p, a)
        named(name, k) == staple.responder \in {name, k}
    IN /\ Cardinality({i \in DOMAIN staple.singles : staple.singles[i].serial = Leaf.serial}) <= 1
       /\ IF named(Leaf.issuer, key) THEN staple.signer = key
          ELSE /\ staple.signer # key
               /\ \E c \in ToSet(staple.certs) :
                    /\ named(c.subject, c.key)
                    /\ \A d \in ToSet(staple.certs) :
                         named(d.subject, d.key) \/ d.key = staple.signer => d = c

\* No certificate and no anchor with the name of an issuer of the path has a key that cannot be
\* tried on what that issuer signed: path.js throws such a candidate's error on, relevant or not.
Issuing(c) == {d.key : d \in {e \in ToSet(chain) : e.subject = c.issuer}}
                \union {b.key : b \in {e \in ToSet(policy.anchors) : e.name = c.issuer}}
Supported(p) == \A i \in DOMAIN p : \A k \in Issuing(chain[p[i]]) : ~Unsupported(chain[p[i]], k)

\* path.js says real servers send certificates out of order and with irrelevant ones among them:
\* a trusted chain is accepted all the same, where the path is the only one and every key that
\* may have to be tried can be.
TrustedIsAccepted ==
  (at = "refused" /\ Validates /\ ChainParses) =>
    ~\E p \in Paths, a \in ToSet(policy.anchors) :
        Acceptable(p, a) /\ Unrivalled(p, a) /\ Supported(p) /\ Plain(p, a)

\* The same without Supported, as the comment in buildPath has it: "Only 'this particular key did
\* not make this signature' keeps the search going; a weak or unsupported algorithm is a property
\* of the child and no other parent can fix it".
CurveImmaterial ==
  (at = "refused" /\ Validates /\ ChainParses) =>
    ~\E p \in Paths, a \in ToSet(policy.anchors) :
        Acceptable(p, a) /\ Unrivalled(p, a) /\ Plain(p, a)

\* The same without Unrivalled, as the comment over buildPath has it: "where several same-named
\* candidates exist (cross-signs, key rollovers), signatures disambiguate".
OrderImmaterial ==
  (at = "refused" /\ Validates /\ ChainParses) =>
    ~\E p \in Paths, a \in ToSet(policy.anchors) : Acceptable(p, a) /\ Supported(p) /\ Plain(p, a)
=============================================================================
