------------------------ MODULE TlsHandshake_proofs ------------------------
(***************************************************************************)
(* Proofs about TlsHandshake, for every set of pool keys and the versions  *)
(* offered under them, whatever the server sends, and however many         *)
(* connections and tickets there are.                                      *)
(***************************************************************************)
EXTENDS TlsHandshake, SequenceTheorems, WellFoundedInduction, TLAPS

(***************************************************************************)
(* The strengthening.  The peer is known in every stage that follows the   *)
(* proof of its certificate.  A PSK that the server took stands for the    *)
(* peer of the connection that gave it, so the store belongs to the        *)
(* invariant: a ticket filed under another key would vouch for the wrong   *)
(* host.  Of the types, only those that these facts need are stated.       *)
(***************************************************************************)
TicketsOf(k) == [id : Nat, hash : Suites, born : Nat, peer : {k}, life : Nat]

HTypeOK ==
  /\ DOMAIN conn = DOMAIN Fresh
  /\ conn.suite \in Suites
  /\ clock \in Nat /\ minted \in Nat
  /\ closed \in BOOLEAN
Filed ==
  /\ store \in [Keys -> UNION {Seq(TicketsOf(k)) : k \in Keys}]
  /\ \A k \in Keys : store[k] \in Seq(TicketsOf(k)) /\ Len(store[k]) <= MaxPerKey
  /\ closed => \A k \in Keys : store[k] = <<>>
PskKnown ==
  /\ conn.at # "idle" /\ conn.at # "failed" => conn.key \in Keys
  /\ conn.psk # NoTicket => conn.psk.peer = conn.key
  /\ conn.resumed => conn.psk # NoTicket
  /\ conn.at \in {"serverHello", "helloAfterRetry"} => ~conn.resumed
PeerKnown ==
  /\ conn.at \in {"ccs", "serverFinished", "open"} => conn.peer = conn.key
  /\ conn.at = "open" => conn.confirmed = "good"
HInv == HTypeOK /\ Filed /\ PskKnown /\ PeerKnown

-----------------------------------------------------------------------------
(***************************************************************************)
(* The ticket store.                                                       *)
(***************************************************************************)
\* The newest of a nonempty set of positions is one of them (used by take()).
LEMMA MaxIsMember ==
  ASSUME NEW n \in Nat, NEW S \in SUBSET (1..n), S # {}
  PROVE  Max(S) \in S
PROOF
<1> DEFINE T == {n - i : i \in S}
           R == OpToRel(<, Nat)
<1>1. T \subseteq Nat /\ T # {}
  <2>1. \A i \in S : i \in Int /\ i >= 1 /\ i <= n
    OBVIOUS
  <2>2. \A i \in S : n - i \in Nat
    BY <2>1
  <2> QED
    BY <2>2
<1>2. PICK x \in T : \A y \in T : <<y, x>> \notin R
  <2> HIDE DEF T
  <2>1. IsWellFoundedOn(R, Nat)
    BY NatLessThanWellFounded
  <2> HIDE DEF R
  <2> QED
    BY <1>1, <2>1, WFMin
<1>3. \A y \in T : ~(y < x)
  <2> HIDE DEF T
  <2> QED
    BY <1>1, <1>2 DEF OpToRel
<1>4. PICK i \in S : x = n - i
  BY <1>2
<1>5. \A j \in S : i >= j
  BY <1>3, <1>4
<1> QED
  BY <1>5 DEF Max

\* TicketStore.take() returns a ticket of this key, and leaves tickets of this key.
LEMMA TakeFacts ==
  ASSUME Filed, NEW k \in Keys
  PROVE  /\ Take(k).ticket \in TicketsOf(k) \union {NoTicket}
         /\ Take(k).rest \in Seq(TicketsOf(k))
         /\ Len(Take(k).rest) <= Len(store[k])
PROOF
<1> DEFINE usable == {i \in DOMAIN store[k] : clock - store[k][i].born < store[k][i].life}
           m == Max(usable)
<1>1. /\ store[k] \in Seq(TicketsOf(k))
      /\ Len(store[k]) \in Nat
      /\ DOMAIN store[k] = 1..Len(store[k])
  BY DEF Filed
<1>2. usable \in SUBSET (1..Len(store[k]))
  BY <1>1
<1>3. CASE usable = {}
  <2>1. Take(k) = [ticket |-> NoTicket, rest |-> <<>>]
    BY <1>3 DEF Take
  <2> QED
    BY <1>1, <2>1
<1>4. CASE usable # {}
  <2>1. Take(k) = [ticket |-> store[k][m], rest |-> SubSeq(store[k], 1, m - 1)]
    BY <1>4 DEF Take
  <2> HIDE DEF usable
  <2>2. m \in 1..Len(store[k])
    BY <1>1, <1>2, <1>4, MaxIsMember
  <2> HIDE DEF m
  <2>3. Take(k).ticket = store[k][m] /\ Take(k).rest = SubSeq(store[k], 1, m - 1)
    <3>1. \A t, r : [ticket |-> t, rest |-> r].ticket = t /\ [ticket |-> t, rest |-> r].rest = r
      OBVIOUS
    <3> QED
      BY <2>1, <3>1
  <2>4. /\ store[k][m] \in TicketsOf(k)
        /\ \A i \in 1..(m - 1) : store[k][i] \in TicketsOf(k)
    BY <1>1, <2>2
  <2>5. /\ SubSeq(store[k], 1, m - 1) \in Seq(TicketsOf(k))
        /\ Len(SubSeq(store[k], 1, m - 1)) = IF 1 <= m - 1 THEN m - 1 - 1 + 1 ELSE 0
    BY <2>2, <2>4, SubSeqProperties
  <2> QED
    BY <1>1, <2>2, <2>3, <2>4, <2>5
<1> QED
  BY <1>3, <1>4

\* TicketStore.put() keeps to the limit and adds nothing but the ticket.
LEMMA PutFacts ==
  ASSUME NEW S, NEW list \in Seq(S), NEW t \in S, MaxPerKey \in Nat, Len(list) <= MaxPerKey
  PROVE  Put(list, t) \in Seq(S) /\ Len(Put(list, t)) <= MaxPerKey
PROOF
<1> DEFINE l == Append(list, t)
           from == Max({1, Len(l) - MaxPerKey + 1})
<1>1. l \in Seq(S) /\ Len(l) \in Nat /\ Len(l) <= MaxPerKey + 1
  OBVIOUS
<1>2. Put(list, t) = IF t.life = 0 THEN list ELSE SubSeq(l, from, Len(l))
  BY DEF Put
<1> HIDE DEF l
<1>3. from = IF Len(l) - MaxPerKey + 1 > 1 THEN Len(l) - MaxPerKey + 1 ELSE 1
  BY <1>1 DEF Max
<1> HIDE DEF from
<1>4. from \in Int /\ from >= 1 /\ from >= Len(l) - MaxPerKey + 1
  BY <1>1, <1>3
<1>5. \A i \in from..Len(l) : l[i] \in S
  BY <1>1, <1>4
<1>6. /\ SubSeq(l, from, Len(l)) \in Seq(S)
      /\ Len(SubSeq(l, from, Len(l))) = IF from <= Len(l) THEN Len(l) - from + 1 ELSE 0
  BY <1>1, <1>4, <1>5, SubSeqProperties
<1> QED
  BY <1>1, <1>2, <1>4, <1>6

-----------------------------------------------------------------------------
(***************************************************************************)
(* The handshake.                                                          *)
(***************************************************************************)
\* Where the messages that matter to the proof are expected.
LEMMA WhereExpected ==
  ASSUME NEW at \in Stages, NEW type \in Expected[at]
  PROVE  /\ at \notin {"idle", "dialling", "open", "failed"}
         /\ type = "serverFinished" => at = "serverFinished"
         /\ type = "ccs" => at = "ccs"
         /\ type = "helloRetryRequest" => at = "serverHello"
         /\ type = "serverHello" => at \in {"serverHello", "helloAfterRetry"}
PROOF
  BY DEF Stages, Expected

\* What every message that is accepted leaves alone, and what is known of it.
LEMMA ReadsFacts ==
  ASSUME HInv, NEW m, NEW mine, Reads(m, mine)
  PROVE  /\ Filed' /\ clock' \in Nat /\ minted' \in Nat /\ closed' \in BOOLEAN
         /\ conn.at \in Stages /\ m.type \in Expected[conn.at]
         /\ conn.key \in Keys
         /\ Proves(m)
PROOF
<1>1. /\ store' = store /\ closed' = closed /\ clock' = clock /\ minted' = minted
      /\ conn.at \in Stages /\ Accepts(m)
  BY DEF Reads
<1>2. m.type \in Expected[conn.at] /\ Proves(m)
  BY <1>1 DEF Accepts
<1>3. conn.at \notin {"idle", "failed"}
  BY <1>1, <1>2, WhereExpected
<1> QED
  BY <1>1, <1>2, <1>3 DEF HInv, HTypeOK, Filed, PskKnown

\* resumptionFor(): the connection is new and its ticket is of its own key.
LEMMA TakeTicketKeeps ==
  ASSUME HandshakeAssumption, HInv, NEW k \in Keys, TakeTicket(k)
  PROVE  HInv'
PROOF
<1> DEFINE ticket == Take(k).ticket
           rest == Take(k).rest
<1>1. /\ ticket \in TicketsOf(k) \union {NoTicket}
      /\ rest \in Seq(TicketsOf(k))
      /\ Len(rest) <= Len(store[k])
  BY TakeFacts DEF HInv
<1>2. /\ ~closed /\ closed' = closed /\ clock' = clock /\ minted' = minted
      /\ store' = [store EXCEPT ![k] = rest]
      /\ conn' = [Fresh EXCEPT !.at = "dialling", !.key = k, !.psk = ticket]
  BY DEF TakeTicket
<1> HIDE DEF ticket, rest
<1>3. Filed'
  <2>1. \A j \in Keys : store'[j] = IF j = k THEN rest ELSE store[j]
    BY <1>2 DEF HInv, Filed
  <2>2. store' \in [Keys -> UNION {Seq(TicketsOf(j)) : j \in Keys}]
    BY <1>1, <1>2 DEF HInv, Filed
  <2>3. MaxPerKey \in Nat /\ Len(store[k]) <= MaxPerKey
    BY DEF HInv, Filed, HandshakeAssumption
  <2>4. Len(rest) \in Nat /\ Len(store[k]) \in Nat
    BY <1>1 DEF HInv, Filed
  <2>5. Len(rest) <= MaxPerKey
    BY <1>1, <2>3, <2>4
  <2>6. \A j \in Keys : store'[j] \in Seq(TicketsOf(j)) /\ Len(store'[j]) <= MaxPerKey
    BY <1>1, <2>1, <2>5 DEF HInv, Filed
  <2> QED
    BY <1>2, <2>2, <2>6 DEF Filed
<1>4. /\ DOMAIN conn' = DOMAIN Fresh
      /\ conn'.suite = "grease" /\ conn'.at = "dialling"
      /\ conn'.key = k /\ conn'.psk = ticket /\ conn'.resumed = FALSE
  BY <1>2 DEF Fresh
<1>5. HTypeOK'
  BY <1>2, <1>4 DEF HInv, HTypeOK, Suites
<1>6. PskKnown'
  BY <1>1, <1>4 DEF PskKnown, TicketsOf
<1>7. PeerKnown'
  BY <1>4 DEF PeerKnown
<1> QED
  BY <1>3, <1>5, <1>6, <1>7 DEF HInv

\* The first ClientHello is for the key of the dial and offers the ticket taken for it.
LEMMA SendHelloKeeps ==
  ASSUME HInv, SendHello
  PROVE  HInv'
PROOF
<1>1. /\ conn.at = "dialling" /\ conn' = ClientHello(conn.key, conn.psk)
      /\ UNCHANGED <<store, closed, clock, minted>>
  BY DEF SendHello
<1>2. /\ DOMAIN conn' = DOMAIN Fresh
      /\ conn'.suite = "grease" /\ conn'.at = "serverHello"
      /\ conn'.key = conn.key /\ conn'.psk = conn.psk /\ conn'.resumed = FALSE
  BY <1>1 DEF ClientHello, Fresh
<1>3. HTypeOK' /\ Filed'
  BY <1>1, <1>2 DEF HInv, HTypeOK, Filed, Suites
<1>4. PskKnown' /\ PeerKnown'
  BY <1>1, <1>2 DEF HInv, PskKnown, PeerKnown
<1> QED
  BY <1>3, <1>4 DEF HInv

\* A connection that is given up, or fails, knows nothing.
LEMMA FreshKeeps ==
  ASSUME HInv, UNCHANGED <<store, closed, clock, minted>>,
         conn' = Fresh \/ conn' = [Fresh EXCEPT !.at = "failed"]
  PROVE  HInv'
PROOF
<1>1. /\ DOMAIN conn' = DOMAIN Fresh
      /\ conn'.suite = "grease" /\ conn'.at \in {"idle", "failed"}
      /\ conn'.psk = NoTicket /\ conn'.resumed = FALSE
  BY DEF Fresh
<1>2. HTypeOK'
  BY <1>1 DEF HInv, HTypeOK, Suites
<1>3. Filed'
  BY DEF HInv, Filed
<1>4. PskKnown' /\ PeerKnown'
  BY <1>1 DEF PskKnown, PeerKnown
<1> QED
  BY <1>2, <1>3, <1>4 DEF HInv

\* A ticket is filed under the key of the connection, whose peer is that key.
LEMMA TicketKeeps ==
  ASSUME HandshakeAssumption, HInv, NEW life \in Lifetimes, NEW good \in BOOLEAN,
         NewSessionTicket(life, good)
  PROVE  HInv'
PROOF
<1> DEFINE t == [id |-> minted + 1, hash |-> conn.suite, born |-> clock, peer |-> conn.peer,
                 life |-> Min({life, MaxLife})]
<1>1. conn.at = "open" /\ minted' = minted + 1 /\ closed' = closed /\ clock' = clock
  BY DEF NewSessionTicket
<1>2. CASE ~good
  <2>1. conn' = [Fresh EXCEPT !.at = "failed"] /\ store' = store
    BY <1>2 DEF NewSessionTicket
  <2>2. /\ DOMAIN conn' = DOMAIN Fresh
        /\ conn'.suite = "grease" /\ conn'.at = "failed"
        /\ conn'.psk = NoTicket /\ conn'.resumed = FALSE
    BY <2>1 DEF Fresh
  <2>3. HTypeOK'
    BY <1>1, <2>2 DEF HInv, HTypeOK, Suites
  <2>4. Filed' /\ PskKnown' /\ PeerKnown'
    BY <1>1, <2>1, <2>2 DEF HInv, Filed, PskKnown, PeerKnown
  <2> QED
    BY <2>3, <2>4 DEF HInv
<1>3. CASE good
  <2>1. /\ conn' = [conn EXCEPT !.hashes.resumption = conn.transcript]
        /\ store' = IF closed THEN store ELSE [store EXCEPT ![conn.key] = Put(@, t)]
    BY <1>3 DEF NewSessionTicket
  <2>2. conn.key \in Keys /\ conn.peer = conn.key
    BY <1>1 DEF HInv, PskKnown, PeerKnown
  <2>3. Min({life, MaxLife}) \in Nat
    BY DEF Min, HandshakeAssumption
  <2>4. t \in TicketsOf(conn.key)
    BY <2>2, <2>3 DEF TicketsOf, HInv, HTypeOK
  <2> HIDE DEF t
  <2> DEFINE key == conn.key
             list == Put(store[key], t)
  <2>5. list \in Seq(TicketsOf(key)) /\ Len(list) <= MaxPerKey
    BY <2>2, <2>4, PutFacts DEF HInv, Filed, HandshakeAssumption
  <2>6. store' = IF closed THEN store ELSE [store EXCEPT ![key] = list]
    BY <2>1, <2>2 DEF HInv, Filed
  <2>7. key \in Keys
    BY <2>2
  <2> HIDE DEF list, key
  <2>8. Filed'
    <3>1. CASE closed
      BY <1>1, <2>6, <3>1 DEF HInv, Filed
    <3>2. CASE ~closed
      <4>1. \A j \in Keys : store'[j] = IF j = key THEN list ELSE store[j]
        BY <2>6, <3>2 DEF HInv, Filed
      <4>2. store' \in [Keys -> UNION {Seq(TicketsOf(j)) : j \in Keys}]
        BY <2>5, <2>6, <2>7, <3>2 DEF HInv, Filed
      <4> QED
        BY <1>1, <2>5, <3>2, <4>1, <4>2 DEF HInv, Filed
    <3> QED
      BY <3>1, <3>2
  <2>9. /\ DOMAIN conn' = DOMAIN conn /\ conn'.suite = conn.suite /\ conn'.at = conn.at
        /\ conn'.key = conn.key /\ conn'.psk = conn.psk /\ conn'.resumed = conn.resumed
        /\ conn'.peer = conn.peer /\ conn'.confirmed = conn.confirmed
    BY <2>1 DEF HInv, HTypeOK, Fresh
  <2>10. HTypeOK'
    BY <1>1, <2>9 DEF HInv, HTypeOK
  <2>11. PskKnown' /\ PeerKnown'
    BY <2>9 DEF HInv, PskKnown, PeerKnown
  <2> QED
    BY <2>8, <2>10, <2>11 DEF HInv
<1> QED
  BY <1>2, <1>3

\* One message of the server accepted, or refused: whatever it is, the invariant holds.
LEMMA ReceiveKeeps ==
  ASSUME HInv, NEW m, Receive(m)
  PROVE  HInv'
PROOF
<1>0. DOMAIN conn = DOMAIN Fresh /\ DOMAIN Fresh =
        {"at", "key", "offer", "psk", "version", "suite", "transcript", "hashes", "resumed",
         "requested", "status", "chain", "ske", "pending", "ignored", "peer", "confirmed"}
  BY DEF HInv, HTypeOK, Fresh
<1>1. CASE HelloRetryRequest(m)
  <2>1. m.type = "helloRetryRequest" /\ Reads(m, <<"clientHello">>)
    BY <1>1 DEF HelloRetryRequest
  <2>2. conn.at = "serverHello" /\ m.suite \in Suites
    BY <2>1, ReadsFacts, WhereExpected DEF Reads, Accepts, RetryFits, SuitesOf, Suites
  <2>3. /\ DOMAIN conn' = DOMAIN conn
        /\ conn'.at = "helloAfterRetry" /\ conn'.suite = m.suite
        /\ conn'.psk \in {conn.psk, NoTicket}
        /\ conn'.key = conn.key /\ conn'.resumed = conn.resumed
    BY <1>0, <1>1 DEF HelloRetryRequest
  <2> QED
    BY <2>1, <2>2, <2>3, ReadsFacts DEF HInv, HTypeOK, PskKnown, PeerKnown
<1>2. CASE ServerHello13(m)
  <2>1. m.type = "serverHello" /\ m.version = 13 /\ Reads(m, <<>>)
    BY <1>2 DEF ServerHello13
  <2>2. m.suite \in Suites /\ (m.selects # "none" => conn.psk # NoTicket)
    BY <2>1 DEF Reads, Accepts, HelloFits13, PskFits, SuitesOf, Suites
  <2>3. /\ DOMAIN conn' = DOMAIN conn
        /\ conn'.at = "encryptedExtensions" /\ conn'.suite = m.suite
        /\ conn'.resumed = (m.selects # "none")
        /\ conn'.psk = conn.psk /\ conn'.key = conn.key
    BY <1>0, <1>2 DEF ServerHello13, Hash
  <2> QED
    BY <2>1, <2>2, <2>3, ReadsFacts DEF HInv, HTypeOK, PskKnown, PeerKnown
<1>3. CASE EncryptedExtensions(m)
  <2>1. Reads(m, <<>>)
    BY <1>3 DEF EncryptedExtensions
  <2>2. /\ DOMAIN conn' = DOMAIN conn
        /\ conn'.at = IF conn.resumed THEN "serverFinished" ELSE "certOrRequest"
        /\ conn'.peer = IF conn.resumed THEN conn.psk.peer ELSE conn.peer
        /\ conn'.psk = conn.psk /\ conn'.key = conn.key /\ conn'.resumed = conn.resumed
        /\ conn'.suite = conn.suite
    BY <1>0, <1>3 DEF EncryptedExtensions, Hash
  <2> QED
    BY <2>1, <2>2, ReadsFacts DEF HInv, HTypeOK, PskKnown, PeerKnown
<1>4. CASE CertificateRequest(m)
  <2>1. Reads(m, <<>>)
    BY <1>4 DEF CertificateRequest
  <2>2. /\ DOMAIN conn' = DOMAIN conn
        /\ conn'.at \in {"certificate", "serverHelloDone"}
        /\ conn'.psk = conn.psk /\ conn'.key = conn.key /\ conn'.resumed = conn.resumed
        /\ conn'.suite = conn.suite
    BY <1>0, <1>4 DEF CertificateRequest, Hash
  <2> QED
    BY <2>1, <2>2, ReadsFacts DEF HInv, HTypeOK, PskKnown, PeerKnown
<1>5. CASE Certificate(m)
  <2>1. Reads(m, <<>>)
    BY <1>5 DEF Certificate
  <2>2. /\ DOMAIN conn' = DOMAIN conn
        /\ conn'.at \in {"certificateVerify", "statusOrKeys"}
        /\ conn'.psk = conn.psk /\ conn'.key = conn.key /\ conn'.resumed = conn.resumed
        /\ conn'.suite = conn.suite
    BY <1>0, <1>5 DEF Certificate, Hash
  <2> QED
    BY <2>1, <2>2, ReadsFacts DEF HInv, HTypeOK, PskKnown, PeerKnown
<1>6. CASE CertificateVerify(m)
  <2>1. m.type = "certificateVerify" /\ Reads(m, <<>>)
    BY <1>6 DEF CertificateVerify
  <2>2. Vouched(conn.chain, m.is) = conn.key
    BY <2>1, ReadsFacts DEF Proves, Vouched
  <2>3. /\ DOMAIN conn' = DOMAIN conn
        /\ conn'.at = "serverFinished" /\ conn'.peer = Vouched(conn.chain, m.is)
        /\ conn'.psk = conn.psk /\ conn'.key = conn.key /\ conn'.resumed = conn.resumed
        /\ conn'.suite = conn.suite
    BY <1>0, <1>6 DEF CertificateVerify, Hash
  <2> QED
    BY <2>1, <2>2, <2>3, ReadsFacts DEF HInv, HTypeOK, PskKnown, PeerKnown
<1>7. CASE Finished13(m)
  <2>1. m.type = "serverFinished" /\ Reads(m, Empty \o <<"clientFinished">>)
    BY <1>7 DEF Finished13
  <2>2. conn.at = "serverFinished" /\ m.is = "good"
    BY <2>1, ReadsFacts, WhereExpected DEF Proves
  <2>3. /\ DOMAIN conn' = DOMAIN conn
        /\ conn'.at = "open" /\ conn'.confirmed = m.is /\ conn'.peer = conn.peer
        /\ conn'.psk = conn.psk /\ conn'.key = conn.key /\ conn'.resumed = conn.resumed
        /\ conn'.suite = conn.suite
    BY <1>0, <1>7 DEF Finished13, Hash
  <2> QED
    BY <2>1, <2>2, <2>3, ReadsFacts DEF HInv, HTypeOK, PskKnown, PeerKnown
<1>8. CASE ServerHello12(m)
  <2>1. m.type = "serverHello" /\ m.version = 12 /\ Reads(m, <<>>)
    BY <1>8 DEF ServerHello12
  <2>2. m.suite \in Suites
    BY <2>1 DEF Reads, Accepts, HelloFits12, SuitesOf, Suites
  <2>3. /\ DOMAIN conn' = DOMAIN conn
        /\ conn'.at = "certificate12" /\ conn'.suite = m.suite
        /\ conn'.psk = conn.psk /\ conn'.key = conn.key /\ conn'.resumed = conn.resumed
    BY <1>0, <1>8 DEF ServerHello12, Hash
  <2> QED
    BY <2>1, <2>2, <2>3, ReadsFacts DEF HInv, HTypeOK, PskKnown, PeerKnown
<1>9. CASE CertificateStatus(m) \/ ServerKeyExchange(m)
  <2>1. Reads(m, <<>>)
    BY <1>9 DEF CertificateStatus, ServerKeyExchange
  <2>2. /\ DOMAIN conn' = DOMAIN conn
        /\ conn'.at \in {"serverKeyExchange", "requestOrDone"}
        /\ conn'.psk = conn.psk /\ conn'.key = conn.key /\ conn'.resumed = conn.resumed
        /\ conn'.suite = conn.suite
    BY <1>0, <1>9 DEF CertificateStatus, ServerKeyExchange, Hash
  <2> QED
    BY <2>1, <2>2, ReadsFacts DEF HInv, HTypeOK, PskKnown, PeerKnown
<1>10. CASE ServerHelloDone(m)
  <2> DEFINE mine == Append(Empty \o <<"clientKeyExchange">>, "clientFinished")
  <2>1. m.type = "serverHelloDone" /\ Reads(m, mine)
    BY <1>10 DEF ServerHelloDone
  <2>2. Vouched(conn.chain, conn.ske) = conn.key
    BY <2>1, ReadsFacts DEF Proves, Vouched
  <2>3. /\ DOMAIN conn' = DOMAIN conn
        /\ conn'.at = "ccs" /\ conn'.peer = Vouched(conn.chain, conn.ske)
        /\ conn'.psk = conn.psk /\ conn'.key = conn.key /\ conn'.resumed = conn.resumed
        /\ conn'.suite = conn.suite
    BY <1>0, <1>10 DEF ServerHelloDone, Hash
  <2> QED
    BY <2>1, <2>2, <2>3, ReadsFacts DEF HInv, HTypeOK, PskKnown, PeerKnown
<1>11. CASE ChangeCipherSpec(m)
  <2>1. m.type = "ccs" /\ Reads(m, <<>>)
    BY <1>11 DEF ChangeCipherSpec
  <2>2. conn.at = "ccs"
    BY <2>1, ReadsFacts, WhereExpected
  <2>3. /\ DOMAIN conn' = DOMAIN conn
        /\ conn'.at = "serverFinished" /\ conn'.peer = conn.peer
        /\ conn'.psk = conn.psk /\ conn'.key = conn.key /\ conn'.resumed = conn.resumed
        /\ conn'.suite = conn.suite
    BY <1>0, <1>11 DEF ChangeCipherSpec
  <2> QED
    BY <2>1, <2>2, <2>3, ReadsFacts DEF HInv, HTypeOK, PskKnown, PeerKnown
<1>12. CASE Finished12(m)
  <2>1. m.type = "serverFinished" /\ Reads(m, <<>>)
    BY <1>12 DEF Finished12
  <2>2. conn.at = "serverFinished" /\ m.is = "good"
    BY <2>1, ReadsFacts, WhereExpected DEF Proves
  <2>3. /\ DOMAIN conn' = DOMAIN conn
        /\ conn'.at = "open" /\ conn'.confirmed = m.is /\ conn'.peer = conn.peer
        /\ conn'.psk = conn.psk /\ conn'.key = conn.key /\ conn'.resumed = conn.resumed
        /\ conn'.suite = conn.suite
    BY <1>0, <1>12 DEF Finished12
  <2> QED
    BY <2>1, <2>2, <2>3, ReadsFacts DEF HInv, HTypeOK, PskKnown, PeerKnown
<1>13. CASE DropDummy(m)
  <2>1. UNCHANGED <<store, closed, clock, minted>>
    BY <1>13 DEF DropDummy
  <2>2. /\ DOMAIN conn' = DOMAIN conn
        /\ conn'.at = conn.at /\ conn'.peer = conn.peer /\ conn'.confirmed = conn.confirmed
        /\ conn'.psk = conn.psk /\ conn'.key = conn.key /\ conn'.resumed = conn.resumed
        /\ conn'.suite = conn.suite
    BY <1>0, <1>13 DEF DropDummy
  <2>3. HTypeOK' /\ Filed'
    BY <2>1, <2>2 DEF HInv, HTypeOK, Filed
  <2>4. PskKnown' /\ PeerKnown'
    BY <2>2 DEF HInv, PskKnown, PeerKnown
  <2> QED
    BY <2>3, <2>4 DEF HInv
<1>14. CASE Refuse(m)
  BY <1>14, FreshKeeps DEF Refuse
<1> QED
  BY <1>1, <1>2, <1>3, <1>4, <1>5, <1>6, <1>7, <1>8, <1>9, <1>10, <1>11, <1>12, <1>13, <1>14
  DEF Receive

\* Client.close() empties the store; the connection goes on.
LEMMA CloseKeeps ==
  ASSUME HandshakeAssumption, HInv, Close
  PROVE  HInv'
PROOF
<1>1. /\ closed' = TRUE /\ store' = [k \in Keys |-> <<>>]
      /\ UNCHANGED <<conn, clock, minted>>
  BY DEF Close
<1>2. \A k \in Keys : store'[k] = <<>> /\ <<>> \in Seq(TicketsOf(k)) /\ Len(<<>>) <= MaxPerKey
  BY <1>1 DEF HandshakeAssumption
<1>3. store' \in [Keys -> UNION {Seq(TicketsOf(k)) : k \in Keys}]
  BY <1>1, <1>2
<1>4. Filed'
  BY <1>1, <1>2, <1>3 DEF Filed
<1> QED
  BY <1>1, <1>4 DEF HInv, HTypeOK, PskKnown, PeerKnown

-----------------------------------------------------------------------------
\* The strengthening holds of every behaviour.
THEOREM HandshakeInductive == Spec => []HInv
PROOF
<1>1. Init => HInv
  <2> SUFFICES ASSUME Init PROVE HInv
    OBVIOUS
  <2>1. /\ conn.at = "idle" /\ conn.psk = NoTicket /\ conn.resumed = FALSE
        /\ conn.suite = "grease" /\ DOMAIN conn = DOMAIN Fresh
    BY DEF Init, Fresh
  <2>2. HTypeOK
    BY <2>1 DEF Init, HTypeOK, Suites
  <2>3. \A k \in Keys : store[k] = <<>> /\ <<>> \in Seq(TicketsOf(k)) /\ Len(<<>>) <= MaxPerKey
    BY HandshakeAssumption DEF Init, HandshakeAssumption
  <2>4. store \in [Keys -> UNION {Seq(TicketsOf(k)) : k \in Keys}]
    BY <2>3 DEF Init
  <2>5. Filed
    BY <2>3, <2>4 DEF Filed
  <2> QED
    BY <2>1, <2>2, <2>5 DEF HInv, PskKnown, PeerKnown
<1>2. HInv /\ [Next]_vars => HInv'
  <2> SUFFICES ASSUME HInv, [Next]_vars PROVE HInv'
    OBVIOUS
  <2>1. ASSUME NEW k \in Keys, TakeTicket(k) PROVE HInv'
    BY <2>1, TakeTicketKeeps, HandshakeAssumption
  <2>8. CASE SendHello
    BY <2>8, SendHelloKeeps
  <2>9. CASE DialFails
    BY <2>9, FreshKeeps DEF DialFails
  <2>2. ASSUME NEW m \in Messages, Receive(m) PROVE HInv'
    BY <2>2, ReceiveKeeps
  <2>3. ASSUME NEW life \in Lifetimes, NEW good \in BOOLEAN, NewSessionTicket(life, good)
        PROVE  HInv'
    BY <2>3, TicketKeeps, HandshakeAssumption
  <2>4. CASE Disconnect
    BY <2>4, FreshKeeps DEF Disconnect
  <2>5. CASE Close
    BY <2>5, CloseKeeps, HandshakeAssumption
  <2>6. CASE Tick
    BY <2>6 DEF Tick, HInv, HTypeOK, Filed, PskKnown, PeerKnown
  <2>7. CASE UNCHANGED vars
    BY <2>7 DEF vars, HInv, HTypeOK, Filed, PskKnown, PeerKnown
  <2> QED
    BY <2>1, <2>2, <2>3, <2>4, <2>5, <2>6, <2>7, <2>8, <2>9 DEF Next
<1> QED
  BY <1>1, <1>2, PTL DEF Spec

\* No connection is used whose server did not prove to be the host of its key, in
\* this handshake or in the one that gave the PSK (connect.js, drive() to its return).
THEOREM TlsOpenMeansVerified == Spec => []OpenMeansVerified
PROOF
<1>1. HInv => OpenMeansVerified
  BY DEF HInv, PeerKnown, OpenMeansVerified
<1> QED
  BY <1>1, HandshakeInductive, PTL

\* The ticket store keeps to its limit, files every ticket under the host that gave it,
\* and stays empty once the client is closed (tickets.js, client.js onTicket()).
THEOREM TlsStoreSound == Spec => []StoreSound
PROOF
<1>1. HInv => StoreSound
  <2> SUFFICES ASSUME HInv PROVE StoreSound
    OBVIOUS
  <2>1. ASSUME NEW k \in Keys, NEW t \in Range(store[k]) PROVE t.peer = k
    <3>1. PICK i \in DOMAIN store[k] : t = store[k][i]
      BY <2>1 DEF Range
    <3>2. t \in TicketsOf(k)
      BY <3>1 DEF HInv, Filed
    <3> QED
      BY <3>2 DEF TicketsOf
  <2> QED
    BY <2>1 DEF HInv, Filed, StoreSound
<1> QED
  BY <1>1, HandshakeInductive, PTL

-----------------------------------------------------------------------------
(***************************************************************************)
(* Tickets are single-use.  A ticket in the store has a number of its own, *)
(* which no ticket that was offered has, nor the one that was taken for    *)
(* the dial under way: take() removes what it returns.                     *)
(***************************************************************************)
Places(k) == 1..Len(store[k])
InHand == conn.at = "dialling" /\ conn.psk # NoTicket
Unspent ==
  /\ \A k \in Keys : \A i \in Places(k) :
       store[k][i].id \in 1..minted /\ store[k][i] \notin spent
  /\ \A j, k \in Keys : \A i \in Places(j), l \in Places(k) :
       store[j][i].id = store[k][l].id => j = k /\ i = l
  /\ \A t \in spent : t.id \in 1..minted
  /\ InHand => /\ conn.psk.id \in 1..minted /\ conn.psk \notin spent
               /\ \A k \in Keys : \A i \in Places(k) : store[k][i].id # conn.psk.id

\* take() returns the newest ticket within its lifetime and keeps the older ones.
LEMMA TakeNewest ==
  ASSUME Filed, NEW k \in Keys
  PROVE  /\ Len(Take(k).rest) \in 0..Len(store[k])
         /\ \A i \in 1..Len(Take(k).rest) : Take(k).rest[i] = store[k][i]
         /\ Take(k).ticket = NoTicket
              \/ \E m \in Places(k) : /\ Take(k).ticket = store[k][m]
                                      /\ clock - store[k][m].born < store[k][m].life
                                      /\ Len(Take(k).rest) = m - 1
PROOF
<1> DEFINE usable == {i \in DOMAIN store[k] : clock - store[k][i].born < store[k][i].life}
           m == Max(usable)
<1>1. /\ store[k] \in Seq(TicketsOf(k))
      /\ Len(store[k]) \in Nat
      /\ DOMAIN store[k] = 1..Len(store[k])
  BY DEF Filed
<1>2. usable \in SUBSET (1..Len(store[k]))
  BY <1>1
<1>3. \A t, r : [ticket |-> t, rest |-> r].ticket = t /\ [ticket |-> t, rest |-> r].rest = r
  OBVIOUS
<1>4. CASE usable = {}
  <2>1. Take(k) = [ticket |-> NoTicket, rest |-> <<>>]
    BY <1>4 DEF Take
  <2>2. Len(Take(k).rest) = 0 /\ Take(k).ticket = NoTicket
    BY <2>1
  <2> QED
    BY <1>1, <2>2
<1>5. CASE usable # {}
  <2>1. Take(k) = [ticket |-> store[k][m], rest |-> SubSeq(store[k], 1, m - 1)]
    BY <1>5 DEF Take
  <2>2. m \in usable
    <3> HIDE DEF usable
    <3> QED
      BY <1>1, <1>2, <1>5, MaxIsMember
  <2>3. m \in 1..Len(store[k]) /\ clock - store[k][m].born < store[k][m].life
    BY <1>1, <2>2
  <2>4. Take(k).ticket = store[k][m] /\ Take(k).rest = SubSeq(store[k], 1, m - 1)
    BY <1>3, <2>1
  <2> HIDE DEF m, usable
  <2>5. \A i \in 1..(m - 1) : store[k][i] \in TicketsOf(k)
    BY <1>1, <2>3
  <2>6. /\ Len(SubSeq(store[k], 1, m - 1)) = IF 1 <= m - 1 THEN m - 1 - 1 + 1 ELSE 0
        /\ \A i \in 1..(m - 1) : SubSeq(store[k], 1, m - 1)[i] = store[k][i]
    BY <1>1, <2>3, <2>5, SubSeqProperties
  <2>7. Len(Take(k).rest) = m - 1 /\ m - 1 \in 0..Len(store[k])
    BY <1>1, <2>3, <2>4, <2>6
  <2> QED
    BY <2>3, <2>4, <2>6, <2>7 DEF Places
<1> QED
  BY <1>4, <1>5

\* more is a stretch of longer, d further along.
Stretch(more, longer, d) ==
  /\ Len(more) + d <= Len(longer)
  /\ \A i \in 1..Len(more) : more[i] = longer[i + d]

\* put() leaves the tickets it keeps in their order, the new one last.
LEMMA PutKeeps ==
  ASSUME NEW S, NEW list \in Seq(S), NEW t \in S, MaxPerKey \in Nat
  PROVE  \E d \in Nat : Stretch(Put(list, t), Append(list, t), d)
PROOF
<1> DEFINE l == Append(list, t)
           from == Max({1, Len(l) - MaxPerKey + 1})
<1>1. /\ l \in Seq(S) /\ Len(list) \in Nat /\ Len(l) = Len(list) + 1
      /\ \A i \in 1..Len(list) : l[i] = list[i]
  OBVIOUS
<1>2. Put(list, t) = IF t.life = 0 THEN list ELSE SubSeq(l, from, Len(l))
  BY DEF Put
<1> HIDE DEF l
<1>3. from = IF Len(l) - MaxPerKey + 1 > 1 THEN Len(l) - MaxPerKey + 1 ELSE 1
  BY <1>1 DEF Max
<1> HIDE DEF from
<1>4. from \in Nat /\ from >= 1
  BY <1>1, <1>3
<1>5. CASE t.life = 0
  <2>1. Put(list, t) = list
    BY <1>2, <1>5
  <2>2. \A i \in 1..Len(list) : i + 0 = i
    BY <1>1
  <2>3. /\ Len(list) + 0 <= Len(list) + 1
        /\ \A i \in 1..Len(list) : list[i] = l[i + 0]
    BY <1>1, <2>2
  <2>4. Stretch(Put(list, t), l, 0)
    BY <1>1, <2>1, <2>3 DEF Stretch
  <2> QED
    BY <2>4 DEF l
<1>6. CASE t.life # 0
  <2>1. Put(list, t) = SubSeq(l, from, Len(l))
    BY <1>2, <1>6
  <2>2. \A i \in from..Len(l) : l[i] \in S
    BY <1>1, <1>4
  <2> DEFINE d == from - 1
  <2>3. /\ Len(SubSeq(l, from, Len(l))) = IF from <= Len(l) THEN Len(l) - from + 1 ELSE 0
        /\ \A i \in 1..(Len(l) - from + 1) : SubSeq(l, from, Len(l))[i] = l[from + i - 1]
    BY <1>1, <1>4, <2>2, SubSeqProperties
  <2>4. CASE from <= Len(l)
    <3>1. Len(Put(list, t)) = Len(l) - from + 1 /\ d \in Nat
      BY <1>1, <1>4, <2>1, <2>3, <2>4
    <3>2. ASSUME NEW i \in 1..Len(Put(list, t)) PROVE Put(list, t)[i] = l[i + d]
      <4>1. i + d = from + i - 1
        BY <1>1, <1>4, <3>1
      <4> QED
        BY <2>1, <2>3, <3>1, <4>1
    <3>3. Len(Put(list, t)) + d <= Len(list) + 1
      BY <1>1, <1>4, <3>1
    <3>4. Stretch(Put(list, t), l, d)
      BY <1>1, <3>2, <3>3 DEF Stretch
    <3> QED
      BY <3>1, <3>4 DEF l
  <2>5. CASE ~(from <= Len(l))
    <3>1. Len(Put(list, t)) = 0
      BY <2>1, <2>3, <2>5
    <3>2. Stretch(Put(list, t), l, 0)
      BY <1>1, <3>1 DEF Stretch
    <3> QED
      BY <3>2 DEF l
  <2> QED
    BY <2>4, <2>5
<1> QED
  BY <1>5, <1>6

\* Steps that touch neither the store nor the count, and take no ticket.
LEMMA SameTickets ==
  ASSUME Unspent, UNCHANGED <<store, minted, spent>>,
         InHand' => InHand /\ conn'.psk = conn.psk
  PROVE  Unspent'
PROOF
  BY DEF Unspent, Places

\* resumptionFor() takes a ticket that is alive and that nobody was offered before.
LEMMA TakeSpends ==
  ASSUME HInv, Unspent, NEW k \in Keys, TakeTicket(k)
  PROVE  /\ Unspent'
         /\ conn.at # "dialling" /\ conn'.at = "dialling"
         /\ conn'.psk # NoTicket => clock - conn'.psk.born < conn'.psk.life
PROOF
<1> DEFINE ticket == Take(k).ticket
           rest == Take(k).rest
<1>1. /\ store' = [store EXCEPT ![k] = rest] /\ minted' = minted /\ spent' = spent
      /\ conn' = [Fresh EXCEPT !.at = "dialling", !.key = k, !.psk = ticket]
      /\ conn.at # "dialling"
  BY DEF TakeTicket
<1>2. conn'.at = "dialling" /\ conn'.psk = ticket
  BY <1>1 DEF Fresh
<1>3. /\ Len(rest) \in 0..Len(store[k])
      /\ \A i \in 1..Len(rest) : rest[i] = store[k][i]
      /\ ticket = NoTicket
              \/ \E m \in Places(k) : /\ ticket = store[k][m]
                                      /\ clock - store[k][m].born < store[k][m].life
                                      /\ Len(rest) = m - 1
      /\ ticket \in TicketsOf(k) \union {NoTicket}
  BY TakeNewest, TakeFacts DEF HInv
<1>4. DOMAIN store = Keys /\ \A j \in Keys : Len(store[j]) \in Nat
  BY DEF HInv, Filed
<1> HIDE DEF ticket, rest
<1>5. \A j \in Keys : store'[j] = IF j = k THEN rest ELSE store[j]
  BY <1>1, <1>4
<1>6. ASSUME NEW j \in Keys, NEW i \in 1..Len(store'[j])
      PROVE  i \in Places(j) /\ store'[j][i] = store[j][i]
  BY <1>3, <1>4, <1>5 DEF Places
<1>7. ASSUME ticket # NoTicket, NEW j \in Keys, NEW i \in 1..Len(store'[j])
      PROVE  store[j][i].id # ticket.id
  <2>1. PICK m \in Places(k) : ticket = store[k][m] /\ Len(rest) = m - 1
    BY <1>3, <1>7
  <2>2. i \in Places(j)
    BY <1>6
  <2>3. j = k => i # m
    <3>1. CASE j = k
      <4>1. i \in 1..(m - 1) /\ m \in Nat
        BY <1>5, <2>1, <3>1, <1>4 DEF Places
      <4> QED
        BY <4>1
    <3> QED
      BY <3>1
  <2> QED
    BY <2>1, <2>2, <2>3 DEF Unspent
<1>8. ticket # NoTicket => ticket.id \in 1..minted /\ ticket \notin spent
  BY <1>3 DEF Unspent
<1>9. ASSUME NEW j \in Keys, NEW i \in 1..Len(store'[j])
      PROVE  store'[j][i].id \in 1..minted' /\ store'[j][i] \notin spent'
  <2>1. store[j][i].id \in 1..minted /\ store[j][i] \notin spent
    BY <1>6, <1>9 DEF Unspent
  <2> QED
    BY <1>1, <1>6, <1>9, <2>1
<1>10. ASSUME NEW j \in Keys, NEW l \in Keys,
              NEW i \in 1..Len(store'[j]), NEW n \in 1..Len(store'[l]),
              store'[j][i].id = store'[l][n].id
       PROVE  j = l /\ i = n
  <2>1. i \in Places(j) /\ n \in Places(l) /\ store[j][i].id = store[l][n].id
    <3>1. store'[j][i] = store[j][i] /\ store'[l][n] = store[l][n]
      BY <1>6
    <3>2. i \in Places(j) /\ n \in Places(l)
      BY <1>6
    <3> QED
      BY <1>10, <3>1, <3>2
  <2> QED
    BY <2>1 DEF Unspent
<1>11. \A t \in spent' : t.id \in 1..minted'
  BY <1>1 DEF Unspent
<1>12. ASSUME InHand'
       PROVE  /\ conn'.psk.id \in 1..minted' /\ conn'.psk \notin spent'
              /\ \A j \in Keys : \A i \in 1..Len(store'[j]) : store'[j][i].id # conn'.psk.id
  <2>1. conn'.psk = ticket /\ ticket # NoTicket
    BY <1>2, <1>12 DEF InHand
  <2>2. ASSUME NEW j \in Keys, NEW i \in 1..Len(store'[j]) PROVE store'[j][i].id # ticket.id
    BY <1>6, <1>7, <2>1
  <2> QED
    BY <1>1, <1>8, <2>1, <2>2
<1>13. Unspent'
  BY <1>9, <1>10, <1>11, <1>12 DEF Unspent, Places
<1>14. ticket # NoTicket => clock - ticket.born < ticket.life
  BY <1>3
<1> QED
  BY <1>1, <1>2, <1>13, <1>14

\* The ClientHello offers the ticket in hand, which nobody was offered before.
LEMMA SendSpends ==
  ASSUME HInv, Unspent, SendHello
  PROVE  /\ Unspent'
         /\ conn.at = "dialling"
         /\ conn'.psk # NoTicket => conn'.psk \notin spent /\ conn'.psk.peer = conn'.key
PROOF
<1>1. /\ store' = store /\ minted' = minted
      /\ spent' = spent \cup ({conn.psk} \ {NoTicket})
      /\ conn' = ClientHello(conn.key, conn.psk) /\ conn.at = "dialling"
  BY DEF SendHello
<1>2. conn'.at = "serverHello" /\ conn'.key = conn.key /\ conn'.psk = conn.psk
  BY <1>1 DEF ClientHello, Fresh
<1>3. conn.psk # NoTicket => InHand
  BY <1>1 DEF InHand
<1>4. ~InHand'
  BY <1>2 DEF InHand
<1>5. ASSUME NEW j \in Keys, NEW i \in Places(j)
      PROVE  store[j][i].id \in 1..minted /\ store[j][i] \notin spent'
  BY <1>1, <1>3 DEF Unspent
<1>6. \A t \in spent' : t.id \in 1..minted
  BY <1>1, <1>3 DEF Unspent
<1>7. Unspent'
  BY <1>1, <1>4, <1>5, <1>6 DEF Unspent, Places
<1>8. conn.psk # NoTicket => conn.psk \notin spent /\ conn.psk.peer = conn.key
  BY <1>3 DEF Unspent, HInv, PskKnown
<1> QED
  BY <1>1, <1>2, <1>7, <1>8

\* A ticket that arrives has a number that no ticket had.
LEMMA TicketCounted ==
  ASSUME HandshakeAssumption, HInv, Unspent, NEW life \in Lifetimes, NEW good \in BOOLEAN,
         NewSessionTicket(life, good)
  PROVE  Unspent'
PROOF
<1> DEFINE t == [id |-> minted + 1, hash |-> conn.suite, born |-> clock, peer |-> conn.peer,
                 life |-> Min({life, MaxLife})]
           key == conn.key
           list == store[key]
           more == Put(list, t)
<1>1. /\ conn.at = "open" /\ minted' = minted + 1 /\ spent' = spent /\ minted \in Nat
      /\ store' = store \/ store' = [store EXCEPT ![key] = Put(@, t)]
  BY DEF NewSessionTicket, HInv, HTypeOK
<1>2. key \in Keys /\ conn.peer = key
  BY <1>1 DEF HInv, PskKnown, PeerKnown
<1>3. t \in TicketsOf(key) /\ t.id = minted + 1
  <2>1. Min({life, MaxLife}) \in Nat
    BY DEF Min, HandshakeAssumption
  <2> QED
    BY <1>2, <2>1 DEF TicketsOf, HInv, HTypeOK
<1>10. ~InHand'
  <2>1. conn' = [Fresh EXCEPT !.at = "failed"] \/ conn' = [conn EXCEPT !.hashes.resumption = conn.transcript]
    BY DEF NewSessionTicket
  <2>2. conn'.at # "dialling"
    BY <1>1, <2>1 DEF HInv, HTypeOK, Fresh
  <2> QED
    BY <2>2 DEF InHand
<1>4. list \in Seq(TicketsOf(key)) /\ MaxPerKey \in Nat
  BY <1>2 DEF HInv, Filed, HandshakeAssumption
<1>5. DOMAIN store = Keys /\ \A j \in Keys : Len(store[j]) \in Nat
  BY DEF HInv, Filed
<1> HIDE DEF t
<1>6. PICK d \in Nat : Stretch(more, Append(list, t), d)
  BY <1>3, <1>4, PutKeeps
<1>7. more \in Seq(TicketsOf(key)) /\ Len(more) \in Nat
  <2>1. Len(list) <= MaxPerKey
    BY <1>2 DEF HInv, Filed
  <2> QED
    BY <1>3, <1>4, <2>1, PutFacts
<1>8. CASE store' = store
  <2>1. \A n \in 1..minted : n \in 1..minted'
    BY <1>1
  <2> QED
    BY <1>1, <1>8, <1>10, <2>1 DEF Unspent, Places
<1>9. CASE store' = [store EXCEPT ![key] = Put(@, t)]
  <2>1. \A j \in Keys : store'[j] = IF j = key THEN more ELSE store[j]
    BY <1>2, <1>5, <1>9
  <2> HIDE DEF more, list
  <2>2. ASSUME NEW i \in 1..Len(more)
        PROVE  \/ i + d = Len(list) + 1 /\ more[i] = t
               \/ i + d \in 1..Len(list) /\ more[i] = list[i + d]
    <3>1. Len(list) \in Nat /\ Len(Append(list, t)) = Len(list) + 1
      BY <1>4
    <3>2. Len(more) + d <= Len(list) + 1 /\ more[i] = Append(list, t)[i + d]
      BY <1>6, <3>1 DEF Stretch
    <3>3. i + d \in 1..(Len(list) + 1)
      BY <1>7, <3>1, <3>2
    <3> QED
      BY <1>4, <3>1, <3>2, <3>3
  <2>3. \A i \in 1..Len(list) : list[i].id \in 1..minted /\ list[i] \notin spent
    BY <1>2 DEF Unspent, Places, list
  <2>4. t \notin spent
    BY <1>1, <1>3 DEF Unspent
  <2>5. ASSUME NEW j \in Keys, NEW i \in 1..Len(store'[j])
        PROVE  store'[j][i].id \in 1..minted' /\ store'[j][i] \notin spent'
    <3>1. CASE j = key
      <4>1. i \in 1..Len(more) /\ store'[j][i] = more[i]
        BY <2>1, <3>1
      <4>2. CASE more[i] = t
        BY <1>1, <1>3, <2>4, <4>1, <4>2
      <4>3. CASE i + d \in 1..Len(list) /\ more[i] = list[i + d]
        BY <1>1, <2>3, <4>1, <4>3
      <4> QED
        BY <2>2, <4>1, <4>2, <4>3
    <3>2. CASE j # key
      <4>1. store[j][i].id \in 1..minted /\ store[j][i] \notin spent
        BY <2>1, <3>2 DEF Unspent, Places
      <4> QED
        BY <1>1, <2>1, <3>2, <4>1
    <3> QED
      BY <3>1, <3>2
  <2>6. ASSUME NEW j \in Keys, j # key, NEW i \in 1..Len(store'[j]), NEW n \in 1..Len(more)
        PROVE  store'[j][i].id # more[n].id
    <3>1. i \in Places(j) /\ store'[j][i] = store[j][i] /\ store[j][i].id \in 1..minted
      BY <2>1, <2>6 DEF Unspent, Places
    <3>2. CASE more[n] = t
      BY <1>1, <1>3, <3>1, <3>2
    <3>3. CASE n + d \in 1..Len(list) /\ more[n] = list[n + d]
      <4>1. \A a \in Places(j), b \in 1..Len(list) : store[j][a].id = list[b].id => j = key
        BY <1>2 DEF Unspent, Places, list
      <4> QED
        BY <2>6, <3>1, <3>3, <4>1
    <3> QED
      BY <2>2, <3>2, <3>3
  <2>7. ASSUME NEW i \in 1..Len(more), NEW n \in 1..Len(more), more[i].id = more[n].id
        PROVE  i = n
    <3>1. i + d = n + d => i = n
      BY <1>7
    <3>2. \A a, b \in 1..Len(list) : list[a].id = list[b].id => a = b
      <4>1. \A a, b \in Places(key) : store[key][a].id = store[key][b].id => a = b
        BY <1>2 DEF Unspent
      <4> QED
        BY <4>1 DEF Places, list
    <3>3. \A a \in 1..Len(list) : list[a].id # t.id
      BY <1>1, <1>3, <2>3
    <3>4. i + d = n + d
      BY <2>2, <2>7, <3>2, <3>3
    <3> QED
      BY <3>1, <3>4
  <2>8. ASSUME NEW j \in Keys, NEW l \in Keys,
               NEW i \in 1..Len(store'[j]), NEW n \in 1..Len(store'[l]),
               store'[j][i].id = store'[l][n].id
        PROVE  j = l /\ i = n
    <3>1. CASE j = key /\ l = key
      BY <2>1, <2>7, <2>8, <3>1
    <3>2. CASE j # key /\ l = key
      BY <2>1, <2>6, <2>8, <3>2
    <3>3. CASE j = key /\ l # key
      BY <2>1, <2>6, <2>8, <3>3
    <3>4. CASE j # key /\ l # key
      <4>1. store'[j] = store[j] /\ store'[l] = store[l]
        BY <2>1, <3>4
      <4>2. i \in Places(j) /\ n \in Places(l) /\ store[j][i].id = store[l][n].id
        BY <2>8, <4>1 DEF Places
      <4> QED
        BY <4>2 DEF Unspent
    <3> QED
      BY <3>1, <3>2, <3>3, <3>4
  <2>9. \A u \in spent' : u.id \in 1..minted'
    <3>1. \A n \in 1..minted : n \in 1..minted'
      BY <1>1
    <3> QED
      BY <1>1, <3>1 DEF Unspent
  <2> QED
    BY <1>10, <2>5, <2>8, <2>9 DEF Unspent, Places
<1> QED
  BY <1>1, <1>8, <1>9

\* No message takes a handshake back to the dial.
LEMMA NoneDials ==
  ASSUME HInv, NEW m, Receive(m)
  PROVE  conn.at # "dialling" /\ conn'.at # "dialling"
PROOF
<1>0. conn.at # "dialling"
  <2>1. conn.at \in Stages
    BY DEF Receive, Refuse, Reads, HelloRetryRequest, ServerHello13, EncryptedExtensions,
           CertificateRequest, Certificate, CertificateVerify, Finished13, ServerHello12, DropDummy,
           CertificateStatus, ServerKeyExchange, ServerHelloDone, ChangeCipherSpec, Finished12
  <2> QED
    BY <2>1 DEF Stages, Expected
<1> SUFFICES conn'.at # "dialling"
  BY <1>0
<1>1. DOMAIN conn = DOMAIN Fresh /\ DOMAIN Fresh =
        {"at", "key", "offer", "psk", "version", "suite", "transcript", "hashes", "resumed",
         "requested", "status", "chain", "ske", "pending", "ignored", "peer", "confirmed"}
  BY DEF HInv, HTypeOK, Fresh
<1>2. CASE HelloRetryRequest(m) \/ ServerHello13(m) \/ EncryptedExtensions(m)
  BY <1>1, <1>2 DEF HelloRetryRequest, ServerHello13, EncryptedExtensions, Hash
<1>3. CASE CertificateRequest(m) \/ Certificate(m) \/ CertificateVerify(m) \/ Finished13(m)
  <2>1. CASE CertificateRequest(m) \/ Certificate(m)
    BY <1>1, <2>1 DEF CertificateRequest, Certificate, Hash
  <2>2. CASE CertificateVerify(m)
    BY <1>1, <2>2 DEF CertificateVerify, Hash
  <2>3. CASE Finished13(m)
    BY <1>1, <2>3 DEF Finished13, Hash
  <2> QED
    BY <1>3, <2>1, <2>2, <2>3
<1>4. CASE ServerHello12(m) \/ CertificateStatus(m) \/ ServerKeyExchange(m) \/ ServerHelloDone(m)
  BY <1>1, <1>4 DEF ServerHello12, CertificateStatus, ServerKeyExchange, ServerHelloDone, Hash
<1>5. CASE ChangeCipherSpec(m) \/ Finished12(m)
  BY <1>1, <1>5 DEF ChangeCipherSpec, Finished12
<1>6. CASE DropDummy(m)
  <2>1. conn.at \in Stages /\ conn'.at = conn.at
    BY <1>1, <1>6 DEF DropDummy
  <2> QED
    BY <2>1 DEF Stages, Expected
<1>7. CASE Refuse(m)
  BY <1>7 DEF Refuse, Fresh
<1> QED
  BY <1>2, <1>3, <1>4, <1>5, <1>6, <1>7 DEF Receive

\* What is true of a ticket when it is taken, and when its PSK is offered.
TakenAlive == conn.at # "dialling" /\ conn'.at = "dialling" /\ conn'.psk # NoTicket =>
                clock - conn'.psk.born < conn'.psk.life
OfferedOnce == conn.at = "dialling" /\ conn'.at = "serverHello" /\ conn'.psk # NoTicket =>
                 conn'.psk \notin spent /\ conn'.psk.peer = conn'.key

\* Every step keeps the tickets unspent, takes none that has expired and offers none twice.
LEMMA TicketsStep ==
  ASSUME HInv, Unspent, [Next]_vars
  PROVE  Unspent' /\ TakenAlive /\ OfferedOnce
PROOF
<1>1. ASSUME NEW k \in Keys, TakeTicket(k) PROVE Unspent' /\ TakenAlive /\ OfferedOnce
  BY <1>1, TakeSpends DEF TakenAlive, OfferedOnce
<1>2. ASSUME SendHello PROVE Unspent' /\ TakenAlive /\ OfferedOnce
  BY <1>2, SendSpends DEF TakenAlive, OfferedOnce
<1>3. ASSUME NEW m, Receive(m) PROVE Unspent' /\ TakenAlive /\ OfferedOnce
  <2>1. UNCHANGED <<store, minted, spent>>
    BY <1>3 DEF Receive, Refuse, Reads, HelloRetryRequest, ServerHello13, EncryptedExtensions, DropDummy,
                CertificateRequest, Certificate, CertificateVerify, Finished13, ServerHello12,
                CertificateStatus, ServerKeyExchange, ServerHelloDone, ChangeCipherSpec, Finished12
  <2> QED
    BY <1>3, <2>1, SameTickets, NoneDials DEF TakenAlive, OfferedOnce, InHand
<1>4. ASSUME NEW life \in Lifetimes, NEW good \in BOOLEAN, NewSessionTicket(life, good)
      PROVE  Unspent' /\ TakenAlive /\ OfferedOnce
  <2>1. DOMAIN conn = DOMAIN Fresh /\ "hashes" \in DOMAIN Fresh /\ "at" \in DOMAIN Fresh
    BY DEF HInv, HTypeOK, Fresh
  <2>2. conn.at = "open" /\ (conn' = [Fresh EXCEPT !.at = "failed"]
                              \/ conn' = [conn EXCEPT !.hashes.resumption = conn.transcript])
    BY <1>4 DEF NewSessionTicket
  <2>3. conn'.at \notin {"dialling", "serverHello"}
    BY <2>1, <2>2
  <2> QED
    BY <1>4, <2>3, TicketCounted, HandshakeAssumption DEF TakenAlive, OfferedOnce
<1>5. ASSUME Disconnect \/ DialFails PROVE Unspent' /\ TakenAlive /\ OfferedOnce
  <2>1. conn'.at = "idle" /\ UNCHANGED <<store, minted, spent>>
    BY <1>5 DEF Disconnect, DialFails, Fresh
  <2> QED
    BY <2>1, SameTickets DEF TakenAlive, OfferedOnce, InHand
<1>6. ASSUME Close PROVE Unspent' /\ conn' = conn
  <2>1. /\ \A k \in Keys : store'[k] = <<>>
        /\ minted' = minted /\ spent' = spent /\ conn' = conn
    BY <1>6 DEF Close
  <2>2. \A k \in Keys : Len(store'[k]) = 0
    BY <2>1
  <2> QED
    BY <2>1, <2>2 DEF Unspent, Places, InHand
<1>7. ASSUME Tick \/ UNCHANGED vars PROVE Unspent' /\ conn' = conn
  BY <1>7, SameTickets DEF Tick, vars, InHand
<1> QED
  BY <1>1, <1>2, <1>3, <1>4, <1>5, <1>6, <1>7 DEF Next, TakenAlive, OfferedOnce

\* A ticket is within its lifetime when it is taken, and its PSK is offered at most
\* once, to the host that gave it (tickets.js take(), client.js resumptionFor(), and
\* connect.js where it builds the ClientHello, after the dial).
THEOREM TlsTicketsOfferedOnce == Spec => TicketsOfferedOnce
PROOF
<1>1. Init => Unspent
  <2> SUFFICES ASSUME Init PROVE Unspent
    OBVIOUS
  <2>1. \A k \in Keys : Len(store[k]) = 0
    BY DEF Init
  <2>2. ~InHand
    BY DEF Init, InHand, Fresh
  <2> QED
    BY <2>1, <2>2 DEF Init, Unspent, Places
<1>2. HInv /\ Unspent /\ [Next]_vars => Unspent'
  BY TicketsStep
<1>3. HInv /\ Unspent /\ [Next]_vars =>
        [LET t == conn'.psk IN
         t # NoTicket =>
           /\ conn.at # "dialling" /\ conn'.at = "dialling" => clock - t.born < t.life
           /\ conn.at = "dialling" /\ conn'.at = "serverHello" => t \notin spent /\ t.peer = conn'.key]_vars
  BY TicketsStep DEF TakenAlive, OfferedOnce
<1> QED
  BY <1>1, <1>2, <1>3, HandshakeInductive, PTL DEF Spec, TicketsOfferedOnce
-----------------------------------------------------------------------------
(***************************************************************************)
(* Keep, the members of a sequence that are of certain types.  The         *)
(* library's induction theorems take an operator, so the induction over    *)
(* its recursion is over a set of numbers, from their well-foundedness.    *)
(***************************************************************************)
\* Induction over a set of numbers.
LEMMA SetInduction ==
  ASSUME NEW T, 0 \in T, \A n \in Nat : n \in T => n + 1 \in T
  PROVE  Nat \subseteq T
PROOF
<1> DEFINE R == OpToRel(<, Nat)
           S == Nat \ T
<1>1. SUFFICES ASSUME S # {} PROVE FALSE
  OBVIOUS
<1>2. PICK x \in S : \A y \in S : <<y, x>> \notin R
  <2>1. IsWellFoundedOn(R, Nat) /\ S \subseteq Nat
    BY NatLessThanWellFounded
  <2> HIDE DEF R, S
  <2> QED
    BY <1>1, <2>1, WFMin
<1>3. x # 0 /\ x - 1 \in Nat /\ x - 1 < x
  OBVIOUS
<1>4. x - 1 \notin S
  BY <1>2, <1>3 DEF OpToRel
<1>5. x \in Nat /\ x \notin T /\ x - 1 + 1 = x
  OBVIOUS
<1> HIDE DEF R
<1>6. x - 1 \in T
  BY <1>3, <1>4
<1> QED
  BY <1>3, <1>5, <1>6

\* What is kept of each of the first n members.
KeptTo(w, types, n, p) ==
  p = [i \in 0..n |-> IF i = 0 THEN <<>>
                      ELSE IF w[i] \in types THEN Append(p[i - 1], w[i]) ELSE p[i - 1]]

\* Two that run alike are one.
LEMMA KeptUnique ==
  ASSUME NEW w, NEW types, NEW n \in Nat,
         NEW p, KeptTo(w, types, n, p), NEW q, KeptTo(w, types, n, q)
  PROVE  p = q
PROOF
<1> DEFINE T == {i \in Nat : i <= n => p[i] = q[i]}
<1>1. 0 \in T
  BY DEF KeptTo
<1>2. ASSUME NEW i \in Nat, i \in T PROVE i + 1 \in T
  <2> SUFFICES ASSUME i + 1 <= n PROVE p[i + 1] = q[i + 1]
    OBVIOUS
  <2>1. p[i] = q[i] /\ i + 1 \in 0..n /\ i + 1 - 1 = i /\ i + 1 # 0
    BY <1>2
  <2> DEFINE kept(r) == IF w[i + 1] \in types THEN Append(r, w[i + 1]) ELSE r
  <2>2. p[i + 1] = kept(p[i]) /\ q[i + 1] = kept(q[i])
    <3>1. ASSUME NEW r, KeptTo(w, types, n, r) PROVE r[i + 1] = kept(r[i])
      <4>1. \A j \in 0..n : r[j] = IF j = 0 THEN <<>>
                                    ELSE IF w[j] \in types THEN Append(r[j - 1], w[j]) ELSE r[j - 1]
        BY <3>1 DEF KeptTo
      <4> QED
        BY <2>1, <4>1
    <3> QED
      BY <3>1
  <2> QED
    BY <2>1, <2>2
<1>3. Nat \subseteq T
  <2> HIDE DEF T
  <2> QED
    BY <1>1, <1>2, SetInduction
<1>4. \A i \in 0..n : p[i] = q[i]
  BY <1>3
<1> QED
  BY <1>4 DEF KeptTo

\* The run over one member more.
LEMMA KeptStep ==
  ASSUME NEW w, NEW types, NEW n \in Nat, NEW p, KeptTo(w, types, n, p)
  PROVE  KeptTo(w, types, n + 1,
                [i \in 0..(n + 1) |->
                   IF i = n + 1 THEN IF w[n + 1] \in types THEN Append(p[n], w[n + 1]) ELSE p[n]
                   ELSE p[i]])
PROOF
<1> DEFINE q == [i \in 0..(n + 1) |->
                   IF i = n + 1 THEN IF w[n + 1] \in types THEN Append(p[n], w[n + 1]) ELSE p[n]
                   ELSE p[i]]
<1>1. ASSUME NEW i \in 0..(n + 1)
      PROVE  q[i] = IF i = 0 THEN <<>>
                    ELSE IF w[i] \in types THEN Append(q[i - 1], w[i]) ELSE q[i - 1]
  <2>1. CASE i = n + 1
    <3>1. i # 0 /\ i - 1 = n /\ n \in 0..(n + 1) /\ n # n + 1 /\ q[n] = p[n]
      BY <2>1
    <3>2. q[i] = IF w[i] \in types THEN Append(p[n], w[i]) ELSE p[n]
      BY <2>1
    <3> HIDE DEF q
    <3> QED
      BY <3>1, <3>2
  <2>2. CASE i \in 1..n
    <3>1. i \in 0..n /\ q[i] = p[i] /\ i - 1 \in 0..n /\ q[i - 1] = p[i - 1] /\ i # 0
      BY <2>2
    <3>2. p[i] = IF i = 0 THEN <<>>
                 ELSE IF w[i] \in types THEN Append(p[i - 1], w[i]) ELSE p[i - 1]
      BY <3>1 DEF KeptTo
    <3> HIDE DEF q
    <3> QED
      BY <3>1, <3>2
  <2>3. CASE i = 0
    <3>1. q[0] = p[0] /\ p[0] = <<>>
      BY DEF KeptTo
    <3> HIDE DEF q
    <3> QED
      BY <2>3, <3>1
  <2> QED
    BY <2>1, <2>2, <2>3
<1>2. q = [i \in 0..(n + 1) |-> q[i]]
  OBVIOUS
<1> HIDE DEF q
<1>3. KeptTo(w, types, n + 1, q)
  BY <1>1, <1>2 DEF KeptTo
<1> QED
  BY <1>3 DEF q

\* Every sequence has one.
LEMMA KeptExists ==
  ASSUME NEW w, NEW types, NEW n \in Nat
  PROVE  \E p : KeptTo(w, types, n, p)
PROOF
<1> DEFINE T == {k \in Nat : \E p : KeptTo(w, types, k, p)}
<1>1. 0 \in T
  <2>1. KeptTo(w, types, 0, [i \in 0..0 |-> <<>>])
    BY DEF KeptTo
  <2> QED
    BY <2>1
<1>2. ASSUME NEW k \in Nat, k \in T PROVE k + 1 \in T
  <2>1. PICK p : KeptTo(w, types, k, p)
    BY <1>2
  <2>2. \E q : KeptTo(w, types, k + 1, q)
    BY <2>1, KeptStep
  <2> QED
    BY <2>2
<1>3. Nat \subseteq T
  <2> HIDE DEF T
  <2> QED
    BY <1>1, <1>2, SetInduction
<1> QED
  BY <1>3

\* Keep is the last of the run.
LEMMA KeepIs ==
  ASSUME NEW w, NEW types, Len(w) \in Nat, NEW p, KeptTo(w, types, Len(w), p)
  PROVE  Keep(w, types) = p[Len(w)]
PROOF
<1> DEFINE u == CHOOSE u : KeptTo(w, types, Len(w), u)
<1>1. KeptTo(w, types, Len(w), u)
  OBVIOUS
<1>2. u = p
  BY <1>1, KeptUnique
<1>3. Keep(w, types) = u[Len(w)]
  BY DEF Keep, KeptTo
<1> QED
  BY <1>2, <1>3

\* Of nothing nothing is kept; of one member more, that one if it is of the types.
LEMMA KeepLaws ==
  ASSUME NEW S, NEW w \in Seq(S), NEW t \in S, NEW types
  PROVE  /\ Keep(<<>>, types) = <<>>
         /\ Keep(Append(w, t), types) =
              IF t \in types THEN Append(Keep(w, types), t) ELSE Keep(w, types)
PROOF
<1> DEFINE n == Len(w)
           x == Append(w, t)
<1>1. n \in Nat /\ Len(x) = n + 1 /\ x[n + 1] = t /\ \A i \in 1..n : x[i] = w[i]
  BY AppendProperties
<1>2. PICK p : KeptTo(x, types, n, p)
  BY <1>1, KeptExists
<1>3. KeptTo(w, types, n, p)
  <2> HIDE DEF x, n
  <2>1. \A i \in 0..n : i # 0 => x[i] = w[i]
    BY <1>1
  <2> QED
    BY <1>2, <2>1 DEF KeptTo
<1>4. Keep(w, types) = p[n]
  BY <1>1, <1>3, KeepIs
<1> DEFINE q == [i \in 0..(n + 1) |->
                   IF i = n + 1 THEN IF x[n + 1] \in types THEN Append(p[n], x[n + 1]) ELSE p[n]
                   ELSE p[i]]
<1>5. q[n + 1] = IF t \in types THEN Append(p[n], t) ELSE p[n]
  BY <1>1
<1> HIDE DEF x, n
<1>6. KeptTo(x, types, n + 1, q)
  <2>1. \A r : KeptTo(x, types, n, r) =>
          KeptTo(x, types, n + 1,
                 [i \in 0..(n + 1) |->
                    IF i = n + 1 THEN IF x[n + 1] \in types THEN Append(r[n], x[n + 1]) ELSE r[n]
                    ELSE r[i]])
    BY <1>1, KeptStep
  <2> QED
    BY <1>2, <2>1
<1> HIDE DEF q
<1>7. Keep(x, types) = q[n + 1]
  BY <1>1, <1>6, KeepIs
<1>8. Keep(<<>>, types) = <<>>
  <2>1. PICK r : KeptTo(<<>>, types, 0, r)
    BY KeptExists
  <2>2. Len(<<>>) = 0 /\ r[0] = <<>>
    BY <2>1 DEF KeptTo
  <2> QED
    BY <2>1, <2>2, KeepIs
<1> QED
  BY <1>4, <1>5, <1>7, <1>8 DEF x

\* What is kept is of the types.
LEMMA KeepType ==
  ASSUME NEW S, NEW w \in Seq(S), NEW types
  PROVE  Keep(w, types) \in Seq(types)
PROOF
<1>1. Len(w) \in Nat
  OBVIOUS
<1>2. PICK p : KeptTo(w, types, Len(w), p)
  BY <1>1, KeptExists
<1>3. \A i \in 0..Len(w) : p[i] = IF i = 0 THEN <<>>
                                  ELSE IF w[i] \in types THEN Append(p[i - 1], w[i]) ELSE p[i - 1]
  BY <1>2 DEF KeptTo
<1> DEFINE T == {i \in Nat : i <= Len(w) => p[i] \in Seq(types)}
<1>4. 0 \in T
  <2>1. 0 \in 0..Len(w) /\ <<>> \in Seq(types)
    BY <1>1
  <2>2. p[0] = <<>>
    BY <1>3, <2>1
  <2> QED
    BY <2>1, <2>2
<1>5. ASSUME NEW i \in Nat, i \in T PROVE i + 1 \in T
  <2> SUFFICES ASSUME i + 1 <= Len(w) PROVE p[i + 1] \in Seq(types)
    OBVIOUS
  <2>1. p[i] \in Seq(types) /\ i + 1 \in 0..Len(w) /\ i + 1 - 1 = i /\ i + 1 # 0
    BY <1>1, <1>5
  <2>2. p[i + 1] = IF w[i + 1] \in types THEN Append(p[i], w[i + 1]) ELSE p[i]
    BY <1>3, <2>1
  <2> QED
    BY <2>1, <2>2
<1>6. Nat \subseteq T
  <2> HIDE DEF T
  <2> QED
    BY <1>4, <1>5, SetInduction
<1>7. p[Len(w)] \in Seq(types)
  BY <1>1, <1>6
<1> QED
  BY <1>1, <1>2, <1>7, KeepIs

-----------------------------------------------------------------------------
(***************************************************************************)
(* What each hash covers.  In every stage the transcript is all that was   *)
(* exchanged, and a secret, signature or verify_data was taken at the last *)
(* message of its type: `back` is 1 when that message is not yet covered.  *)
(***************************************************************************)
WireTypes == Handshake \cup {"ccs"}
Covers(hash, w, type, back) ==
  \E i \in 1..Len(w) : /\ w[i] = type /\ \A j \in (i + 1)..Len(w) : w[j] # type
                       /\ hash = Exchanged(SubSeq(w, 1, i - back))

Stages13 == {"encryptedExtensions", "certOrRequest", "certificate", "certificateVerify"}
Stages12 == {"certificate12", "statusOrKeys", "serverKeyExchange", "requestOrDone",
             "serverHelloDone", "ccs"}
Finishing == {"serverFinished", "open"}
Negotiated == /\ conn.at \in Stages13 => conn.version = 13
              /\ conn.at \in Stages12 => conn.version = 12

TranscriptExact ==
  /\ conn.at \in Stages \cup {"open"} => wire \in Seq(WireTypes) /\ Keep(wire, Handshake) # <<>>
  /\ conn.at \in Stages => conn.transcript = Exchanged(wire)
  /\ conn.at = "serverHello" => wire = <<"clientHello">> /\ conn.hashes.binder = <<>>
Hashes13(at, hashes) ==
  /\ at \in Stages13 \cup Finishing => Covers(hashes.handshake, wire, "serverHello", 0)
  /\ at \in {"certificateVerify"} \cup Finishing /\ ~conn.resumed =>
       Covers(hashes.signature, wire, "certificate", 0)
  /\ at = "open" => /\ Covers(hashes.application, wire, "serverFinished", 0)
                    /\ Covers(hashes.clientFinished, wire, "clientFinished", 1)
                    /\ Covers(conn.transcript, wire, "clientFinished", 0)
Hashes12(at, hashes) ==
  at \in {"ccs"} \cup Finishing => /\ Covers(hashes.application, wire, "clientKeyExchange", 0)
                                   /\ Covers(hashes.clientFinished, wire, "clientFinished", 1)
HashInv ==
  /\ DOMAIN conn.hashes = Purposes
  /\ Negotiated /\ TranscriptExact
  /\ conn.version = 13 => Hashes13(conn.at, conn.hashes)
  /\ conn.version # 13 => Hashes12(conn.at, conn.hashes)
  /\ conn.at = "open" => Covers(conn.hashes.serverFinished, wire, "serverFinished", 1)
  /\ conn.at \in Stages \cup {"open"} =>
       /\ conn.hashes.binder # <<>> => Covers(conn.hashes.binder, wire, "clientHello", 1)
       /\ conn.hashes.resumption # <<>> => conn.at = "open" /\ conn.version = 13 /\
                                           Covers(conn.hashes.resumption, wire, "clientFinished", 0)

-----------------------------------------------------------------------------
(***************************************************************************)
(* What the history of the wire says has been exchanged.                   *)
(***************************************************************************)
\* A message joins the handshake; a ChangeCipherSpec does not.
LEMMA ExchangedLaws ==
  ASSUME NEW w \in Seq(WireTypes), NEW t \in WireTypes, Keep(w, Handshake) # <<>>
  PROVE  /\ Keep(Append(w, t), Handshake) # <<>>
         /\ t \notin {"ccs", "helloRetryRequest"} =>
              Exchanged(Append(w, t)) = Append(Exchanged(w), t)
         /\ t = "ccs" => Exchanged(Append(w, t)) = Exchanged(w)
PROOF
<1> DEFINE x == Append(w, t)
           k == Keep(w, Handshake)
<1>1. Keep(x, Handshake) = IF t \in Handshake THEN Append(k, t) ELSE k
  BY KeepLaws
<1>2. k \in Seq(Handshake)
  BY KeepType
<1>3. Range(x) = Range(w) \cup {t}
  <2>1. Len(w) \in Nat /\ Len(x) = Len(w) + 1 /\ x[Len(w) + 1] = t
        /\ DOMAIN x = 1..(Len(w) + 1) /\ DOMAIN w = 1..Len(w) /\ \A i \in 1..Len(w) : x[i] = w[i]
    BY AppendProperties
  <2> HIDE DEF x
  <2>2. DOMAIN x = DOMAIN w \cup {Len(w) + 1}
    BY <2>1
  <2> QED
    BY <2>1, <2>2 DEF Range
<1>4. t \in Handshake => Append(k, t) # <<>> /\ Tail(Append(k, t)) = Append(Tail(k), t)
  <2> SUFFICES ASSUME t \in Handshake
               PROVE  Append(k, t) # <<>> /\ Tail(Append(k, t)) = Append(Tail(k), t)
    OBVIOUS
  <2> HIDE DEF k
  <2>1. k # <<>>
    BY DEF k
  <2> QED
    BY <1>2, <2>1
<1> DEFINE retried == "helloRetryRequest" \in Range(w)
<1>5. t # "helloRetryRequest" => ("helloRetryRequest" \in Range(x) <=> retried)
  BY <1>3
<1>6. Exchanged(w) = IF retried THEN <<"messageHash">> \o Tail(k) ELSE k
  BY DEF Exchanged
<1> DEFINE S == Handshake \cup {"messageHash"}
<1>7. ASSUME NEW a \in Seq(S), NEW b \in S
      PROVE  <<"messageHash">> \o Append(a, b) = Append(<<"messageHash">> \o a, b)
  <2>1. "messageHash" \in S
    OBVIOUS
  <2> HIDE DEF S
  <2> QED
    BY <2>1
<1>8. t \in Handshake => t \in S /\ Tail(k) \in Seq(S)
  <2>1. Handshake \subseteq S
    OBVIOUS
  <2>2. k # <<>>
    OBVIOUS
  <2> HIDE DEF k
  <2>3. Tail(k) \in Seq(Handshake)
    BY <1>2, <2>2
  <2> QED
    BY <2>1, <2>3, SeqMonotonic
<1>9. CASE t = "ccs"
  <2>1. t \notin Handshake
    BY <1>9 DEF Handshake
  <2> QED
    BY <1>1, <1>5, <1>6, <1>9, <2>1 DEF Exchanged
<1>10. CASE t \in Handshake
  <2>1. Keep(x, Handshake) = Append(k, t)
    BY <1>1, <1>10
  <2>2. t # "helloRetryRequest" =>
          Exchanged(x) = IF retried THEN <<"messageHash">> \o Tail(Append(k, t)) ELSE Append(k, t)
    BY <1>5, <2>1 DEF Exchanged
  <2> HIDE DEF k, x, retried, S
  <2>3. t # "helloRetryRequest" => Exchanged(x) = Append(Exchanged(w), t)
    BY <1>4, <1>6, <1>7, <1>8, <1>10, <2>2
  <2>4. t # "ccs"
    BY <1>10 DEF Handshake, Plain
  <2>5. Keep(x, Handshake) # <<>>
    BY <1>4, <1>10, <2>1
  <2> QED
    BY <2>3, <2>4, <2>5 DEF x
<1> QED
  BY <1>9, <1>10 DEF WireTypes

\* The first ClientHello, and a retry after it.
LEMMA ExchangedFirst ==
  /\ <<"clientHello">> \in Seq(WireTypes)
  /\ <<"clientHello", "helloRetryRequest">> \in Seq(WireTypes)
  /\ Append(<<"clientHello">>, "helloRetryRequest") = <<"clientHello", "helloRetryRequest">>
  /\ Keep(<<"clientHello">>, Handshake) # <<>>
  /\ Exchanged(<<"clientHello">>) = <<"clientHello">>
  /\ Exchanged(<<"clientHello", "helloRetryRequest">>) = <<"messageHash", "helloRetryRequest">>
  /\ Keep(<<"clientHello", "helloRetryRequest">>, Handshake) # <<>>
PROOF
<1>1. /\ "clientHello" \in Handshake /\ "helloRetryRequest" \in Handshake
      /\ Handshake \subseteq WireTypes
  BY DEF Handshake, WireTypes
<1>2. /\ <<>> \in Seq(WireTypes) /\ <<"clientHello">> \in Seq(WireTypes)
      /\ <<"clientHello">> = Append(<<>>, "clientHello")
      /\ <<"clientHello", "helloRetryRequest">> = Append(<<"clientHello">>, "helloRetryRequest")
  BY <1>1
<1>3. Keep(<<>>, Handshake) = <<>>
  BY <1>1, <1>2, KeepLaws
<1>4. Keep(<<"clientHello">>, Handshake) = <<"clientHello">>
  <2>1. Keep(Append(<<>>, "clientHello"), Handshake) = Append(<<>>, "clientHello")
    BY <1>1, <1>2, <1>3, KeepLaws
  <2> QED
    BY <1>2, <2>1
<1>5. Keep(<<"clientHello", "helloRetryRequest">>, Handshake)
        = <<"clientHello", "helloRetryRequest">>
  <2>1. Keep(Append(<<"clientHello">>, "helloRetryRequest"), Handshake)
          = Append(<<"clientHello">>, "helloRetryRequest")
    BY <1>1, <1>2, <1>4, KeepLaws
  <2> QED
    BY <1>2, <2>1
<1>6. "helloRetryRequest" \notin Range(<<"clientHello">>)
  BY DEF Range
<1>7. "helloRetryRequest" \in Range(<<"clientHello", "helloRetryRequest">>)
  <2>1. 2 \in DOMAIN <<"clientHello", "helloRetryRequest">>
        /\ <<"clientHello", "helloRetryRequest">>[2] = "helloRetryRequest"
    OBVIOUS
  <2> QED
    BY <2>1 DEF Range
<1>8. <<"messageHash">> \o Tail(<<"clientHello", "helloRetryRequest">>)
        = <<"messageHash", "helloRetryRequest">>
  <2> DEFINE S == WireTypes \cup {"messageHash"}
             t == Tail(<<"clientHello", "helloRetryRequest">>)
  <2>1. /\ "clientHello" \in S /\ "helloRetryRequest" \in S /\ "messageHash" \in S
        /\ <<"clientHello", "helloRetryRequest">> \in Seq(S)
    BY <1>1
  <2>2. t \in Seq(S) /\ Len(t) = 1 /\ t[1] = "helloRetryRequest"
    <3> HIDE DEF S
    <3> QED
      BY <2>1
  <2> HIDE DEF S, t
  <2>3. t = <<"helloRetryRequest">>
    BY <2>1, <2>2
  <2>4. <<"messageHash">> \o <<"helloRetryRequest">> = <<"messageHash", "helloRetryRequest">>
    <3> DEFINE c == <<"messageHash">> \o <<"helloRetryRequest">>
    <3>1. <<"messageHash">> \in Seq(S) /\ <<"helloRetryRequest">> \in Seq(S)
      BY <2>1
    <3>2. c \in Seq(S) /\ Len(c) = 2 /\ c[1] = "messageHash" /\ c[2] = "helloRetryRequest"
      BY <3>1
    <3> HIDE DEF c
    <3>3. c = <<"messageHash", "helloRetryRequest">>
      BY <3>2
    <3> QED
      BY <3>3 DEF c
  <2> QED
    BY <2>3, <2>4 DEF t
<1>9. /\ Exchanged(<<"clientHello">>) = <<"clientHello">>
      /\ Keep(<<"clientHello">>, Handshake) # <<>>
  BY <1>4, <1>6 DEF Exchanged
<1>10. /\ Exchanged(<<"clientHello", "helloRetryRequest">>) = <<"messageHash", "helloRetryRequest">>
       /\ Keep(<<"clientHello", "helloRetryRequest">>, Handshake) # <<>>
  <2> DEFINE u == <<"clientHello", "helloRetryRequest">>
  <2>1. Exchanged(u) = IF "helloRetryRequest" \in Range(u)
                       THEN <<"messageHash">> \o Tail(Keep(u, Handshake)) ELSE Keep(u, Handshake)
    BY DEF Exchanged
  <2>2. Keep(u, Handshake) = u /\ "helloRetryRequest" \in Range(u) /\ u # <<>>
    BY <1>5, <1>7
  <2> HIDE DEF u
  <2>3. Exchanged(u) = <<"messageHash">> \o Tail(u) /\ Keep(u, Handshake) # <<>>
    BY <2>1, <2>2
  <2> QED
    BY <1>8, <2>3 DEF u
<1>11. <<"clientHello", "helloRetryRequest">> \in Seq(WireTypes)
  BY <1>1
<1> QED
  BY <1>2, <1>9, <1>10, <1>11

\* The first members of a sequence stay when one is added.
LEMMA FirstStay ==
  ASSUME NEW S, NEW w \in Seq(S), NEW t \in S, NEW n \in 0..Len(w)
  PROVE  SubSeq(Append(w, t), 1, n) = SubSeq(w, 1, n)
PROOF
<1> DEFINE x == Append(w, t)
<1>1. /\ Len(w) \in Nat /\ Len(x) = Len(w) + 1 /\ x[Len(w) + 1] = t
      /\ \A i \in 1..Len(w) : x[i] = w[i] /\ w[i] \in S
  BY AppendProperties
<1> HIDE DEF x
<1>2. n \in Int /\ \A i \in 1..n : x[i] = w[i] /\ w[i] \in S /\ x[i] \in S
  BY <1>1
<1>3. /\ SubSeq(w, 1, n) \in Seq(S) /\ SubSeq(x, 1, n) \in Seq(S)
      /\ Len(SubSeq(w, 1, n)) = IF 1 <= n THEN n - 1 + 1 ELSE 0
      /\ Len(SubSeq(x, 1, n)) = IF 1 <= n THEN n - 1 + 1 ELSE 0
      /\ \A i \in 1..(n - 1 + 1) : SubSeq(w, 1, n)[i] = w[1 + i - 1]
      /\ \A i \in 1..(n - 1 + 1) : SubSeq(x, 1, n)[i] = x[1 + i - 1]
  BY <1>2, SubSeqProperties
<1>4. \A i \in 1..Len(SubSeq(w, 1, n)) : SubSeq(w, 1, n)[i] = SubSeq(x, 1, n)[i]
  <2> SUFFICES ASSUME NEW i \in 1..Len(SubSeq(w, 1, n))
               PROVE  SubSeq(w, 1, n)[i] = SubSeq(x, 1, n)[i]
    OBVIOUS
  <2>1. i \in 1..n /\ i \in 1..(n - 1 + 1) /\ 1 + i - 1 = i
    BY <1>2, <1>3
  <2> QED
    BY <1>2, <1>3, <2>1
<1> QED
  BY <1>3, <1>4, SeqEqual DEF x

\* A message of another type leaves what a hash covers; one of the type begins anew.
LEMMA CoversKept ==
  ASSUME NEW w \in Seq(WireTypes), NEW t \in WireTypes, NEW type, t # type,
         NEW hash, NEW back \in {0, 1}, Covers(hash, w, type, back)
  PROVE  Covers(hash, Append(w, t), type, back)
PROOF
<1> DEFINE x == Append(w, t)
<1>1. /\ Len(w) \in Nat /\ Len(x) = Len(w) + 1 /\ x[Len(w) + 1] = t
      /\ \A i \in 1..Len(w) : x[i] = w[i]
  BY AppendProperties
<1>2. PICK i \in 1..Len(w) : /\ w[i] = type /\ \A j \in (i + 1)..Len(w) : w[j] # type
                             /\ hash = Exchanged(SubSeq(w, 1, i - back))
  BY DEF Covers
<1>3. i - back \in 0..Len(w)
  BY <1>1
<1>4. SubSeq(x, 1, i - back) = SubSeq(w, 1, i - back)
  BY <1>3, FirstStay
<1> HIDE DEF x
<1>5. i \in 1..Len(x) /\ x[i] = type
  BY <1>1, <1>2
<1>6. \A j \in (i + 1)..Len(x) : x[j] # type
  <2> SUFFICES ASSUME NEW j \in (i + 1)..Len(x) PROVE x[j] # type
    OBVIOUS
  <2>1. CASE j = Len(w) + 1
    BY <1>1, <2>1
  <2>2. CASE j # Len(w) + 1
    <3>1. j \in (i + 1)..Len(w) /\ j \in 1..Len(w)
      BY <1>1, <2>2
    <3> QED
      BY <1>1, <1>2, <3>1
  <2> QED
    BY <2>1, <2>2
<1> QED
  BY <1>2, <1>4, <1>5, <1>6 DEF Covers, x

\* A hash taken just before a new message, or just after it.
LEMMA CoversNew ==
  ASSUME NEW w \in Seq(WireTypes), NEW t \in WireTypes
  PROVE  /\ Covers(Exchanged(w), Append(w, t), t, 1)
         /\ Covers(Exchanged(Append(w, t)), Append(w, t), t, 0)
PROOF
<1> DEFINE x == Append(w, t)
           n == Len(w) + 1
<1>1. /\ Len(w) \in Nat /\ Len(x) = n /\ x[n] = t /\ x \in Seq(WireTypes)
  BY AppendProperties
<1>2. SubSeq(x, 1, Len(w)) = SubSeq(w, 1, Len(w)) /\ SubSeq(w, 1, Len(w)) = w
  BY <1>1, FirstStay, SubSeqFull
<1> HIDE DEF x
<1>3. SubSeq(x, 1, n) = x
  BY <1>1, SubSeqFull
<1>4. n \in 1..Len(x) /\ n - 1 = Len(w) /\ n - 0 = n /\ \A j \in (n + 1)..Len(x) : x[j] # t
  BY <1>1
<1> HIDE DEF n
<1>5. Covers(Exchanged(w), x, t, 1)
  BY <1>1, <1>2, <1>4 DEF Covers
<1>6. Covers(Exchanged(x), x, t, 0)
  BY <1>1, <1>3, <1>4 DEF Covers
<1> QED
  BY <1>5, <1>6 DEF x

\* What a hash covers is what the property compares it with.
LEMMA CoversIs ==
  ASSUME wire \in Seq(WireTypes), NEW hash, NEW type, NEW back \in {0, 1},
         Covers(hash, wire, type, back)
  PROVE  hash = IF back = 1 THEN Before(type) ELSE Through(type)
PROOF
<1> DEFINE S == {i \in DOMAIN wire : wire[i] = type}
<1>1. PICK i \in 1..Len(wire) : /\ wire[i] = type /\ \A j \in (i + 1)..Len(wire) : wire[j] # type
                                /\ hash = Exchanged(SubSeq(wire, 1, i - back))
  BY DEF Covers
<1>2. Len(wire) \in Nat /\ DOMAIN wire = 1..Len(wire)
  OBVIOUS
<1>3. i \in S /\ \A j \in S : j \in Int /\ j <= i
  BY <1>1, <1>2
<1>4. LastOf(type) = i
  <2> HIDE DEF S
  <2>1. \A m \in S : (\A j \in S : m >= j) => m = i
    BY <1>3
  <2>2. \A j \in S : i >= j
    BY <1>3
  <2>3. Max(S) = i
    BY <1>3, <2>1, <2>2 DEF Max
  <2> QED
    BY <2>3 DEF LastOf, S
<1>5. i - 0 = i
  BY <1>2
<1>6. CASE back = 1
  BY <1>1, <1>4, <1>6 DEF Before
<1>7. CASE back = 0
  BY <1>1, <1>4, <1>5, <1>7 DEF Through
<1> QED
  BY <1>6, <1>7

\* The invariant gives the property.
LEMMA HashesFollow ==
  ASSUME HashInv
  PROVE  HashesAgree
PROOF
<1> SUFFICES ASSUME conn.at = "open" PROVE HashesAgree
  BY DEF HashesAgree
<1> DEFINE h == conn.hashes
<1>1. /\ wire \in Seq(WireTypes)
      /\ Covers(h.serverFinished, wire, "serverFinished", 1)
      /\ h.binder # <<>> => Covers(h.binder, wire, "clientHello", 1)
      /\ h.resumption # <<>> => Covers(h.resumption, wire, "clientFinished", 0)
  BY DEF HashInv, TranscriptExact
<1>2. /\ h.serverFinished = Before("serverFinished")
      /\ h.binder # <<>> => h.binder = Before("clientHello")
      /\ h.resumption # <<>> => h.resumption = Through("clientFinished")
  BY <1>1, CoversIs
<1>3. CASE conn.version = 13
  <2>1. /\ Covers(h.handshake, wire, "serverHello", 0)
        /\ ~conn.resumed => Covers(h.signature, wire, "certificate", 0)
        /\ Covers(h.application, wire, "serverFinished", 0)
        /\ Covers(h.clientFinished, wire, "clientFinished", 1)
    BY <1>3 DEF HashInv, Hashes13, Finishing
  <2>2. /\ h.handshake = Through("serverHello")
        /\ ~conn.resumed => h.signature = Through("certificate")
        /\ h.application = Through("serverFinished")
        /\ h.clientFinished = Before("clientFinished")
    BY <1>1, <2>1, CoversIs
  <2> QED
    BY <1>2, <1>3, <2>2 DEF HashesAgree
<1>4. CASE conn.version # 13
  <2>1. /\ Covers(h.application, wire, "clientKeyExchange", 0)
        /\ Covers(h.clientFinished, wire, "clientFinished", 1)
    BY <1>4 DEF HashInv, Hashes12, Finishing
  <2>2. /\ h.application = Through("clientKeyExchange")
        /\ h.clientFinished = Before("clientFinished")
    BY <1>1, <2>1, CoversIs
  <2> QED
    BY <1>2, <1>4, <2>2 DEF HashesAgree
<1> QED
  BY <1>3, <1>4

-----------------------------------------------------------------------------
(***************************************************************************)
(* The hashes, message by message.                                         *)
(***************************************************************************)
\* What has been exchanged is a sequence of messages and the hash of one.
LEMMA ExchangedType ==
  ASSUME NEW w \in Seq(WireTypes), Keep(w, Handshake) # <<>>
  PROVE  Exchanged(w) \in Seq(WireTypes \cup {"messageHash"})
PROOF
<1> DEFINE S == WireTypes \cup {"messageHash"}
           k == Keep(w, Handshake)
<1>1. Handshake \subseteq S /\ "messageHash" \in S
  BY DEF WireTypes
<1>2. k \in Seq(Handshake)
  BY KeepType
<1>3. k \in Seq(S) /\ k # <<>>
  BY <1>1, <1>2, SeqMonotonic
<1> HIDE DEF S
<1>4. <<"messageHash">> \in Seq(S)
  BY <1>1
<1>5. Tail(k) \in Seq(S)
  <2> HIDE DEF k
  <2> QED
    BY <1>3
<1>6. <<"messageHash">> \o Tail(k) \in Seq(S)
  <2> HIDE DEF k
  <2> QED
    BY <1>4, <1>5
<1>7. Exchanged(w) \in {k, <<"messageHash">> \o Tail(k)}
  BY DEF Exchanged
<1> QED
  BY <1>3, <1>6, <1>7 DEF S

\* Where each message is expected.
LEMMA StageOf ==
  ASSUME NEW at \in Stages, NEW type \in Expected[at]
  PROVE  /\ at \notin {"idle", "dialling", "failed", "open"} /\ type \in WireTypes
         /\ type = "serverHello" => at \in {"serverHello", "helloAfterRetry"}
         /\ type = "helloRetryRequest" => at = "serverHello"
         /\ type = "encryptedExtensions" => at = "encryptedExtensions"
         /\ type = "certificateRequest" => at \in {"certOrRequest", "requestOrDone"}
         /\ type = "certificate" => at \in {"certOrRequest", "certificate", "certificate12"}
         /\ type = "certificateVerify" => at = "certificateVerify"
         /\ type = "certificateStatus" => at = "statusOrKeys"
         /\ type = "serverKeyExchange" => at \in {"statusOrKeys", "serverKeyExchange"}
         /\ type = "serverHelloDone" => at \in {"requestOrDone", "serverHelloDone"}
         /\ type = "ccs" <=> at = "ccs"
         /\ type = "serverFinished" <=> at = "serverFinished"
PROOF
  BY DEF Stages, Expected, WireTypes, Handshake, Plain

\* What is read in any stage, and what joins the wire and the transcript.
LEMMA ReadsWire ==
  ASSUME HashInv, NEW m, NEW mine, Reads(m, mine)
  PROVE  /\ conn.at \in Stages /\ m.type \in Expected[conn.at] /\ m.type \in WireTypes
         /\ wire \in Seq(WireTypes) /\ Keep(wire, Handshake) # <<>>
         /\ conn.transcript = Exchanged(wire)
         /\ conn.transcript \in Seq(WireTypes \cup {"messageHash"})
         /\ wire \o <<m.type>> = Append(wire, m.type)
         /\ wire' = Append(wire, m.type) \o mine
         /\ conn.transcript \o <<m.type>> = Append(conn.transcript, m.type)
         /\ conn.hashes.resumption = <<>>
         /\ DOMAIN conn.hashes = Purposes
PROOF
<1>1. /\ conn.at \in Stages /\ m.type \in Expected[conn.at]
      /\ wire' = wire \o <<m.type>> \o mine
  BY DEF Reads, Accepts
<1>2. m.type \in WireTypes /\ conn.at # "open"
  BY <1>1, StageOf
<1>3. /\ wire \in Seq(WireTypes) /\ Keep(wire, Handshake) # <<>>
      /\ conn.transcript = Exchanged(wire) /\ DOMAIN conn.hashes = Purposes
      /\ conn.hashes.resumption = <<>>
  BY <1>1, <1>2 DEF HashInv, TranscriptExact
<1>4. conn.transcript \in Seq(WireTypes \cup {"messageHash"})
  BY <1>3, ExchangedType
<1>5. wire \o <<m.type>> = Append(wire, m.type)
  BY <1>2, <1>3, AppendIsConcat
<1>6. conn.transcript \o <<m.type>> = Append(conn.transcript, m.type)
  BY <1>2, <1>4, AppendIsConcat
<1> QED
  BY <1>1, <1>2, <1>3, <1>4, <1>5, <1>6

\* A message to which the client has no answer.
LEMMA PlainRead ==
  ASSUME HashInv, NEW m, Reads(m, <<>>), m.type \notin {"ccs", "helloRetryRequest"}
  PROVE  /\ wire' = Append(wire, m.type) /\ wire' \in Seq(WireTypes)
              /\ Keep(wire', Handshake) # <<>>
         /\ conn.transcript \o <<m.type>> \o <<>> = Exchanged(wire')
         /\ Append(conn.transcript, m.type) = Exchanged(wire')
         /\ \A hash, type, back :
              type # m.type /\ back \in {0, 1} /\ Covers(hash, wire, type, back)
                => Covers(hash, wire', type, back)
         /\ Covers(conn.transcript, wire', m.type, 1)
         /\ Covers(Append(conn.transcript, m.type), wire', m.type, 0)
PROOF
<1> DEFINE t == m.type
           w == Append(wire, t)
           k == Append(conn.transcript, t)
<1>1. /\ t \in WireTypes /\ wire \in Seq(WireTypes) /\ Keep(wire, Handshake) # <<>>
      /\ conn.transcript = Exchanged(wire) /\ wire' = w \o <<>>
      /\ conn.transcript \in Seq(WireTypes \cup {"messageHash"})
      /\ conn.transcript \o <<t>> = k
  BY ReadsWire
<1>2. w \in Seq(WireTypes) /\ k \in Seq(WireTypes \cup {"messageHash"})
  BY <1>1, AppendProperties
<1>3. wire' = w /\ conn.transcript \o <<t>> \o <<>> = k
  <2> HIDE DEF w, k
  <2> QED
    BY <1>1, <1>2, ConcatEmptySeq
<1>4. Exchanged(w) = k /\ Keep(w, Handshake) # <<>>
  BY <1>1, ExchangedLaws
<1>5. Covers(Exchanged(wire), w, t, 1) /\ Covers(Exchanged(w), w, t, 0)
  BY <1>1, CoversNew
<1>6. ASSUME NEW hash, NEW type, NEW back \in {0, 1}, type # t, Covers(hash, wire, type, back)
      PROVE  Covers(hash, w, type, back)
  BY <1>1, <1>6, CoversKept
<1> QED
  BY <1>1, <1>2, <1>3, <1>4, <1>5, <1>6

\* The stages are all of them named.
LEMMA StageNames ==
  /\ Stages = {"serverHello", "helloAfterRetry"} \cup Stages13 \cup Stages12 \cup {"serverFinished"}
  /\ "open" \notin Stages
PROOF
  BY DEF Stages, Expected, Stages13, Stages12

\* A step from stage to stage.
LEMMA StageStep ==
  ASSUME HashInv, NEW m, Reads(m, <<>>), m.type \notin {"ccs", "helloRetryRequest"},
         conn'.at \in Stages \ {"serverHello"}, conn'.transcript = Exchanged(wire'),
         DOMAIN conn'.hashes = Purposes, conn'.hashes.binder = conn.hashes.binder,
         conn'.hashes.resumption = conn.hashes.resumption,
         Negotiated', conn'.version = 13 => Hashes13(conn.at, conn.hashes)',
         conn'.version # 13 => Hashes12(conn.at, conn.hashes)'
  PROVE  HashInv'
PROOF
<1>1. /\ m.type \in WireTypes /\ conn.at \in Stages /\ m.type \in Expected[conn.at]
      /\ conn.hashes.resumption = <<>>
  BY ReadsWire
<1>2. m.type # "clientHello"
  BY <1>1 DEF Stages, Expected
<1>3. TranscriptExact'
  BY PlainRead DEF TranscriptExact
<1>4. conn'.hashes.binder # <<>> => Covers(conn'.hashes.binder, wire', "clientHello", 1)
  BY <1>1, <1>2, PlainRead DEF HashInv
<1> QED
  BY <1>1, <1>3, <1>4, StageNames DEF HashInv

\* ServerHello: the handshake secret covers it.
LEMMA ServerHelloHashes ==
  ASSUME HInv, HashInv, NEW m, ServerHello13(m) \/ ServerHello12(m)
  PROVE  HashInv'
PROOF
<1>0. DOMAIN conn = DOMAIN Fresh /\ DOMAIN Fresh =
        {"at", "key", "offer", "psk", "version", "suite", "transcript", "hashes", "resumed",
         "requested", "status", "chain", "ske", "pending", "ignored", "peer", "confirmed"}
  BY DEF HInv, HTypeOK, Fresh
<1>1. Reads(m, <<>>) /\ m.type = "serverHello"
  BY DEF ServerHello13, ServerHello12
<1>2. DOMAIN conn.hashes = Purposes
  BY DEF HashInv
<1>3. CASE ServerHello13(m)
  <2>1. /\ conn'.at = "encryptedExtensions" /\ conn'.version = 13
        /\ conn'.transcript = conn.transcript \o <<m.type>> \o <<>>
        /\ conn'.hashes = [conn.hashes EXCEPT !.handshake = Append(conn.transcript, m.type)]
    BY <1>0, <1>3 DEF ServerHello13, Hash
  <2>2. /\ DOMAIN conn'.hashes = Purposes /\ conn'.hashes.binder = conn.hashes.binder
        /\ conn'.hashes.resumption = conn.hashes.resumption
        /\ conn'.hashes.handshake = Append(conn.transcript, m.type)
    BY <1>2, <2>1 DEF Purposes
  <2>3. /\ conn'.transcript = Exchanged(wire')
        /\ Covers(conn'.hashes.handshake, wire', "serverHello", 0)
    BY <1>1, <2>1, <2>2, PlainRead
  <2> QED
    BY <1>1, <2>1, <2>2, <2>3, StageStep, StageNames
       DEF Negotiated, Hashes13, Stages13, Stages12, Finishing
<1>4. CASE ServerHello12(m)
  <2>1. /\ conn'.at = "certificate12" /\ conn'.version = 12
        /\ conn'.transcript = conn.transcript \o <<m.type>> \o <<>>
        /\ conn'.hashes = conn.hashes
    BY <1>0, <1>4 DEF ServerHello12, Hash
  <2>2. conn'.transcript = Exchanged(wire')
    BY <1>1, <2>1, PlainRead
  <2> QED
    BY <1>1, <1>2, <2>1, <2>2, StageStep, StageNames
       DEF Negotiated, Hashes12, Stages13, Stages12, Finishing
<1> QED
  BY <1>3, <1>4

\* The messages up to the certificate's proof: the signature covers the Certificate.
LEMMA EncryptedExtensionsHashes ==
  ASSUME HInv, HashInv, NEW m, EncryptedExtensions(m)
  PROVE  HashInv'
PROOF
<1>0. DOMAIN conn = DOMAIN Fresh /\ DOMAIN Fresh =
        {"at", "key", "offer", "psk", "version", "suite", "transcript", "hashes", "resumed",
         "requested", "status", "chain", "ske", "pending", "ignored", "peer", "confirmed"}
  BY DEF HInv, HTypeOK, Fresh
<1>1. Reads(m, <<>>) /\ m.type = "encryptedExtensions"
  BY DEF EncryptedExtensions
<1>2. conn.at = "encryptedExtensions" /\ conn.version = 13 /\ DOMAIN conn.hashes = Purposes
  BY <1>1, ReadsWire, StageOf DEF HashInv, Negotiated, Stages13
<1>3. /\ conn'.at = IF conn.resumed THEN "serverFinished" ELSE "certOrRequest"
      /\ conn'.version = conn.version /\ conn'.resumed = conn.resumed
      /\ conn'.transcript = conn.transcript \o <<m.type>> \o <<>>
      /\ conn'.hashes = conn.hashes
  BY <1>0, EncryptedExtensions(m) DEF EncryptedExtensions, Hash
<1>4. conn'.transcript = Exchanged(wire')
  BY <1>1, <1>3, PlainRead
<1>5. Covers(conn.hashes.handshake, wire', "serverHello", 0)
  BY <1>1, <1>2, PlainRead DEF HashInv, Hashes13, Stages13
<1>6. Negotiated' /\ conn'.at \in Stages \ {"serverHello"}
  BY <1>2, <1>3, StageNames DEF Negotiated, Stages13, Stages12
<1>7. Hashes13(conn.at, conn.hashes)'
  BY <1>3, <1>5 DEF Hashes13, Finishing
<1> QED
  BY <1>1, <1>2, <1>3, <1>4, <1>6, <1>7, StageStep

\* A CertificateRequest joins the transcript, in TLS 1.3 and 1.2.
LEMMA CertificateRequestHashes ==
  ASSUME HInv, HashInv, NEW m, CertificateRequest(m)
  PROVE  HashInv'
PROOF
<1>0. DOMAIN conn = DOMAIN Fresh /\ DOMAIN Fresh =
        {"at", "key", "offer", "psk", "version", "suite", "transcript", "hashes", "resumed",
         "requested", "status", "chain", "ske", "pending", "ignored", "peer", "confirmed"}
  BY DEF HInv, HTypeOK, Fresh
<1>1. Reads(m, <<>>) /\ m.type = "certificateRequest"
  BY DEF CertificateRequest
<1>2. /\ conn.at \in {"certOrRequest", "requestOrDone"} /\ DOMAIN conn.hashes = Purposes
      /\ conn.at = "certOrRequest" => conn.version = 13
      /\ conn.at = "requestOrDone" => conn.version = 12
  BY <1>1, ReadsWire, StageOf DEF HashInv, Negotiated, Stages13, Stages12
<1>3. /\ conn'.at = IF conn.version = 13 THEN "certificate" ELSE "serverHelloDone"
      /\ conn'.version = conn.version /\ conn'.resumed = conn.resumed
      /\ conn'.transcript = conn.transcript \o <<m.type>> \o <<>>
      /\ conn'.hashes = conn.hashes
  BY <1>0, CertificateRequest(m) DEF CertificateRequest, Hash
<1>4. conn'.transcript = Exchanged(wire')
  BY <1>1, <1>3, PlainRead
<1>5. conn.version = 13 => Covers(conn.hashes.handshake, wire', "serverHello", 0)
  <2>1. conn.version = 13 => Covers(conn.hashes.handshake, wire, "serverHello", 0)
    BY <1>2 DEF HashInv, Hashes13, Stages13
  <2> QED
    BY <1>1, <2>1, PlainRead
<1>6. Negotiated' /\ conn'.at \in Stages \ {"serverHello"}
  BY <1>2, <1>3, StageNames DEF Negotiated, Stages13, Stages12
<1>7. conn'.version = 13 => Hashes13(conn.at, conn.hashes)'
  BY <1>3, <1>5 DEF Hashes13, Finishing
<1>8. conn'.version # 13 => Hashes12(conn.at, conn.hashes)'
  BY <1>3 DEF Hashes12, Finishing
<1> QED
  BY <1>1, <1>2, <1>3, <1>4, <1>6, <1>7, <1>8, StageStep

\* The Certificate joins, and the signature that follows covers all up to it.
LEMMA CertificateHashes ==
  ASSUME HInv, HashInv, NEW m, Certificate(m)
  PROVE  HashInv'
PROOF
<1>0. DOMAIN conn = DOMAIN Fresh /\ DOMAIN Fresh =
        {"at", "key", "offer", "psk", "version", "suite", "transcript", "hashes", "resumed",
         "requested", "status", "chain", "ske", "pending", "ignored", "peer", "confirmed"}
  BY DEF HInv, HTypeOK, Fresh
<1>1. Reads(m, <<>>) /\ m.type = "certificate"
  BY DEF Certificate
<1>2. /\ conn.at \in {"certOrRequest", "certificate", "certificate12"}
           /\ DOMAIN conn.hashes = Purposes
      /\ conn.at \in {"certOrRequest", "certificate"} => conn.version = 13
      /\ conn.at = "certificate12" => conn.version = 12
  BY <1>1, ReadsWire, StageOf DEF HashInv, Negotiated, Stages13, Stages12
<1>3. /\ conn'.at = IF conn.version = 13 THEN "certificateVerify" ELSE "statusOrKeys"
      /\ conn'.version = conn.version /\ conn'.resumed = conn.resumed
      /\ conn'.transcript = conn.transcript \o <<m.type>> \o <<>>
      /\ conn'.hashes = [conn.hashes EXCEPT !.signature = Append(conn.transcript, m.type)]
  BY <1>0, Certificate(m) DEF Certificate, Hash
<1>4. /\ DOMAIN conn'.hashes = Purposes /\ conn'.hashes.binder = conn.hashes.binder
      /\ conn'.hashes.resumption = conn.hashes.resumption
      /\ conn'.hashes.handshake = conn.hashes.handshake
      /\ conn'.hashes.signature = Append(conn.transcript, m.type)
  BY <1>2, <1>3 DEF Purposes
<1>5. conn'.transcript = Exchanged(wire')
  BY <1>1, <1>3, PlainRead
<1>6. conn.version = 13 => Covers(conn'.hashes.handshake, wire', "serverHello", 0)
  <2>1. conn.version = 13 => Covers(conn.hashes.handshake, wire, "serverHello", 0)
    BY <1>2 DEF HashInv, Hashes13, Stages13
  <2> QED
    BY <1>1, <1>4, <2>1, PlainRead
<1>7. Covers(conn'.hashes.signature, wire', "certificate", 0)
  BY <1>1, <1>4, PlainRead
<1>8. Negotiated' /\ conn'.at \in Stages \ {"serverHello"}
  BY <1>2, <1>3, StageNames DEF Negotiated, Stages13, Stages12
<1>9. conn'.version = 13 => Hashes13(conn.at, conn.hashes)'
  BY <1>3, <1>6, <1>7 DEF Hashes13, Finishing
<1>10. conn'.version # 13 => Hashes12(conn.at, conn.hashes)'
  BY <1>3 DEF Hashes12, Finishing
<1> QED
  BY <1>1, <1>4, <1>5, <1>8, <1>9, <1>10, StageStep

\* The CertificateVerify joins.
LEMMA CertificateVerifyHashes ==
  ASSUME HInv, HashInv, NEW m, CertificateVerify(m)
  PROVE  HashInv'
PROOF
<1>0. DOMAIN conn = DOMAIN Fresh /\ DOMAIN Fresh =
        {"at", "key", "offer", "psk", "version", "suite", "transcript", "hashes", "resumed",
         "requested", "status", "chain", "ske", "pending", "ignored", "peer", "confirmed"}
  BY DEF HInv, HTypeOK, Fresh
<1>1. Reads(m, <<>>) /\ m.type = "certificateVerify"
  BY DEF CertificateVerify
<1>2. conn.at = "certificateVerify" /\ conn.version = 13 /\ DOMAIN conn.hashes = Purposes
  BY <1>1, ReadsWire, StageOf DEF HashInv, Negotiated, Stages13
<1>3. /\ conn'.at = "serverFinished"
      /\ conn'.version = conn.version /\ conn'.resumed = conn.resumed
      /\ conn'.transcript = conn.transcript \o <<m.type>> \o <<>>
      /\ conn'.hashes = conn.hashes
  BY <1>0, CertificateVerify(m) DEF CertificateVerify, Hash
<1>4. conn'.transcript = Exchanged(wire')
  BY <1>1, <1>3, PlainRead
<1>5. Covers(conn.hashes.handshake, wire', "serverHello", 0)
  BY <1>1, <1>2, PlainRead DEF HashInv, Hashes13, Stages13
<1>6. ~conn.resumed => Covers(conn.hashes.signature, wire', "certificate", 0)
  BY <1>1, <1>2, PlainRead DEF HashInv, Hashes13
<1>7. Negotiated' /\ conn'.at \in Stages \ {"serverHello"}
  BY <1>3, StageNames DEF Negotiated, Stages13, Stages12
<1>8. Hashes13(conn.at, conn.hashes)'
  BY <1>3, <1>5, <1>6 DEF Hashes13
<1> QED
  BY <1>1, <1>2, <1>3, <1>4, <1>7, <1>8, StageStep

\* The TLS 1.2 server's key exchange.
LEMMA KeyExchangeHashes ==
  ASSUME HInv, HashInv, NEW m, CertificateStatus(m) \/ ServerKeyExchange(m)
  PROVE  HashInv'
PROOF
<1>0. DOMAIN conn = DOMAIN Fresh /\ DOMAIN Fresh =
        {"at", "key", "offer", "psk", "version", "suite", "transcript", "hashes", "resumed",
         "requested", "status", "chain", "ske", "pending", "ignored", "peer", "confirmed"}
  BY DEF HInv, HTypeOK, Fresh
<1>1. Reads(m, <<>>) /\ m.type \in {"certificateStatus", "serverKeyExchange"}
  BY DEF CertificateStatus, ServerKeyExchange
<1>2. conn.version = 12 /\ DOMAIN conn.hashes = Purposes
  <2>1. conn.at \in {"statusOrKeys", "serverKeyExchange"}
    BY <1>1, ReadsWire, StageOf
  <2> QED
    BY <2>1 DEF HashInv, Negotiated, Stages12
<1>3. /\ conn'.at \in {"serverKeyExchange", "requestOrDone"}
      /\ conn'.version = conn.version
      /\ conn'.transcript = conn.transcript \o <<m.type>> \o <<>>
      /\ conn'.hashes = conn.hashes
  BY <1>0, CertificateStatus(m) \/ ServerKeyExchange(m)
     DEF CertificateStatus, ServerKeyExchange, Hash
<1>4. conn'.transcript = Exchanged(wire')
  BY <1>1, <1>3, PlainRead
<1>5. Negotiated' /\ conn'.at \in Stages \ {"serverHello"}
  BY <1>2, <1>3, StageNames DEF Negotiated, Stages13, Stages12
<1>6. Hashes12(conn.at, conn.hashes)'
  BY <1>3 DEF Hashes12, Finishing
<1> QED
  BY <1>1, <1>2, <1>3, <1>4, <1>5, <1>6, StageStep

\* A message that joins the handshake, of either end.
LEMMA Joins ==
  ASSUME NEW w \in Seq(WireTypes), Keep(w, Handshake) # <<>>,
         NEW t \in WireTypes \ {"ccs", "helloRetryRequest"}
  PROVE  /\ Append(w, t) \in Seq(WireTypes) /\ Keep(Append(w, t), Handshake) # <<>>
         /\ Exchanged(Append(w, t)) = Append(Exchanged(w), t)
         /\ Covers(Exchanged(w), Append(w, t), t, 1)
         /\ Covers(Exchanged(Append(w, t)), Append(w, t), t, 0)
         /\ \A hash, type, back : type # t /\ back \in {0, 1} /\ Covers(hash, w, type, back)
                                    => Covers(hash, Append(w, t), type, back)
PROOF
<1>1. \A hash, type, back : type # t /\ back \in {0, 1} /\ Covers(hash, w, type, back)
                              => Covers(hash, Append(w, t), type, back)
  BY CoversKept
<1> QED
  BY <1>1, ExchangedLaws, CoversNew, AppendProperties

\* The client's Certificate, if the server asked for one.
Answered(w) == IF conn.requested THEN Append(w, "clientCertificate") ELSE w

\* The client's Certificate joins the transcript if it is sent.
LEMMA AnswerJoins ==
  ASSUME NEW w \in Seq(WireTypes), Keep(w, Handshake) # <<>>
  PROVE  /\ Answered(w) \in Seq(WireTypes) /\ Keep(Answered(w), Handshake) # <<>>
         /\ Exchanged(Answered(w)) = Answered(Exchanged(w))
         /\ \A hash, type, back :
              type # "clientCertificate" /\ back \in {0, 1} /\ Covers(hash, w, type, back)
                => Covers(hash, Answered(w), type, back)
PROOF
<1>1. "clientCertificate" \in WireTypes \ {"ccs", "helloRetryRequest"}
  BY DEF WireTypes, Handshake
<1> QED
  BY <1>1, Joins DEF Answered

\* The second flight as the actions write it: the client's Certificate, if any, and
\* what follows it.
LEMMA AnswerIs ==
  ASSUME NEW S, "clientCertificate" \in S, NEW w \in Seq(S), NEW t \in S
  PROVE  /\ w \o Empty = Answered(w) /\ Answered(w) \in Seq(S)
         /\ w \o (Empty \o <<t>>) = Append(Answered(w), t)
PROOF
<1>1. Empty \in Seq(S) /\ Empty = IF conn.requested THEN <<"clientCertificate">> ELSE <<>>
  BY DEF Empty
<1>2. w \o <<"clientCertificate">> = Append(w, "clientCertificate") /\ w \o <<>> = w
  BY AppendIsConcat, ConcatEmptySeq
<1>3. w \o Empty = Answered(w)
  BY <1>1, <1>2 DEF Answered
<1>4. Answered(w) \in Seq(S)
  BY AppendProperties DEF Answered
<1>5. <<t>> \in Seq(S)
  OBVIOUS
<1>6. w \o (Empty \o <<t>>) = (w \o Empty) \o <<t>>
  BY <1>1, <1>5, ConcatAssociative
<1>7. Answered(w) \o <<t>> = Append(Answered(w), t)
  BY <1>4, AppendIsConcat
<1> QED
  BY <1>3, <1>4, <1>6, <1>7

\* The TLS 1.3 Finished: the traffic secrets cover the server's, and the client's
\* covers its own Certificate.
LEMMA Finished13Hashes ==
  ASSUME HInv, HashInv, NEW m, Finished13(m)
  PROVE  HashInv'
PROOF
<1> DEFINE S == WireTypes \cup {"messageHash"}
           w1 == Append(wire, "serverFinished")
           w2 == Answered(w1)
           w3 == Append(w2, "clientFinished")
           k1 == Append(conn.transcript, "serverFinished")
<1>0. DOMAIN conn = DOMAIN Fresh /\ DOMAIN Fresh =
        {"at", "key", "offer", "psk", "version", "suite", "transcript", "hashes", "resumed",
         "requested", "status", "chain", "ske", "pending", "ignored", "peer", "confirmed"}
  BY DEF HInv, HTypeOK, Fresh
<1>1. /\ m.type = "serverFinished" /\ conn.version = 13
      /\ Reads(m, Empty \o <<"clientFinished">>)
  BY DEF Finished13
<1>2. /\ wire \in Seq(WireTypes) /\ Keep(wire, Handshake) # <<>>
      /\ conn.transcript = Exchanged(wire) /\ conn.transcript \in Seq(S)
      /\ wire' = w1 \o (Empty \o <<"clientFinished">>)
      /\ conn.transcript \o <<m.type>> = k1
      /\ conn.hashes.resumption = <<>> /\ DOMAIN conn.hashes = Purposes
      /\ conn.at \in Stages /\ conn.at = "serverFinished"
  <2>1. ASSUME NEW all, Reads(m, all)
        PROVE  /\ wire \in Seq(WireTypes) /\ Keep(wire, Handshake) # <<>>
               /\ conn.transcript = Exchanged(wire) /\ conn.transcript \in Seq(S)
               /\ wire' = Append(wire, m.type) \o all
               /\ conn.transcript \o <<m.type>> = Append(conn.transcript, m.type)
               /\ conn.hashes.resumption = <<>> /\ DOMAIN conn.hashes = Purposes
               /\ conn.at \in Stages /\ m.type \in Expected[conn.at]
    BY <2>1, ReadsWire
  <2>2. conn.at = "serverFinished"
    BY <1>1, <2>1, StageOf
  <2> QED
    BY <1>1, <2>1, <2>2
<1>3. /\ {"serverFinished", "clientCertificate", "clientFinished"}
           \subseteq WireTypes \ {"ccs", "helloRetryRequest"}
      /\ {"serverFinished", "clientCertificate", "clientFinished"} \subseteq S
  BY DEF WireTypes, Handshake, Plain
<1>4. /\ w1 \in Seq(WireTypes) /\ Keep(w1, Handshake) # <<>> /\ Exchanged(w1) = k1
      /\ Covers(conn.transcript, w1, "serverFinished", 1) /\ Covers(k1, w1, "serverFinished", 0)
      /\ \A hash, type, back :
              type # "serverFinished" /\ back \in {0, 1} /\ Covers(hash, wire, type, back)
                                => Covers(hash, w1, type, back)
  BY <1>2, <1>3, Joins
<1>5. k1 \in Seq(S)
  BY <1>2, <1>3
<1> HIDE DEF w1, k1, S
<1>6. /\ w2 \in Seq(WireTypes) /\ Keep(w2, Handshake) # <<>> /\ Exchanged(w2) = Answered(k1)
      /\ \A hash, type, back :
              type # "clientCertificate" /\ back \in {0, 1} /\ Covers(hash, w1, type, back)
                                => Covers(hash, w2, type, back)
  BY <1>4, AnswerJoins
<1>7. /\ wire' = w3
      /\ k1 \o Empty = Answered(k1)
      /\ k1 \o (Empty \o <<"clientFinished">>) = Append(Answered(k1), "clientFinished")
  BY <1>2, <1>3, <1>4, <1>5, AnswerIs
<1> HIDE DEF w2
<1>8. /\ w3 \in Seq(WireTypes) /\ Keep(w3, Handshake) # <<>>
      /\ Exchanged(w3) = Append(Answered(k1), "clientFinished")
      /\ Covers(Answered(k1), w3, "clientFinished", 1)
           /\ Covers(Exchanged(w3), w3, "clientFinished", 0)
      /\ \A hash, type, back :
              type # "clientFinished" /\ back \in {0, 1} /\ Covers(hash, w2, type, back)
                                => Covers(hash, w3, type, back)
  BY <1>3, <1>6, Joins
<1> HIDE DEF w3
<1>9. ASSUME NEW hash, NEW type, NEW back \in {0, 1}, Covers(hash, wire, type, back),
             type \notin {"serverFinished", "clientCertificate", "clientFinished"}
      PROVE  Covers(hash, w3, type, back)
  BY <1>4, <1>6, <1>8, <1>9
<1>10. Covers(conn.transcript, w3, "serverFinished", 1) /\ Covers(k1, w3, "serverFinished", 0)
  BY <1>4, <1>6, <1>8
<1>11. /\ conn'.at = "open" /\ conn'.version = 13 /\ conn'.resumed = conn.resumed
       /\ conn'.transcript = conn.transcript \o <<m.type>> \o (Empty \o <<"clientFinished">>)
       /\ conn'.hashes = [conn.hashes EXCEPT !.serverFinished = conn.transcript,
                                             !.application = k1, !.clientFinished = k1 \o Empty]
  BY <1>0, <1>1, Finished13(m) DEF Finished13, Hash, k1
<1>12. /\ DOMAIN conn'.hashes = Purposes /\ conn'.hashes.binder = conn.hashes.binder
       /\ conn'.hashes.resumption = <<>> /\ conn'.hashes.handshake = conn.hashes.handshake
       /\ conn'.hashes.signature = conn.hashes.signature
       /\ conn'.hashes.serverFinished = conn.transcript
       /\ conn'.hashes.application = k1 /\ conn'.hashes.clientFinished = Answered(k1)
  BY <1>2, <1>7, <1>11 DEF Purposes
<1>13. conn'.transcript = Exchanged(w3)
  BY <1>2, <1>7, <1>8, <1>11
<1>14. /\ Covers(conn.hashes.handshake, w3, "serverHello", 0)
       /\ ~conn.resumed => Covers(conn.hashes.signature, w3, "certificate", 0)
       /\ conn.hashes.binder # <<>> => Covers(conn.hashes.binder, w3, "clientHello", 1)
  <2>1. /\ Covers(conn.hashes.handshake, wire, "serverHello", 0)
        /\ ~conn.resumed => Covers(conn.hashes.signature, wire, "certificate", 0)
        /\ conn.hashes.binder # <<>> => Covers(conn.hashes.binder, wire, "clientHello", 1)
    BY <1>1, <1>2 DEF HashInv, Hashes13, Finishing
  <2> QED
    BY <1>9, <2>1
<1>15. Negotiated' /\ TranscriptExact'
  BY <1>7, <1>8, <1>11, StageNames DEF Negotiated, TranscriptExact, Stages13, Stages12
<1>16. Hashes13(conn.at, conn.hashes)'
  BY <1>7, <1>8, <1>10, <1>11, <1>12, <1>13, <1>14 DEF Hashes13
<1> QED
  BY <1>7, <1>10, <1>11, <1>12, <1>14, <1>15, <1>16 DEF HashInv

\* The TLS 1.2 client's second flight: the master secret covers ClientKeyExchange.
LEMMA ServerHelloDoneHashes ==
  ASSUME HInv, HashInv, NEW m, ServerHelloDone(m)
  PROVE  HashInv'
PROOF
<1> DEFINE S == WireTypes \cup {"messageHash"}
           mine == Empty \o <<"clientKeyExchange">>
           w1 == Append(wire, "serverHelloDone")
           w2 == Answered(w1)
           w3 == Append(w2, "clientKeyExchange")
           w4 == Append(w3, "clientFinished")
           k1 == Append(conn.transcript, "serverHelloDone")
           k3 == Append(Answered(k1), "clientKeyExchange")
<1>0. DOMAIN conn = DOMAIN Fresh /\ DOMAIN Fresh =
        {"at", "key", "offer", "psk", "version", "suite", "transcript", "hashes", "resumed",
         "requested", "status", "chain", "ske", "pending", "ignored", "peer", "confirmed"}
  BY DEF HInv, HTypeOK, Fresh
<1>1. m.type = "serverHelloDone" /\ Reads(m, Append(mine, "clientFinished"))
  BY DEF ServerHelloDone
<1>2. /\ wire \in Seq(WireTypes) /\ Keep(wire, Handshake) # <<>>
      /\ conn.transcript = Exchanged(wire) /\ conn.transcript \in Seq(S)
      /\ wire' = w1 \o Append(mine, "clientFinished")
      /\ conn.transcript \o <<m.type>> = k1
      /\ conn.hashes.resumption = <<>> /\ DOMAIN conn.hashes = Purposes
      /\ conn.at \in Stages /\ conn.at \in {"requestOrDone", "serverHelloDone"}
  <2> HIDE DEF mine
  <2>1. ASSUME NEW all, Reads(m, all)
        PROVE  /\ wire \in Seq(WireTypes) /\ Keep(wire, Handshake) # <<>>
               /\ conn.transcript = Exchanged(wire) /\ conn.transcript \in Seq(S)
               /\ wire' = Append(wire, m.type) \o all
               /\ conn.transcript \o <<m.type>> = Append(conn.transcript, m.type)
               /\ conn.hashes.resumption = <<>> /\ DOMAIN conn.hashes = Purposes
               /\ conn.at \in Stages /\ m.type \in Expected[conn.at]
    BY <2>1, ReadsWire
  <2>2. conn.at \in {"requestOrDone", "serverHelloDone"}
    BY <1>1, <2>1, StageOf
  <2> QED
    BY <1>1, <2>1, <2>2
<1> DEFINE mineTypes == {"serverHelloDone", "clientCertificate", "clientKeyExchange",
                         "clientFinished"}
<1>3. mineTypes \subseteq WireTypes \ {"ccs", "helloRetryRequest"}
        /\ mineTypes \subseteq S /\ WireTypes \subseteq S
  BY DEF WireTypes, Handshake, Plain
<1>4. /\ w1 \in Seq(WireTypes) /\ Keep(w1, Handshake) # <<>> /\ Exchanged(w1) = k1
      /\ \A hash, type, back :
              type # "serverHelloDone" /\ back \in {0, 1} /\ Covers(hash, wire, type, back)
                                => Covers(hash, w1, type, back)
  BY <1>2, <1>3, Joins
<1>5. k1 \in Seq(S)
  BY <1>2, <1>3
<1> HIDE DEF w1, k1
<1>6. /\ w2 \in Seq(WireTypes) /\ Keep(w2, Handshake) # <<>> /\ Exchanged(w2) = Answered(k1)
      /\ \A hash, type, back :
              type # "clientCertificate" /\ back \in {0, 1} /\ Covers(hash, w1, type, back)
                                => Covers(hash, w2, type, back)
  BY <1>4, AnswerJoins
<1>7. /\ w1 \o mine = w3 /\ k1 \o mine = k3 /\ Answered(k1) \in Seq(S)
  BY <1>3, <1>4, <1>5, AnswerIs
<1> HIDE DEF w2
<1>8. /\ w3 \in Seq(WireTypes) /\ Keep(w3, Handshake) # <<>> /\ Exchanged(w3) = k3
      /\ Covers(k3, w3, "clientKeyExchange", 0)
      /\ \A hash, type, back :
              type # "clientKeyExchange" /\ back \in {0, 1} /\ Covers(hash, w2, type, back)
                                => Covers(hash, w3, type, back)
  BY <1>3, <1>6, Joins
<1>9. k3 \in Seq(S) /\ mine \in Seq(S)
  <2>1. "clientCertificate" \in S /\ "clientKeyExchange" \in S
    BY <1>3
  <2> HIDE DEF S
  <2>2. Empty \in Seq(S) /\ <<"clientKeyExchange">> \in Seq(S)
    BY <2>1 DEF Empty
  <2> QED
    BY <1>7, <2>1, <2>2
<1> HIDE DEF w3, k3
<1>10. /\ w4 \in Seq(WireTypes) /\ Keep(w4, Handshake) # <<>>
       /\ Exchanged(w4) = Append(k3, "clientFinished")
       /\ Covers(k3, w4, "clientFinished", 1)
       /\ \A hash, type, back :
               type # "clientFinished" /\ back \in {0, 1} /\ Covers(hash, w3, type, back)
                                 => Covers(hash, w4, type, back)
  BY <1>3, <1>8, Joins
<1>11. /\ w1 \o Append(mine, "clientFinished") = w4
       /\ k1 \o Append(mine, "clientFinished") = Append(k3, "clientFinished")
  <2> HIDE DEF mine, S
  <2>1. ASSUME NEW a \in Seq(S)
        PROVE  a \o Append(mine, "clientFinished") = Append(a \o mine, "clientFinished")
    <3>1. "clientFinished" \in S
      BY <1>3
    <3> QED
      BY <1>9, <3>1
  <2>2. w1 \in Seq(S)
    BY <1>3, <1>4, SeqMonotonic
  <2> QED
    BY <1>5, <1>7, <2>1, <2>2
<1> HIDE DEF w4
<1>12. ASSUME NEW hash, NEW type, NEW back \in {0, 1}, Covers(hash, wire, type, back),
              type \notin mineTypes
      PROVE  Covers(hash, w4, type, back)
  BY <1>4, <1>6, <1>8, <1>10, <1>12
<1>13. Covers(k3, w4, "clientKeyExchange", 0)
  BY <1>8, <1>10
<1>14. /\ conn'.at = "ccs" /\ conn'.version = conn.version
       /\ conn'.transcript = conn.transcript \o <<m.type>> \o Append(mine, "clientFinished")
       /\ conn'.hashes = [conn.hashes EXCEPT !.application = conn.transcript \o <<m.type>> \o mine,
                                             !.clientFinished = conn.transcript \o <<m.type>> \o mine]
  BY <1>0, <1>1, ServerHelloDone(m) DEF ServerHelloDone, Hash
<1>15. /\ DOMAIN conn'.hashes = Purposes /\ conn'.hashes.binder = conn.hashes.binder
       /\ conn'.hashes.resumption = <<>>
       /\ conn'.hashes.application = k3 /\ conn'.hashes.clientFinished = k3
  BY <1>2, <1>7, <1>14 DEF Purposes
<1>16. conn'.transcript = Exchanged(w4) /\ wire' = w4
  BY <1>2, <1>10, <1>11, <1>14
<1>17. conn.version = 12 /\ (conn.hashes.binder # <<>> => Covers(conn.hashes.binder, w4, "clientHello", 1))
  BY <1>2, <1>12 DEF HashInv, Negotiated, Stages12
<1>18. Negotiated' /\ TranscriptExact'
  BY <1>10, <1>14, <1>16, <1>17, StageNames DEF Negotiated, TranscriptExact, Stages13, Stages12
<1>19. Hashes12(conn.at, conn.hashes)'
  BY <1>10, <1>13, <1>14, <1>15, <1>16 DEF Hashes12, Finishing
<1> QED
  BY <1>14, <1>15, <1>16, <1>17, <1>18, <1>19 DEF HashInv

\* The TLS 1.2 server's ChangeCipherSpec, which is not hashed, and its Finished, which is
\* checked before it would be.
LEMMA ChangeCipherSpecHashes ==
  ASSUME HInv, HashInv, NEW m, ChangeCipherSpec(m)
  PROVE  HashInv'
PROOF
<1>0. DOMAIN conn = DOMAIN Fresh /\ DOMAIN Fresh =
        {"at", "key", "offer", "psk", "version", "suite", "transcript", "hashes", "resumed",
         "requested", "status", "chain", "ske", "pending", "ignored", "peer", "confirmed"}
  BY DEF HInv, HTypeOK, Fresh
<1>1. m.type = "ccs" /\ Reads(m, <<>>)
  BY DEF ChangeCipherSpec
<1>2. /\ wire \in Seq(WireTypes) /\ Keep(wire, Handshake) # <<>>
      /\ conn.transcript = Exchanged(wire) /\ wire' = Append(wire, "ccs") \o <<>>
      /\ conn.hashes.resumption = <<>> /\ DOMAIN conn.hashes = Purposes
      /\ conn.at = "ccs" /\ conn.at \in Stages /\ "ccs" \in WireTypes
  <2>1. /\ wire \in Seq(WireTypes) /\ Keep(wire, Handshake) # <<>>
        /\ conn.transcript = Exchanged(wire) /\ wire' = Append(wire, m.type) \o <<>>
        /\ conn.hashes.resumption = <<>> /\ DOMAIN conn.hashes = Purposes
        /\ conn.at \in Stages /\ m.type \in Expected[conn.at] /\ m.type \in WireTypes
    BY <1>1, ReadsWire
  <2>2. conn.at = "ccs"
    BY <1>1, <2>1, StageOf
  <2> QED
    BY <1>1, <2>1, <2>2
<1>3. wire' = Append(wire, "ccs") /\ wire' \in Seq(WireTypes)
  <2>1. Append(wire, "ccs") \in Seq(WireTypes)
    BY <1>2
  <2> QED
    BY <1>2, <2>1, ConcatEmptySeq
<1>4. Keep(wire', Handshake) # <<>> /\ Exchanged(wire') = Exchanged(wire)
  BY <1>2, <1>3, ExchangedLaws
<1>5. ASSUME NEW hash, NEW type, NEW back \in {0, 1}, Covers(hash, wire, type, back), type # "ccs"
      PROVE  Covers(hash, wire', type, back)
  BY <1>2, <1>3, <1>5, CoversKept
<1>6. /\ conn'.at = "serverFinished" /\ conn'.version = conn.version
      /\ conn'.transcript = conn.transcript /\ conn'.hashes = conn.hashes
  BY <1>0, ChangeCipherSpec(m) DEF ChangeCipherSpec
<1>7. /\ conn.version = 12
      /\ Covers(conn.hashes.application, wire, "clientKeyExchange", 0)
      /\ Covers(conn.hashes.clientFinished, wire, "clientFinished", 1)
      /\ conn.hashes.binder # <<>> => Covers(conn.hashes.binder, wire, "clientHello", 1)
  BY <1>2 DEF HashInv, Hashes12, Negotiated, Stages12
<1>8. /\ Covers(conn.hashes.application, wire', "clientKeyExchange", 0)
      /\ Covers(conn.hashes.clientFinished, wire', "clientFinished", 1)
      /\ conn.hashes.binder # <<>> => Covers(conn.hashes.binder, wire', "clientHello", 1)
  BY <1>5, <1>7
<1>9. Negotiated' /\ TranscriptExact'
  BY <1>2, <1>3, <1>4, <1>6, StageNames DEF Negotiated, TranscriptExact, Stages13, Stages12
<1>10. Hashes12(conn.at, conn.hashes)'
  BY <1>6, <1>8 DEF Hashes12
<1> QED
  BY <1>2, <1>6, <1>7, <1>8, <1>9, <1>10 DEF HashInv

\* The server's Finished in TLS 1.2 is compared with the hash of all before it.
LEMMA Finished12Hashes ==
  ASSUME HInv, HashInv, NEW m, Finished12(m)
  PROVE  HashInv'
PROOF
<1>0. DOMAIN conn = DOMAIN Fresh /\ DOMAIN Fresh =
        {"at", "key", "offer", "psk", "version", "suite", "transcript", "hashes", "resumed",
         "requested", "status", "chain", "ske", "pending", "ignored", "peer", "confirmed"}
  BY DEF HInv, HTypeOK, Fresh
<1>1. m.type = "serverFinished" /\ conn.version = 12 /\ Reads(m, <<>>)
  BY DEF Finished12
<1>2. /\ conn.hashes.resumption = <<>> /\ DOMAIN conn.hashes = Purposes
      /\ conn.at = "serverFinished" /\ conn.at \in Stages
  BY <1>1, ReadsWire, StageOf
<1>3. /\ conn'.at = "open" /\ conn'.version = conn.version
      /\ conn'.hashes = [conn.hashes EXCEPT !.serverFinished = conn.transcript]
  BY <1>0, Finished12(m) DEF Finished12
<1>4. /\ DOMAIN conn'.hashes = Purposes /\ conn'.hashes.binder = conn.hashes.binder
      /\ conn'.hashes.resumption = <<>> /\ conn'.hashes.serverFinished = conn.transcript
      /\ conn'.hashes.application = conn.hashes.application
      /\ conn'.hashes.clientFinished = conn.hashes.clientFinished
  BY <1>2, <1>3 DEF Purposes
<1>5. /\ Covers(conn.hashes.application, wire, "clientKeyExchange", 0)
      /\ Covers(conn.hashes.clientFinished, wire, "clientFinished", 1)
      /\ conn.hashes.binder # <<>> => Covers(conn.hashes.binder, wire, "clientHello", 1)
  BY <1>1, <1>2 DEF HashInv, Hashes12, Finishing
<1>6. /\ Covers(conn.hashes.application, wire', "clientKeyExchange", 0)
      /\ Covers(conn.hashes.clientFinished, wire', "clientFinished", 1)
      /\ conn.hashes.binder # <<>> => Covers(conn.hashes.binder, wire', "clientHello", 1)
      /\ Covers(conn.transcript, wire', "serverFinished", 1)
  BY <1>1, <1>5, PlainRead
<1>7. Negotiated' /\ TranscriptExact'
  BY <1>1, <1>3, PlainRead, StageNames DEF Negotiated, TranscriptExact, Stages13, Stages12
<1>8. Hashes12(conn.at, conn.hashes)'
  BY <1>4, <1>6 DEF Hashes12
<1> QED
  BY <1>1, <1>3, <1>4, <1>6, <1>7, <1>8 DEF HashInv

\* A retry: the second binder covers the hash of the first ClientHello and the request.
LEMMA HelloRetryHashes ==
  ASSUME HInv, HashInv, NEW m, HelloRetryRequest(m)
  PROVE  HashInv'
PROOF
<1> DEFINE w2 == <<"clientHello", "helloRetryRequest">>
           before == <<"messageHash", "helloRetryRequest">>
<1>0. DOMAIN conn = DOMAIN Fresh /\ DOMAIN Fresh =
        {"at", "key", "offer", "psk", "version", "suite", "transcript", "hashes", "resumed",
         "requested", "status", "chain", "ske", "pending", "ignored", "peer", "confirmed"}
  BY DEF HInv, HTypeOK, Fresh
<1>1. m.type = "helloRetryRequest" /\ Reads(m, <<"clientHello">>)
  BY DEF HelloRetryRequest
<1>2. /\ wire \in Seq(WireTypes) /\ wire' = Append(wire, "helloRetryRequest") \o <<"clientHello">>
      /\ conn.hashes.resumption = <<>> /\ DOMAIN conn.hashes = Purposes
      /\ conn.at = "serverHello" /\ conn.at \in Stages /\ "helloRetryRequest" \in WireTypes
  <2>1. ASSUME NEW mine, Reads(m, mine)
        PROVE  /\ wire \in Seq(WireTypes) /\ wire' = Append(wire, m.type) \o mine
               /\ conn.hashes.resumption = <<>> /\ DOMAIN conn.hashes = Purposes
               /\ conn.at \in Stages /\ m.type \in Expected[conn.at] /\ m.type \in WireTypes
    BY <2>1, ReadsWire
  <2>2. conn.at = "serverHello"
    BY <1>1, <2>1, StageOf
  <2> QED
    BY <1>1, <2>1, <2>2
<1>3. wire = <<"clientHello">> /\ conn.hashes.binder = <<>>
  BY <1>2 DEF HashInv, TranscriptExact
<1>4. Append(wire, "helloRetryRequest") = w2 /\ w2 \in Seq(WireTypes)
  BY <1>3, ExchangedFirst
<1>5. Exchanged(w2) = before /\ Keep(w2, Handshake) # <<>>
  BY ExchangedFirst
<1>6. /\ conn'.at = "helloAfterRetry" /\ conn'.version = 13
      /\ conn'.transcript = Append(before, "clientHello")
      /\ \E b \in {before, <<>>} : conn'.hashes = [conn.hashes EXCEPT !.binder = b]
  BY <1>0, <1>1, HelloRetryRequest(m) DEF HelloRetryRequest, RestartTranscript
<1> HIDE DEF w2, before
<1>7. "clientHello" \in WireTypes \ {"ccs", "helloRetryRequest"}
  BY DEF WireTypes, Handshake
<1>8. wire' = Append(w2, "clientHello")
  BY <1>2, <1>4, <1>7, AppendIsConcat
<1>9. /\ wire' \in Seq(WireTypes) /\ Keep(wire', Handshake) # <<>>
      /\ Exchanged(wire') = Append(before, "clientHello")
      /\ Covers(before, wire', "clientHello", 1)
  BY <1>4, <1>5, <1>7, <1>8, Joins
<1>10. /\ DOMAIN conn'.hashes = Purposes /\ conn'.hashes.resumption = <<>>
       /\ conn'.hashes.binder \in {before, <<>>}
  BY <1>2, <1>6 DEF Purposes
<1>11. Negotiated' /\ TranscriptExact'
  BY <1>6, <1>9, StageNames DEF Negotiated, TranscriptExact, Stages13, Stages12
<1>12. Hashes13(conn.at, conn.hashes)'
  BY <1>6 DEF Hashes13, Stages13, Finishing
<1> QED
  BY <1>6, <1>9, <1>10, <1>11, <1>12 DEF HashInv

\* No connection, or none any more.
LEMMA FreshHashes ==
  ASSUME conn'.at \in {"idle", "dialling", "failed"}, conn'.hashes = [p \in Purposes |-> <<>>]
  PROVE  HashInv'
PROOF
<1>1. /\ conn'.at \in {"idle", "dialling", "failed"} /\ conn'.hashes = [p \in Purposes |-> <<>>]
  OBVIOUS
<1>2. Negotiated' /\ TranscriptExact'
  BY <1>1, StageNames DEF Negotiated, TranscriptExact, Stages13, Stages12
<1>3. Hashes13(conn.at, conn.hashes)' /\ Hashes12(conn.at, conn.hashes)'
  BY <1>1 DEF Hashes13, Hashes12, Stages13, Finishing
<1> QED
  BY <1>1, <1>2, <1>3, StageNames DEF HashInv, Stages13, Stages12

\* Any message of the server.
LEMMA ReceiveHashes ==
  ASSUME HInv, HashInv, NEW m, Receive(m)
  PROVE  HashInv'
PROOF
<1>1. CASE Refuse(m)
  <2>1. conn'.at = "failed" /\ conn'.hashes = [p \in Purposes |-> <<>>]
    BY <1>1 DEF Refuse, Fresh
  <2> QED
    BY <2>1, FreshHashes
<1>2. CASE DropDummy(m)
  <2>1. /\ conn'.at = conn.at /\ conn'.version = conn.version /\ conn'.resumed = conn.resumed
        /\ conn'.transcript = conn.transcript /\ conn'.hashes = conn.hashes /\ wire' = wire
    BY <1>2 DEF DropDummy, HInv, HTypeOK, Fresh
  <2> QED
    BY <2>1 DEF HashInv, Negotiated, TranscriptExact, Hashes13, Hashes12, Finishing
<1> QED
  BY <1>1, <1>2, HelloRetryHashes, ServerHelloHashes, EncryptedExtensionsHashes, CertificateRequestHashes,
     CertificateHashes, CertificateVerifyHashes, Finished13Hashes, KeyExchangeHashes,
     ServerHelloDoneHashes, ChangeCipherSpecHashes, Finished12Hashes DEF Receive

\* A ticket's PSK covers everything up to the client's Finished.
LEMMA TicketHashes ==
  ASSUME HInv, HashInv, NEW life, NEW good, NewSessionTicket(life, good)
  PROVE  HashInv'
PROOF
<1>0. DOMAIN conn = DOMAIN Fresh /\ DOMAIN Fresh =
        {"at", "key", "offer", "psk", "version", "suite", "transcript", "hashes", "resumed",
         "requested", "status", "chain", "ske", "pending", "ignored", "peer", "confirmed"}
  BY DEF HInv, HTypeOK, Fresh
<1>1. conn.at = "open" /\ conn.version = 13 /\ wire' = wire
  BY DEF NewSessionTicket
<1>2. CASE good
  <2>1. /\ conn' = [conn EXCEPT !.hashes.resumption = conn.transcript]
        /\ DOMAIN conn.hashes = Purposes
    BY <1>2 DEF NewSessionTicket, HashInv
  <2>2. /\ conn'.at = conn.at /\ conn'.version = conn.version /\ conn'.resumed = conn.resumed
        /\ conn'.transcript = conn.transcript
        /\ conn'.hashes = [conn.hashes EXCEPT !.resumption = conn.transcript]
    BY <1>0, <2>1
  <2>3. /\ DOMAIN conn'.hashes = Purposes
        /\ conn'.hashes.resumption = conn.transcript
        /\ \A p \in Purposes \ {"resumption"} : conn'.hashes[p] = conn.hashes[p]
    BY <2>1, <2>2 DEF Purposes
  <2>4. /\ conn'.hashes.binder = conn.hashes.binder
             /\ conn'.hashes.handshake = conn.hashes.handshake
        /\ conn'.hashes.signature = conn.hashes.signature
        /\ conn'.hashes.serverFinished = conn.hashes.serverFinished
        /\ conn'.hashes.clientFinished = conn.hashes.clientFinished
        /\ conn'.hashes.application = conn.hashes.application
    BY <2>3 DEF Purposes
  <2>5. /\ Negotiated /\ TranscriptExact /\ Hashes13(conn.at, conn.hashes)
        /\ Covers(conn.hashes.serverFinished, wire, "serverFinished", 1)
        /\ conn.hashes.binder # <<>> => Covers(conn.hashes.binder, wire, "clientHello", 1)
    BY <1>1 DEF HashInv
  <2>6. Covers(conn.transcript, wire, "clientFinished", 0)
    BY <1>1, <2>5 DEF Hashes13
  <2>7. Negotiated' /\ TranscriptExact'
    BY <1>1, <2>2, <2>5, StageNames DEF Negotiated, TranscriptExact, Stages13, Stages12
  <2>8. Hashes13(conn.at, conn.hashes)'
    BY <1>1, <2>2, <2>4, <2>5 DEF Hashes13
  <2> QED
    BY <1>1, <2>2, <2>3, <2>4, <2>5, <2>6, <2>7, <2>8 DEF HashInv
<1>3. CASE ~good
  <2>1. conn'.at = "failed" /\ conn'.hashes = [p \in Purposes |-> <<>>]
    BY <1>3 DEF NewSessionTicket, Fresh
  <2> QED
    BY <2>1, FreshHashes
<1> QED
  BY <1>2, <1>3

\* A first ClientHello.
LEMMA SendHelloHashes ==
  ASSUME SendHello
  PROVE  HashInv'
PROOF
<1>1. /\ conn'.at = "serverHello" /\ conn'.transcript = <<"clientHello">>
      /\ conn'.hashes = [p \in Purposes |-> <<>>] /\ wire' = <<"clientHello">>
  BY DEF SendHello, ClientHello, Fresh
<1>2. Negotiated' /\ TranscriptExact'
  BY <1>1, StageNames, ExchangedFirst DEF Negotiated, TranscriptExact, Stages13, Stages12, Purposes
<1>3. Hashes13(conn.at, conn.hashes)' /\ Hashes12(conn.at, conn.hashes)'
  BY <1>1 DEF Hashes13, Hashes12, Stages13, Finishing
<1>4. conn'.hashes.binder = <<>> /\ conn'.hashes.resumption = <<>>
  BY <1>1 DEF Purposes
<1> QED
  BY <1>1, <1>2, <1>3, <1>4 DEF HashInv

\* The hashes are those of the messages in every state.
THEOREM HashesInductive == Spec => []HashInv
PROOF
<1>1. Init => HashInv
  <2> SUFFICES ASSUME Init PROVE HashInv
    OBVIOUS
  <2>1. conn.at = "idle" /\ conn.hashes = [p \in Purposes |-> <<>>]
    BY DEF Init, Fresh
  <2>2. Negotiated /\ TranscriptExact
    BY <2>1, StageNames DEF Negotiated, TranscriptExact, Stages13, Stages12
  <2>3. Hashes13(conn.at, conn.hashes) /\ Hashes12(conn.at, conn.hashes)
    BY <2>1 DEF Hashes13, Hashes12, Stages13, Finishing
  <2> QED
    BY <2>1, <2>2, <2>3, StageNames DEF HashInv, Stages13, Stages12
<1>2. HInv /\ HashInv /\ [Next]_vars => HashInv'
  <2> SUFFICES ASSUME HInv, HashInv, [Next]_vars PROVE HashInv'
    OBVIOUS
  <2>1. ASSUME NEW k \in Keys, TakeTicket(k) PROVE HashInv'
    <3>1. conn'.at = "dialling" /\ conn'.hashes = [p \in Purposes |-> <<>>]
      BY <2>1 DEF TakeTicket, Fresh
    <3> QED
      BY <3>1, FreshHashes
  <2>7. CASE SendHello
    BY <2>7, SendHelloHashes
  <2>2. ASSUME NEW m \in Messages, Receive(m) PROVE HashInv'
    BY <2>2, ReceiveHashes
  <2>3. ASSUME NEW life \in Lifetimes, NEW good \in BOOLEAN, NewSessionTicket(life, good)
        PROVE  HashInv'
    BY <2>3, TicketHashes
  <2>4. CASE Disconnect \/ DialFails
    <3>1. conn'.at = "idle" /\ conn'.hashes = [p \in Purposes |-> <<>>]
      BY <2>4 DEF Disconnect, DialFails, Fresh
    <3> QED
      BY <3>1, FreshHashes
  <2>5. CASE UNCHANGED <<conn, wire>>
    BY <2>5 DEF HashInv, Negotiated, TranscriptExact, Hashes13, Hashes12
  <2>6. Close \/ Tick \/ UNCHANGED vars => UNCHANGED <<conn, wire>>
    BY DEF Close, Tick, vars
  <2> QED
    BY <2>1, <2>2, <2>3, <2>4, <2>5, <2>6, <2>7 DEF Next
<1> QED
  BY <1>1, <1>2, HandshakeInductive, PTL DEF Spec

\* Both ends derive the same keys: every secret, signature and verify_data is over the
\* messages exchanged up to its place (transcript.js, keyschedule.js, handshake.js).
THEOREM TlsHashesAgree == Spec => []HashesAgree
PROOF
  BY HashesInductive, HashesFollow, PTL

-----------------------------------------------------------------------------
(***************************************************************************)
(* A correct server.  A flight says no message twice, so the last one said *)
(* tells where the flight has got to.  As long as every message was        *)
(* correct, the client is in the stage for that place: the next message of *)
(* any flight that goes on from there is one that the stage accepts.       *)
(***************************************************************************)
Said == Keep(wire, Plain)
NothingSaid == {"serverHello", "helloAfterRetry", "encryptedExtensions", "certificate12"}
LastSaid ==
  [certOrRequest     |-> "encryptedExtensions",
   certificate       |-> "certificateRequest",
   certificateVerify |-> "certificate",
   statusOrKeys      |-> "certificate",
   serverKeyExchange |-> "certificateStatus",
   requestOrDone     |-> "serverKeyExchange",
   serverHelloDone   |-> "certificateRequest",
   ccs               |-> "serverHelloDone",
   serverFinished    |-> IF conn.version = 12 THEN "ccs"
                         ELSE IF conn.resumed THEN "encryptedExtensions"
                         ELSE "certificateVerify"]
SaidTo(said, at) ==
  /\ at \in NothingSaid => Len(said) = 0
  /\ at \in DOMAIN LastSaid => Len(said) > 0 /\ said[Len(said)] = LastSaid[at]
OnCourse ==
  /\ conn.at # "failed"
  /\ SaidTo(Said, conn.at)
  /\ conn.at = "serverHello" => wire = <<"clientHello">>
  /\ conn.at = "helloAfterRetry" => Len(wire) = 3 /\ "serverHello" \notin Range(wire)
  /\ conn.at \in {"certOrRequest", "certificate", "certificateVerify"} => ~conn.resumed
  /\ conn.at \in {"certificateVerify"} \cup (Stages12 \ {"certificate12"}) => conn.chain = "good"
  /\ conn.at \in {"requestOrDone", "serverHelloDone"} => conn.ske = "good"
  /\ conn.at = "ccs" => ~conn.pending
LegalInv == legal => OnCourse


\* What may follow a message in a flight, and the flights as runs of such pairs.
NextIn(v, viaPsk) ==
  IF v = 12
  THEN [certificate        |-> {"serverKeyExchange"}
                                 \cup (IF conn.status THEN {"certificateStatus"} ELSE {}),
        certificateStatus  |-> {"serverKeyExchange"},
        serverKeyExchange  |-> {"certificateRequest", "serverHelloDone"},
        certificateRequest |-> {"serverHelloDone"},
        serverHelloDone    |-> {"ccs"},
        ccs                |-> {"serverFinished"}]
  ELSE IF viaPsk
  THEN [encryptedExtensions |-> {"serverFinished"}]
  ELSE [encryptedExtensions |-> {"certificateRequest", "certificate"},
        certificateRequest  |-> {"certificate"},
        certificate         |-> {"certificateVerify"},
        certificateVerify   |-> {"serverFinished"}]
Runs(f, follows, first, last) ==
  /\ f \in Seq(Plain) /\ Len(f) > 0 /\ f[1] = first /\ f[Len(f)] = last
  /\ \A i \in 1..(Len(f) - 1) : f[i + 1] \in follows[f[i]]

\* One message runs from itself to itself.
LEMMA RunsOne ==
  ASSUME NEW t \in Plain, NEW follows
  PROVE  Runs(<<t>>, follows, t, t)
PROOF
<1>1. <<t>> \in Seq(Plain) /\ Len(<<t>>) = 1 /\ <<t>>[1] = t
  OBVIOUS
<1> QED
  BY <1>1 DEF Runs

\* Two runs of which the second may follow the first.
LEMMA RunsJoin ==
  ASSUME NEW follows, NEW a, NEW b, NEW s, NEW t, NEW u, NEW v,
         Runs(a, follows, s, t), Runs(b, follows, u, v), u \in follows[t]
  PROVE  Runs(a \o b, follows, s, v)
PROOF
<1> DEFINE x == a \o b
           n == Len(a)
           k == Len(b)
<1>1. /\ a \in Seq(Plain) /\ b \in Seq(Plain) /\ n \in Nat /\ k \in Nat /\ n > 0 /\ k > 0
      /\ a[1] = s /\ a[n] = t /\ b[1] = u /\ b[k] = v
      /\ \A i \in 1..(n - 1) : a[i + 1] \in follows[a[i]]
      /\ \A i \in 1..(k - 1) : b[i + 1] \in follows[b[i]]
  BY DEF Runs
<1>0. n \in Nat /\ k \in Nat /\ n > 0 /\ k > 0
  BY <1>1
<1>2. /\ x \in Seq(Plain) /\ Len(x) = n + k
      /\ \A i \in 1..(n + k) : x[i] = IF i <= n THEN a[i] ELSE b[i - n]
  BY <1>1, ConcatProperties
<1> HIDE DEF x, n, k
<1>3. x[1] = s /\ x[n + k] = v
  <2>1. 1 \in 1..(n + k) /\ n + k \in 1..(n + k) /\ 1 <= n /\ ~(n + k <= n) /\ n + k - n = k
    BY <1>1
  <2> QED
    BY <1>1, <1>2, <2>1
<1>4. ASSUME NEW i \in 1..(n + k - 1) PROVE x[i + 1] \in follows[x[i]]
  <2>1. CASE i < n
    <3>1. i \in 1..(n + k) /\ i + 1 \in 1..(n + k) /\ i \in 1..(n - 1) /\ i <= n /\ i + 1 <= n
      BY <1>0, <2>1
    <3> QED
      BY <1>1, <1>2, <3>1
  <2>2. CASE i = n
    <3>1. i \in 1..(n + k) /\ i + 1 \in 1..(n + k) /\ i <= n /\ ~(i + 1 <= n) /\ i + 1 - n = 1
      BY <1>0, <2>2
    <3>2. x[i] = t /\ x[i + 1] = u
      BY <1>1, <1>2, <2>2, <3>1
    <3> QED
      BY <3>2
  <2>3. CASE i > n
    <3>1. /\ i \in 1..(n + k) /\ i + 1 \in 1..(n + k) /\ ~(i <= n) /\ ~(i + 1 <= n)
          /\ i - n \in 1..(k - 1) /\ i + 1 - n = i - n + 1
      BY <1>0, <2>3
    <3>2. \A j \in 1..(n + k) : ~(j <= n) => x[j] = b[j - n]
      BY <1>2
    <3>3. x[i] = b[i - n]
      BY <3>1, <3>2
    <3>4. x[i + 1] = b[i - n + 1]
      BY <1>0, <3>1, <3>2
    <3>5. b[i - n + 1] \in follows[b[i - n]]
      BY <1>1, <3>1
    <3> QED
      BY <3>3, <3>4, <3>5
  <2> QED
    BY <1>0, <2>1, <2>2, <2>3
<1>5. Runs(x, follows, s, v)
  BY <1>1, <1>2, <1>3, <1>4 DEF Runs
<1> QED
  BY <1>5 DEF x

\* Two messages, and three, of which each may follow the one before.
LEMMA RunsTwo ==
  ASSUME NEW follows, NEW s \in Plain, NEW t \in Plain, t \in follows[s]
  PROVE  Runs(<<s, t>>, follows, s, t)
PROOF
<1> DEFINE x == <<s, t>>
<1>1. x \in Seq(Plain) /\ Len(x) = 2 /\ x[1] = s /\ x[2] = t
  OBVIOUS
<1> HIDE DEF x
<1>2. Runs(x, follows, s, t)
  BY <1>1 DEF Runs
<1> QED
  BY <1>2 DEF x

\* And three.
LEMMA RunsThree ==
  ASSUME NEW follows, NEW s \in Plain, NEW t \in Plain, NEW u \in Plain,
         t \in follows[s], u \in follows[t]
  PROVE  Runs(<<s, t, u>>, follows, s, u)
PROOF
<1> DEFINE x == <<s, t, u>>
<1>1. x \in Seq(Plain) /\ Len(x) = 3 /\ x[1] = s /\ x[2] = t /\ x[3] = u
  OBVIOUS
<1> HIDE DEF x
<1>2. Runs(x, follows, s, u)
  BY <1>1 DEF Runs
<1> QED
  BY <1>2 DEF x

\* Every flight is a run that begins with the message the first stage expects.
LEMMA FlightRuns ==
  ASSUME NEW v, NEW viaPsk, NEW f \in Flights(v, viaPsk)
  PROVE  Runs(f, NextIn(v, viaPsk),
              IF v = 12 THEN "certificate" ELSE "encryptedExtensions", "serverFinished")
PROOF
<1> DEFINE F == NextIn(v, viaPsk)
<1>0. {"encryptedExtensions", "certificateRequest", "certificate", "certificateStatus",
       "certificateVerify", "serverKeyExchange", "serverHelloDone", "serverFinished", "ccs"}
        \subseteq Plain
  BY DEF Plain
<1>1. CASE v = 12
  <2> DEFINE statuses == IF conn.status THEN Optional("certificateStatus") ELSE {<<>>}
  <2> DEFINE flight(s, r) == <<"certificate">> \o s \o <<"serverKeyExchange">> \o r
                               \o <<"serverHelloDone", "ccs", "serverFinished">>
  <2>a. Flights(v, viaPsk) =
          {flight(s, r) : s \in statuses, r \in Optional("certificateRequest")}
    BY <1>1 DEF Flights
  <2>0. PICK s \in statuses, r \in Optional("certificateRequest") : f = flight(s, r)
    <3> HIDE DEF flight, statuses
    <3> QED
      BY <2>a
  <2>1. /\ s = <<>> \/ (s = <<"certificateStatus">> /\ conn.status)
        /\ r = <<>> \/ r = <<"certificateRequest">>
    <3>1. s \in {<<>>, <<"certificateStatus">>} /\ (~conn.status => s = <<>>)
      BY DEF Optional
    <3>2. r \in {<<>>, <<"certificateRequest">>}
      BY DEF Optional
    <3> QED
      BY <3>1, <3>2
  <2> HIDE DEF statuses
  <2>2. /\ "serverKeyExchange" \in F["certificate"]
        /\ conn.status => "certificateStatus" \in F["certificate"]
        /\ "serverKeyExchange" \in F["certificateStatus"]
        /\ {"certificateRequest", "serverHelloDone"} \subseteq F["serverKeyExchange"]
        /\ "serverHelloDone" \in F["certificateRequest"]
        /\ "ccs" \in F["serverHelloDone"] /\ "serverFinished" \in F["ccs"]
    BY <1>1 DEF NextIn
  <2> HIDE DEF F
  <2> DEFINE a == <<"certificate">> \o s
             b == a \o <<"serverKeyExchange">>
             c == b \o r
             z == <<"serverHelloDone", "ccs", "serverFinished">>
  <2>3. /\ Runs(<<"certificate">>, F, "certificate", "certificate")
        /\ Runs(<<"certificateStatus">>, F, "certificateStatus", "certificateStatus")
        /\ Runs(<<"serverKeyExchange">>, F, "serverKeyExchange", "serverKeyExchange")
        /\ Runs(<<"certificateRequest">>, F, "certificateRequest", "certificateRequest")
    BY <1>0, RunsOne
  <2>4. Runs(z, F, "serverHelloDone", "serverFinished")
    BY <1>0, <2>2, RunsThree
  <2>5. Runs(a, F, "certificate", "certificate") \/ Runs(a, F, "certificate", "certificateStatus")
    <3>1. CASE s = <<>>
      <4>1. a = <<"certificate">>
        BY <2>3, <3>1, ConcatEmptySeq DEF Runs
      <4> QED
        BY <2>3, <4>1
    <3>2. CASE s = <<"certificateStatus">> /\ conn.status
      BY <2>1, <2>2, <2>3, <3>2, RunsJoin
    <3> QED
      BY <2>1, <3>1, <3>2
  <2>6. Runs(b, F, "certificate", "serverKeyExchange")
    <3> HIDE DEF a
    <3> QED
      BY <2>2, <2>3, <2>5, RunsJoin
  <2>7. \/ Runs(c, F, "certificate", "serverKeyExchange")
        \/ Runs(c, F, "certificate", "certificateRequest")
    <3> HIDE DEF b
    <3>1. CASE r = <<>>
      <4>1. c = b
        BY <2>6, <3>1, ConcatEmptySeq DEF Runs
      <4> QED
        BY <2>6, <4>1
    <3>2. CASE r = <<"certificateRequest">>
      BY <2>2, <2>3, <2>6, <3>2, RunsJoin
    <3> QED
      BY <2>1, <3>1, <3>2
  <2>8. Runs(c \o z, F, "certificate", "serverFinished")
    <3> HIDE DEF c, z
    <3> QED
      BY <2>2, <2>4, <2>7, RunsJoin
  <2> QED
    BY <1>1, <2>0, <2>8 DEF F
<1>2. CASE v # 12 /\ viaPsk
  <2>1. f = <<"encryptedExtensions", "serverFinished">>
    BY <1>2 DEF Flights
  <2>2. "serverFinished" \in F["encryptedExtensions"]
    BY <1>2 DEF NextIn
  <2>3. Runs(f, F, "encryptedExtensions", "serverFinished")
    <3> HIDE DEF F
    <3> QED
      BY <1>0, <2>1, <2>2, RunsTwo
  <2> QED
    BY <1>2, <2>3
<1>3. CASE v # 12 /\ ~viaPsk
  <2>1. PICK r \in {<<>>, <<"certificateRequest">>} :
          f = <<"encryptedExtensions">> \o r
                \o <<"certificate", "certificateVerify", "serverFinished">>
    BY <1>3 DEF Flights, Optional
  <2>2. /\ {"certificateRequest", "certificate"} \subseteq F["encryptedExtensions"]
        /\ "certificate" \in F["certificateRequest"]
        /\ "certificateVerify" \in F["certificate"] /\ "serverFinished" \in F["certificateVerify"]
    BY <1>3 DEF NextIn
  <2> HIDE DEF F
  <2> DEFINE a == <<"encryptedExtensions">> \o r
             z == <<"certificate", "certificateVerify", "serverFinished">>
  <2>3. /\ Runs(<<"encryptedExtensions">>, F, "encryptedExtensions", "encryptedExtensions")
        /\ Runs(<<"certificateRequest">>, F, "certificateRequest", "certificateRequest")
    BY <1>0, RunsOne
  <2>4. Runs(z, F, "certificate", "serverFinished")
    BY <1>0, <2>2, RunsThree
  <2>5. \/ Runs(a, F, "encryptedExtensions", "encryptedExtensions")
        \/ Runs(a, F, "encryptedExtensions", "certificateRequest")
    <3>1. CASE r = <<>>
      <4>1. a = <<"encryptedExtensions">>
        BY <2>3, <3>1, ConcatEmptySeq DEF Runs
      <4> QED
        BY <2>3, <4>1
    <3>2. CASE r = <<"certificateRequest">>
      BY <2>2, <2>3, <3>2, RunsJoin
    <3> QED
      BY <3>1, <3>2
  <2>6. Runs(a \o z, F, "encryptedExtensions", "serverFinished")
    <3> HIDE DEF a, z
    <3> QED
      BY <2>2, <2>4, <2>5, RunsJoin
  <2> QED
    BY <1>3, <2>1, <2>6 DEF F
<1> QED
  BY <1>1, <1>2, <1>3

\* What a flight says after its first messages.
Continues(k, t, f) ==
  Len(k) < Len(f) /\ f[Len(k) + 1] = t /\ \A i \in 1..Len(k) : f[i] = k[i]

\* Where a flight begins with what was said and one more.
LEMMA PrefixContinues ==
  ASSUME NEW S, NEW k \in Seq(S), NEW t \in S, NEW f \in Seq(S), IsPrefix(Append(k, t), f)
  PROVE  Continues(k, t, f)
PROOF
<1> DEFINE x == Append(k, t)
           n == Len(k) + 1
<1>1. /\ Len(k) \in Nat /\ Len(f) \in Nat /\ x \in Seq(S) /\ Len(x) = n /\ x[n] = t
      /\ \A i \in 1..Len(k) : x[i] = k[i]
  BY AppendProperties
<1>2. n <= Len(f) /\ SubSeq(x, 1, n) = SubSeq(f, 1, n)
  BY <1>1 DEF IsPrefix
<1> HIDE DEF x
<1>3. /\ \A i \in 1..(n - 1 + 1) : SubSeq(x, 1, n)[i] = x[1 + i - 1]
      /\ \A i \in 1..(n - 1 + 1) : SubSeq(f, 1, n)[i] = f[1 + i - 1]
  <2>1. 1 \in Int /\ n \in Int /\ \A i \in 1..n : x[i] \in S /\ f[i] \in S
    BY <1>1, <1>2
  <2> HIDE DEF n
  <2> QED
    BY <2>1, SubSeqProperties
<1>4. ASSUME NEW i \in 1..n PROVE f[i] = x[i]
  <2>1. i \in 1..(n - 1 + 1) /\ 1 + i - 1 = i
    BY <1>1
  <2> QED
    BY <1>2, <1>3, <2>1
<1> QED
  BY <1>1, <1>2, <1>4 DEF Continues

\* The next correct message opens a flight, or follows the last one said in it.
LEMMA NextSaid ==
  ASSUME wire \in Seq(WireTypes), NEW m, m.type \in Plain, CorrectLater(m)
  PROVE  /\ Len(Said) = 0 =>
              m.type = IF conn.version = 12 THEN "certificate" ELSE "encryptedExtensions"
         /\ Len(Said) > 0 => m.type \in NextIn(conn.version, conn.resumed)[Said[Len(Said)]]
PROOF
<1> DEFINE F == NextIn(conn.version, conn.resumed)
           first == IF conn.version = 12 THEN "certificate" ELSE "encryptedExtensions"
           t == m.type
<1>1. PICK f \in Flights(conn.version, conn.resumed) : IsPrefix(Append(Said, t), f)
  BY DEF CorrectLater, Said
<1>2. Runs(f, F, first, "serverFinished")
  BY FlightRuns
<1>3. Said \in Seq(Plain) /\ f \in Seq(Plain)
  BY <1>2, KeepType DEF Said, Runs
<1>4. Continues(Said, t, f)
  BY <1>1, <1>3, PrefixContinues
<1> DEFINE n == Len(Said)
<1>5. n \in Nat /\ Len(f) \in Nat
  BY <1>3
<1>6. n < Len(f) /\ f[n + 1] = t /\ \A i \in 1..n : f[i] = Said[i]
  BY <1>4 DEF Continues
<1>7. f[1] = first /\ \A i \in 1..(Len(f) - 1) : f[i + 1] \in F[f[i]]
  BY <1>2 DEF Runs
<1> HIDE DEF F, first, t, n
<1>8. n = 0 => t = first
  BY <1>6, <1>7
<1>9. n > 0 => t \in F[Said[n]]
  <2> SUFFICES ASSUME n > 0 PROVE t \in F[Said[n]]
    OBVIOUS
  <2>1. n \in 1..n /\ n \in 1..(Len(f) - 1)
    BY <1>5, <1>6
  <2>2. f[n] = Said[n] /\ f[n + 1] \in F[f[n]]
    BY <1>6, <1>7, <2>1
  <2> QED
    BY <1>6, <2>2
<1> QED
  BY <1>8, <1>9 DEF F, first, t, n

\* It is one that the stage expects, and a status only if one was promised.
LEMMA StageNext ==
  ASSUME HashInv, OnCourse, conn.at \in Stages \ {"serverHello", "helloAfterRetry"},
         NEW m, m.type \in Plain, CorrectLater(m)
  PROVE  m.type \in Expected[conn.at] /\ (m.type = "certificateStatus" => conn.status)
PROOF
<1> DEFINE F == NextIn(conn.version, conn.resumed)
           t == m.type
<1>1. /\ Len(Said) = 0 => t = IF conn.version = 12 THEN "certificate" ELSE "encryptedExtensions"
      /\ Len(Said) > 0 => t \in F[Said[Len(Said)]]
  BY NextSaid DEF HashInv, TranscriptExact
<1>2. /\ conn.at \in Stages13 => conn.version = 13
      /\ conn.at \in Stages12 => conn.version = 12
      /\ conn.at \in Stages13 \cup Stages12 \cup {"serverFinished"}
  BY StageNames DEF HashInv, Negotiated
<1>3. /\ conn.at \in NothingSaid => Len(Said) = 0
      /\ conn.at \in DOMAIN LastSaid => Len(Said) > 0 /\ Said[Len(Said)] = LastSaid[conn.at]
      /\ conn.at \in {"certOrRequest", "certificate", "certificateVerify"} => ~conn.resumed
  BY DEF OnCourse, SaidTo
<1>4. conn.at \notin NothingSaid => t \in F[LastSaid[conn.at]]
  <2>1. conn.at \notin NothingSaid => conn.at \in DOMAIN LastSaid
    BY <1>2 DEF NothingSaid, LastSaid, Stages13, Stages12
  <2> QED
    BY <1>1, <1>3, <2>1
<1>5. CASE conn.at \in {"encryptedExtensions", "certificate12"}
  <2>1. Len(Said) = 0
    BY <1>3, <1>5 DEF NothingSaid
  <2>2. t = IF conn.at = "certificate12" THEN "certificate" ELSE "encryptedExtensions"
    BY <1>1, <1>2, <1>5, <2>1 DEF Stages13, Stages12
  <2> QED
    BY <1>5, <2>2 DEF Expected
<1>6. CASE conn.at \in {"certOrRequest", "certificate", "certificateVerify"}
  <2>1. conn.version = 13 /\ ~conn.resumed
    BY <1>2, <1>3, <1>6 DEF Stages13
  <2>2. t \in F[LastSaid[conn.at]]
    BY <1>4, <1>6 DEF NothingSaid
  <2>3. F = [encryptedExtensions |-> {"certificateRequest", "certificate"},
             certificateRequest  |-> {"certificate"},
             certificate         |-> {"certificateVerify"},
             certificateVerify   |-> {"serverFinished"}]
    BY <2>1 DEF NextIn
  <2> HIDE DEF F
  <2>4. /\ F["encryptedExtensions"] = {"certificateRequest", "certificate"}
        /\ F["certificateRequest"] = {"certificate"}
        /\ F["certificate"] = {"certificateVerify"}
    BY <2>3
  <2>5. /\ LastSaid["certOrRequest"] = "encryptedExtensions"
        /\ LastSaid["certificate"] = "certificateRequest"
        /\ LastSaid["certificateVerify"] = "certificate"
    BY DEF LastSaid
  <2> QED
    BY <1>6, <2>2, <2>4, <2>5 DEF Expected
<1>7. CASE conn.at \in Stages12 \ {"certificate12"}
  <2>1. conn.version = 12
    BY <1>2, <1>7
  <2>2. t \in F[LastSaid[conn.at]]
    BY <1>4, <1>7 DEF NothingSaid, Stages12
  <2>3. /\ F["certificate"] = {"serverKeyExchange"}
                                 \cup (IF conn.status THEN {"certificateStatus"} ELSE {})
        /\ F["certificateStatus"] = {"serverKeyExchange"}
        /\ F["serverKeyExchange"] = {"certificateRequest", "serverHelloDone"}
        /\ F["certificateRequest"] = {"serverHelloDone"}
        /\ F["serverHelloDone"] = {"ccs"}
    BY <2>1 DEF NextIn
  <2> HIDE DEF F
  <2>4. /\ LastSaid["statusOrKeys"] = "certificate"
        /\ LastSaid["serverKeyExchange"] = "certificateStatus"
        /\ LastSaid["requestOrDone"] = "serverKeyExchange"
        /\ LastSaid["serverHelloDone"] = "certificateRequest"
        /\ LastSaid["ccs"] = "serverHelloDone"
    BY DEF LastSaid
  <2> QED
    BY <1>7, <2>2, <2>3, <2>4 DEF Expected, Stages12
<1>8. CASE conn.at = "serverFinished"
  <2>1. t \in F[LastSaid["serverFinished"]]
    BY <1>4, <1>8 DEF NothingSaid
  <2>2. F[LastSaid["serverFinished"]] = {"serverFinished"}
    BY DEF NextIn, LastSaid
  <2> QED
    BY <1>8, <2>1, <2>2 DEF Expected
<1> QED
  BY <1>2, <1>5, <1>6, <1>7, <1>8 DEF Stages13


\* A correct hello is accepted where hellos are expected.
LEMMA CorrectHelloAccepted ==
  ASSUME ~CookieOnly, OnCourse, conn.at \in Stages, NEW m \in Messages, Correct(m),
         m.type \in {"serverHello", "helloRetryRequest"}
  PROVE  Accepts(m)
PROOF
<1>1. m.is = "good"
  BY DEF Correct
<1>2. conn.at \in {"serverHello", "helloAfterRetry"} /\ m \in Hellos
  <2>1. m \notin Others
    BY DEF Others, Plain
  <2> QED
    BY <2>1 DEF Messages
<1>3. /\ conn.at = "serverHello" => wire = <<"clientHello">> /\ Len(wire) = 1
      /\ conn.at = "helloAfterRetry" => Len(wire) = 3 /\ wire # <<"clientHello">>
  BY DEF OnCourse
<1>4. CASE m.type = "helloRetryRequest"
  <2>1. wire = <<"clientHello">> /\ RetryFits(m)
    BY <1>4 DEF Correct, CorrectRetry, RetryFits
  <2>2. conn.at = "serverHello"
    BY <1>2, <1>3, <2>1
  <2>3. m.type \in Expected[conn.at]
    BY <1>4, <2>2 DEF Expected
  <2> QED
    BY <1>1, <1>4, <2>1, <2>3 DEF Accepts, Proves, Extended
<1>5. CASE m.type = "serverHello"
  <2>1. CorrectHello(m)
    BY <1>5 DEF Correct
  <2>2. m.type \in Expected[conn.at]
    BY <1>2, <1>5 DEF Expected
  <2>3. m.version \in {12, 13}
    BY <1>2, <1>5 DEF Hellos
  <2>4. CASE m.version = 13
    <3>1. HelloFits13(m)
      <4>1. /\ m.version \in conn.offer /\ m.suite \in SuitesOf(m.version) /\ m.echo /\ ~m.more
            /\ Len(wire) > 1 => m.suite = conn.suite
            /\ m.selects # "none" =>
                 m.selects = "first" /\ conn.psk # NoTicket /\ conn.psk.hash = m.suite
        BY <2>1, <2>4 DEF CorrectHello
      <4>2. conn.at = "helloAfterRetry" => Len(wire) = 3
        BY DEF OnCourse
      <4>3. PskFits(m)
        BY <4>1 DEF PskFits
      <4>4. conn.at = "helloAfterRetry" => m.suite = conn.suite
        <5> SUFFICES ASSUME conn.at = "helloAfterRetry" PROVE m.suite = conn.suite
          OBVIOUS
        <5> DEFINE n == Len(wire)
        <5>1. n = 3
          BY <4>2
        <5> HIDE DEF n
        <5>2. n > 1
          BY <5>1
        <5> QED
          BY <4>1, <5>2 DEF n
      <4>5. m.suite \in SuitesOf(13)
        BY <2>4, <4>1
      <4> QED
        BY <4>1, <4>3, <4>4, <4>5 DEF HelloFits13
    <3> QED
      BY <1>1, <1>5, <2>2, <2>4, <3>1 DEF Accepts, Proves, Extended
  <2>5. CASE m.version = 12
    <3>1. conn.at = "serverHello"
      BY <1>2, <1>3, <2>1, <2>5 DEF CorrectHello
    <3>2. HelloFits12(m) /\ ExtensionFits(m)
      BY <1>5, <2>1, <2>5, <3>1 DEF CorrectHello, HelloFits12, ExtensionFits, Offered
    <3> QED
      BY <1>1, <1>5, <2>2, <2>5, <3>2 DEF Accepts, Proves, Extended
  <2> QED
    BY <2>3, <2>4, <2>5
<1> QED
  BY <1>4, <1>5

\* So is every later message where the server has said all that comes before it,
\* unless it is a ChangeCipherSpec of the compatibility mode, which is dropped.
LEMMA CorrectLaterAccepted ==
  ASSUME HandshakeAssumption, HashInv, OnCourse, conn.at \in Stages,
         NEW m \in Messages, Correct(m), m.type \notin {"serverHello", "helloRetryRequest"}
  PROVE  Accepts(m) \/ Drops(m)
PROOF
<1>0. CASE m.type = "ccs" /\ CorrectDummy
  <2>1. m.is = "good" /\ conn.version = 13 /\ conn.ignored = 0
    BY <1>0 DEF Correct, CorrectDummy
  <2>2. 0 < MaxIgnored
    BY DEF HandshakeAssumption
  <2> QED
    BY <1>0, <2>1, <2>2 DEF Drops
<1> SUFFICES ASSUME CorrectLater(m) PROVE Accepts(m)
  BY <1>0 DEF Correct
<1>1. m.is = "good" /\ CorrectLater(m)
  BY DEF Correct
<1>2. m \in Others /\ m.type \in Plain
  <2>1. m \notin Hellos
    BY DEF Hellos
  <2>2. m \in Others
    BY <2>1 DEF Messages
  <2> QED
    BY <2>2 DEF Others, Plain
<1>3. conn.at \notin {"serverHello", "helloAfterRetry"}
  <2>1. "serverHello" \in Range(wire)
    BY <1>1 DEF CorrectLater
  <2>2. wire = <<"clientHello">> => "serverHello" \notin Range(wire)
    BY DEF Range
  <2> QED
    BY <2>1, <2>2 DEF OnCourse
<1>4. m.type \in Expected[conn.at] /\ (m.type = "certificateStatus" => conn.status)
  BY <1>1, <1>2, <1>3, StageNext
<1>5. /\ m.type = "encryptedExtensions" => m.ext \in {"none", "alpn"}
      /\ m.type = "certificate" => m.ext \in {"none", "status"}
      /\ m.type \in {"serverFinished", "serverHelloDone"} => ~m.more
  BY <1>1 DEF CorrectLater
<1>6. m.type \in Extended => ExtensionFits(m)
  BY <1>5 DEF Extended, ExtensionFits, Offered
<1>7. Proves(m)
  <2>1. /\ m.type = "certificateVerify" => conn.at = "certificateVerify"
        /\ m.type = "serverHelloDone" => conn.at \in {"requestOrDone", "serverHelloDone"}
    BY <1>4, StageOf
  <2>2. /\ conn.at = "certificateVerify" => conn.chain = "good"
        /\ conn.at \in {"requestOrDone", "serverHelloDone"} =>
             conn.chain = "good" /\ conn.ske = "good"
    BY DEF OnCourse, Stages12
  <2> QED
    BY <1>1, <2>1, <2>2 DEF Proves
<1>8. m.type = "ccs" => ~conn.pending
  <2>1. m.type = "ccs" => conn.at = "ccs"
    BY <1>4, StageOf
  <2> QED
    BY <2>1 DEF OnCourse
<1> QED
  BY <1>1, <1>4, <1>5, <1>6, <1>7, <1>8 DEF Accepts


-----------------------------------------------------------------------------
(***************************************************************************)
(* The course, message by message.                                         *)
(***************************************************************************)
\* What reading a message adds to what was said.
LEMMA SaidLaws ==
  ASSUME NEW w \in Seq(WireTypes), NEW t \in WireTypes
  PROVE  /\ t \notin Plain => Keep(Append(w, t), Plain) = Keep(w, Plain)
         /\ t \in Plain =>
              LET said == Keep(Append(w, t), Plain) IN Len(said) > 0 /\ said[Len(said)] = t
PROOF
<1> DEFINE k == Keep(w, Plain)
<1>1. Keep(Append(w, t), Plain) = IF t \in Plain THEN Append(k, t) ELSE k
  BY KeepLaws
<1>2. k \in Seq(Plain)
  BY KeepType
<1> HIDE DEF k
<1>3. ASSUME t \in Plain PROVE Len(Append(k, t)) > 0 /\ Append(k, t)[Len(Append(k, t))] = t
  BY <1>2, <1>3, AppendProperties
<1> QED
  BY <1>1, <1>3 DEF k

\* A message the client does not answer, in a connection whose server was correct so far.
LEMMA ReadOnCourse ==
  ASSUME HashInv, LegalInv, NEW m, Reads(m, <<>>), legal'
  PROVE  /\ OnCourse /\ conn.at \in Stages /\ m.type \in Expected[conn.at]
         /\ m.is = "good" /\ Correct(m) /\ wire' = Append(wire, m.type)
         /\ m.type \notin Plain => Said' = Said
         /\ m.type \in Plain => Len(Said') > 0 /\ Said'[Len(Said')] = m.type
PROOF
<1>1. legal /\ Correct(m) /\ OnCourse
  BY DEF Reads, LegalInv
<1>2. /\ conn.at \in Stages /\ m.type \in Expected[conn.at] /\ m.type \in WireTypes
      /\ wire \in Seq(WireTypes) /\ wire' = Append(wire, m.type) \o <<>>
  BY ReadsWire
<1>3. wire' = Append(wire, m.type)
  <2>1. Append(wire, m.type) \in Seq(WireTypes)
    BY <1>2, AppendProperties
  <2> QED
    BY <1>2, <2>1, ConcatEmptySeq
<1>4. Said' = Keep(Append(wire, m.type), Plain)
  BY <1>3 DEF Said
<1>5. m.is = "good"
  BY <1>1 DEF Correct
<1> QED
  BY <1>1, <1>2, <1>3, <1>4, <1>5, SaidLaws DEF Said

\* After the hello nothing of the flight is said yet.
LEMMA ServerHelloCourse ==
  ASSUME HInv, HashInv, LegalInv, NEW m, ServerHello13(m) \/ ServerHello12(m)
  PROVE  LegalInv'
PROOF
<1> SUFFICES ASSUME legal' PROVE OnCourse'
  BY DEF LegalInv
<1>0. DOMAIN conn = DOMAIN Fresh /\ DOMAIN Fresh =
        {"at", "key", "offer", "psk", "version", "suite", "transcript", "hashes", "resumed",
         "requested", "status", "chain", "ske", "pending", "ignored", "peer", "confirmed"}
  BY DEF HInv, HTypeOK, Fresh
<1>1. Reads(m, <<>>) /\ m.type = "serverHello"
  BY DEF ServerHello13, ServerHello12
<1>2. conn.at \in {"serverHello", "helloAfterRetry"} /\ OnCourse /\ Said' = Said
  BY <1>1, ReadOnCourse, StageOf DEF Plain
<1>3. Len(Said') = 0
  BY <1>2 DEF OnCourse, SaidTo, NothingSaid
<1>4. conn'.at \in {"encryptedExtensions", "certificate12"}
  BY <1>0 DEF ServerHello13, ServerHello12, Hash
<1>5. SaidTo(Said, conn.at)'
  BY <1>3, <1>4 DEF SaidTo, NothingSaid, LastSaid
<1> QED
  BY <1>4, <1>5 DEF OnCourse, Stages12

\* The messages of the TLS 1.3 flight up to its Finished.
LEMMA EncryptedExtensionsCourse ==
  ASSUME HInv, HashInv, LegalInv, NEW m, EncryptedExtensions(m)
  PROVE  LegalInv'
PROOF
<1> SUFFICES ASSUME legal' PROVE OnCourse'
  BY DEF LegalInv
<1>0. DOMAIN conn = DOMAIN Fresh /\ DOMAIN Fresh =
        {"at", "key", "offer", "psk", "version", "suite", "transcript", "hashes", "resumed",
         "requested", "status", "chain", "ske", "pending", "ignored", "peer", "confirmed"}
  BY DEF HInv, HTypeOK, Fresh
<1>1. Reads(m, <<>>) /\ m.type = "encryptedExtensions"
  BY DEF EncryptedExtensions
<1>2. Len(Said') > 0 /\ Said'[Len(Said')] = "encryptedExtensions"
  BY <1>1, ReadOnCourse DEF Plain
<1>3. conn.version = 13
  BY <1>1, ReadOnCourse, StageOf DEF HashInv, Negotiated, Stages13
<1>4. /\ conn'.at = IF conn.resumed THEN "serverFinished" ELSE "certOrRequest"
      /\ conn'.version = conn.version /\ conn'.resumed = conn.resumed
  BY <1>0 DEF EncryptedExtensions, Hash
<1>5. SaidTo(Said, conn.at)'
  BY <1>2, <1>3, <1>4 DEF SaidTo, NothingSaid, LastSaid
<1> QED
  BY <1>4, <1>5 DEF OnCourse, Stages12

\* A request for a certificate, in either version.
LEMMA CertificateRequestCourse ==
  ASSUME HInv, HashInv, LegalInv, NEW m, CertificateRequest(m)
  PROVE  LegalInv'
PROOF
<1> SUFFICES ASSUME legal' PROVE OnCourse'
  BY DEF LegalInv
<1>0. DOMAIN conn = DOMAIN Fresh /\ DOMAIN Fresh =
        {"at", "key", "offer", "psk", "version", "suite", "transcript", "hashes", "resumed",
         "requested", "status", "chain", "ske", "pending", "ignored", "peer", "confirmed"}
  BY DEF HInv, HTypeOK, Fresh
<1>1. Reads(m, <<>>) /\ m.type = "certificateRequest"
  BY DEF CertificateRequest
<1>2. /\ Len(Said') > 0 /\ Said'[Len(Said')] = "certificateRequest" /\ OnCourse
      /\ conn.at \in {"certOrRequest", "requestOrDone"}
  BY <1>1, ReadOnCourse, StageOf DEF Plain
<1>3. /\ conn.at = "certOrRequest" => conn.version = 13 /\ ~conn.resumed
      /\ conn.at = "requestOrDone" => conn.version = 12 /\ conn.chain = "good" /\ conn.ske = "good"
  BY <1>2 DEF HashInv, Negotiated, Stages13, Stages12, OnCourse
<1>4. /\ conn'.at = IF conn.version = 13 THEN "certificate" ELSE "serverHelloDone"
      /\ conn'.version = conn.version /\ conn'.resumed = conn.resumed
      /\ conn'.chain = conn.chain /\ conn'.ske = conn.ske
  BY <1>0 DEF CertificateRequest, Hash
<1>5. SaidTo(Said, conn.at)'
  BY <1>2, <1>3, <1>4 DEF SaidTo, NothingSaid, LastSaid
<1> QED
  BY <1>2, <1>3, <1>4, <1>5 DEF OnCourse, Stages12

\* The Certificate, which in a correct flight is the server's own.
LEMMA CertificateCourse ==
  ASSUME HInv, HashInv, LegalInv, NEW m, Certificate(m)
  PROVE  LegalInv'
PROOF
<1> SUFFICES ASSUME legal' PROVE OnCourse'
  BY DEF LegalInv
<1>0. DOMAIN conn = DOMAIN Fresh /\ DOMAIN Fresh =
        {"at", "key", "offer", "psk", "version", "suite", "transcript", "hashes", "resumed",
         "requested", "status", "chain", "ske", "pending", "ignored", "peer", "confirmed"}
  BY DEF HInv, HTypeOK, Fresh
<1>1. Reads(m, <<>>) /\ m.type = "certificate"
  BY DEF Certificate
<1>2. /\ Len(Said') > 0 /\ Said'[Len(Said')] = "certificate" /\ OnCourse /\ m.is = "good"
      /\ conn.at \in {"certOrRequest", "certificate", "certificate12"}
  BY <1>1, ReadOnCourse, StageOf DEF Plain
<1>3. IF conn.at = "certificate12" THEN conn.version = 12 ELSE conn.version = 13 /\ ~conn.resumed
  BY <1>2 DEF HashInv, Negotiated, Stages13, Stages12, OnCourse
<1>4. /\ conn'.at = IF conn.version = 13 THEN "certificateVerify" ELSE "statusOrKeys"
      /\ conn'.version = conn.version /\ conn'.resumed = conn.resumed /\ conn'.chain = m.is
  <2>1. conn' = [Hash(m, <<>>) EXCEPT
                   !.at = IF conn.version = 13 THEN "certificateVerify" ELSE "statusOrKeys",
                   !.chain = m.is,
                   !.hashes.signature = Append(conn.transcript, m.type)]
    BY DEF Certificate
  <2> QED
    BY <1>0, <2>1 DEF Hash
<1>5. SaidTo(Said, conn.at)'
  BY <1>2, <1>4 DEF SaidTo, NothingSaid, LastSaid
<1> QED
  BY <1>2, <1>3, <1>4, <1>5 DEF OnCourse, Stages12

\* Its proof, after which only the Finished is missing.
LEMMA CertificateVerifyCourse ==
  ASSUME HInv, HashInv, LegalInv, NEW m, CertificateVerify(m)
  PROVE  LegalInv'
PROOF
<1> SUFFICES ASSUME legal' PROVE OnCourse'
  BY DEF LegalInv
<1>0. DOMAIN conn = DOMAIN Fresh /\ DOMAIN Fresh =
        {"at", "key", "offer", "psk", "version", "suite", "transcript", "hashes", "resumed",
         "requested", "status", "chain", "ske", "pending", "ignored", "peer", "confirmed"}
  BY DEF HInv, HTypeOK, Fresh
<1>1. Reads(m, <<>>) /\ m.type = "certificateVerify"
  BY DEF CertificateVerify
<1>2. /\ Len(Said') > 0 /\ Said'[Len(Said')] = "certificateVerify" /\ OnCourse
      /\ conn.at = "certificateVerify"
  BY <1>1, ReadOnCourse, StageOf DEF Plain
<1>3. conn.version = 13 /\ ~conn.resumed
  BY <1>2 DEF HashInv, Negotiated, Stages13, OnCourse
<1>4. conn'.at = "serverFinished" /\ conn'.version = conn.version /\ conn'.resumed = conn.resumed
  BY <1>0 DEF CertificateVerify, Hash
<1>5. SaidTo(Said, conn.at)'
  BY <1>2, <1>3, <1>4 DEF SaidTo, NothingSaid, LastSaid
<1> QED
  BY <1>4, <1>5 DEF OnCourse, Stages12


\* The TLS 1.2 server's certificate status and key exchange.
LEMMA KeyExchangeCourse ==
  ASSUME HInv, HashInv, LegalInv, NEW m, CertificateStatus(m) \/ ServerKeyExchange(m)
  PROVE  LegalInv'
PROOF
<1> SUFFICES ASSUME legal' PROVE OnCourse'
  BY DEF LegalInv
<1>0. DOMAIN conn = DOMAIN Fresh /\ DOMAIN Fresh =
        {"at", "key", "offer", "psk", "version", "suite", "transcript", "hashes", "resumed",
         "requested", "status", "chain", "ske", "pending", "ignored", "peer", "confirmed"}
  BY DEF HInv, HTypeOK, Fresh
<1>1. Reads(m, <<>>) /\ m.type \in {"certificateStatus", "serverKeyExchange"}
  BY DEF CertificateStatus, ServerKeyExchange
<1>2. /\ Len(Said') > 0 /\ Said'[Len(Said')] = m.type /\ OnCourse /\ m.is = "good"
      /\ conn.at \in {"statusOrKeys", "serverKeyExchange"}
  BY <1>1, ReadOnCourse, StageOf DEF Plain
<1>3. conn.chain = "good"
  BY <1>2 DEF Stages12, OnCourse
<1>4. CASE CertificateStatus(m)
  <2>1. conn'.at = "serverKeyExchange" /\ conn'.chain = conn.chain /\ m.type = "certificateStatus"
    BY <1>0, <1>4 DEF CertificateStatus, Hash
  <2>2. SaidTo(Said, conn.at)'
    BY <1>2, <2>1 DEF SaidTo, NothingSaid, LastSaid
  <2> QED
    BY <1>3, <2>1, <2>2 DEF OnCourse, Stages12
<1>5. CASE ServerKeyExchange(m)
  <2>1. /\ conn'.at = "requestOrDone" /\ conn'.chain = conn.chain /\ conn'.ske = m.is
        /\ m.type = "serverKeyExchange"
    BY <1>0, <1>5 DEF ServerKeyExchange, Hash
  <2>2. SaidTo(Said, conn.at)'
    BY <1>2, <2>1 DEF SaidTo, NothingSaid, LastSaid
  <2> QED
    BY <1>2, <1>3, <2>1, <2>2 DEF OnCourse, Stages12
<1> QED
  BY <1>4, <1>5

\* Its ServerHelloDone.  The client's second flight says nothing of the server's.
LEMMA ServerHelloDoneCourse ==
  ASSUME HInv, HashInv, LegalInv, NEW m, ServerHelloDone(m)
  PROVE  LegalInv'
PROOF
<1> DEFINE mine == Append(Empty \o <<"clientKeyExchange">>, "clientFinished")
           w1 == Append(wire, "serverHelloDone")
           w2 == Answered(w1)
           w3 == Append(w2, "clientKeyExchange")
           w4 == Append(w3, "clientFinished")
           last(w) == Len(Keep(w, Plain)) > 0
                      /\ Keep(w, Plain)[Len(Keep(w, Plain))] = "serverHelloDone"
<1> SUFFICES ASSUME legal' PROVE OnCourse'
  BY DEF LegalInv
<1>0. DOMAIN conn = DOMAIN Fresh /\ DOMAIN Fresh =
        {"at", "key", "offer", "psk", "version", "suite", "transcript", "hashes", "resumed",
         "requested", "status", "chain", "ske", "pending", "ignored", "peer", "confirmed"}
  BY DEF HInv, HTypeOK, Fresh
<1>1. m.type = "serverHelloDone" /\ Reads(m, mine)
  BY DEF ServerHelloDone
<1>2. legal /\ Correct(m) /\ OnCourse
  BY <1>1 DEF Reads, LegalInv
<1>3. /\ conn.at \in {"requestOrDone", "serverHelloDone"}
      /\ wire \in Seq(WireTypes) /\ wire' = w1 \o mine
  <2> HIDE DEF mine
  <2> QED
    BY <1>1, ReadsWire, StageOf
<1>4. /\ "serverHelloDone" \in WireTypes /\ "serverHelloDone" \in Plain
      /\ {"clientCertificate", "clientKeyExchange", "clientFinished"} \subseteq WireTypes \ Plain
  BY DEF WireTypes, Handshake, Plain
<1>5. w1 \in Seq(WireTypes) /\ last(w1)
  BY <1>3, <1>4, SaidLaws
<1> HIDE DEF w1
<1>6. w2 \in Seq(WireTypes) /\ Keep(w2, Plain) = Keep(w1, Plain)
  <2>1. Keep(Append(w1, "clientCertificate"), Plain) = Keep(w1, Plain)
    BY <1>4, <1>5, SaidLaws
  <2> QED
    BY <1>4, <1>5, <2>1 DEF Answered
<1>7. w1 \o (Empty \o <<"clientKeyExchange">>) = w3
  BY <1>4, <1>5, AnswerIs
<1>8. wire' = w4
  <2>1. Empty \o <<"clientKeyExchange">> \in Seq(WireTypes)
    <3>1. "clientCertificate" \in WireTypes /\ "clientKeyExchange" \in WireTypes
      BY <1>4
    <3>2. Empty \in Seq(WireTypes) /\ <<"clientKeyExchange">> \in Seq(WireTypes)
      BY <3>1 DEF Empty
    <3> QED
      BY <3>2
  <2> DEFINE e == Empty \o <<"clientKeyExchange">>
  <2>2. "clientFinished" \in WireTypes /\ wire' = w1 \o Append(e, "clientFinished")
    BY <1>3, <1>4
  <2> HIDE DEF e, w3
  <2>3. w1 \o Append(e, "clientFinished") = Append(w1 \o e, "clientFinished")
    BY <1>5, <2>1, <2>2 DEF e
  <2>4. w1 \o e = w3
    BY <1>7 DEF e
  <2> QED
    BY <2>2, <2>3, <2>4
<1> HIDE DEF w2
<1>9. w3 \in Seq(WireTypes) /\ Keep(w3, Plain) = Keep(w2, Plain)
  BY <1>4, <1>6, SaidLaws
<1> HIDE DEF w3
<1>10. Keep(w4, Plain) = Keep(w3, Plain)
  BY <1>4, <1>9, SaidLaws
<1> HIDE DEF w4
<1>11. Len(Said') > 0 /\ Said'[Len(Said')] = "serverHelloDone"
  BY <1>5, <1>6, <1>8, <1>9, <1>10 DEF Said
<1>12. conn'.at = "ccs" /\ conn'.chain = conn.chain /\ conn'.pending = m.more
  <2>1. PICK through, application :
          conn' = [Hash(m, mine) EXCEPT
                     !.at = "ccs", !.peer = Vouched(conn.chain, conn.ske),
                     !.hashes.application = application, !.hashes.clientFinished = through]
    BY DEF ServerHelloDone
  <2> HIDE DEF mine
  <2> QED
    BY <1>0, <2>1 DEF Hash
<1>13. ~m.more
  BY <1>1, <1>2 DEF Correct, CorrectLater
<1>14. conn.chain = "good"
  BY <1>2, <1>3 DEF OnCourse, Stages12
<1>15. SaidTo(Said, conn.at)'
  BY <1>11, <1>12 DEF SaidTo, NothingSaid, LastSaid
<1> QED
  BY <1>12, <1>13, <1>14, <1>15 DEF OnCourse, Stages12

\* The end of the flight in either version.
LEMMA FinishingCourse ==
  ASSUME HInv, HashInv, LegalInv, NEW m, ChangeCipherSpec(m) \/ Finished12(m) \/ Finished13(m)
  PROVE  LegalInv'
PROOF
<1> SUFFICES ASSUME legal' PROVE OnCourse'
  BY DEF LegalInv
<1>0. DOMAIN conn = DOMAIN Fresh /\ DOMAIN Fresh =
        {"at", "key", "offer", "psk", "version", "suite", "transcript", "hashes", "resumed",
         "requested", "status", "chain", "ske", "pending", "ignored", "peer", "confirmed"}
  BY DEF HInv, HTypeOK, Fresh
<1>1. CASE ChangeCipherSpec(m)
  <2>1. Reads(m, <<>>) /\ m.type = "ccs"
    BY <1>1 DEF ChangeCipherSpec
  <2>2. /\ Len(Said') > 0 /\ Said'[Len(Said')] = "ccs" /\ conn.at = "ccs"
    BY <2>1, ReadOnCourse, StageOf DEF Plain
  <2>3. conn.version = 12
    BY <2>2 DEF HashInv, Negotiated, Stages12
  <2>4. conn'.at = "serverFinished" /\ conn'.version = conn.version
    BY <1>0, <1>1 DEF ChangeCipherSpec
  <2>5. SaidTo(Said, conn.at)'
    BY <2>2, <2>3, <2>4 DEF SaidTo, NothingSaid, LastSaid
  <2> QED
    BY <2>4, <2>5 DEF OnCourse, Stages12
<1>2. CASE Finished12(m) \/ Finished13(m)
  <2>1. conn'.at = "open"
    <3>1. CASE Finished12(m)
      BY <1>0, <3>1 DEF Finished12
    <3>2. CASE Finished13(m)
      <4>1. PICK h : conn' = [h EXCEPT
                       !.at = "open", !.confirmed = m.is,
                       !.hashes.serverFinished = conn.transcript,
                       !.hashes.application = Append(conn.transcript, m.type),
                       !.hashes.clientFinished = Append(conn.transcript, m.type) \o Empty]
                     /\ DOMAIN h = DOMAIN conn
        BY <3>2 DEF Finished13, Hash
      <4> QED
        BY <1>0, <4>1
    <3> QED
      BY <1>2, <3>1, <3>2
  <2>2. SaidTo(Said, conn.at)'
    BY <2>1 DEF SaidTo, NothingSaid, LastSaid
  <2> QED
    BY <2>1, <2>2 DEF OnCourse, Stages12
<1> QED
  BY <1>1, <1>2

\* A sequence of one and two members more.
LEMMA OneMore ==
  ASSUME NEW S, NEW w \in Seq(S), NEW t \in S
  PROVE  /\ Append(w, t) \in Seq(S) /\ Len(Append(w, t)) = Len(w) + 1
         /\ Range(Append(w, t)) = Range(w) \cup {t}
PROOF
<1> DEFINE x == Append(w, t)
           n == Len(w)
<1>1. /\ x \in Seq(S) /\ n \in Nat /\ Len(x) = n + 1 /\ x[n + 1] = t
      /\ \A i \in 1..n : x[i] = w[i]
  BY AppendProperties
<1>2. DOMAIN x = 1..(n + 1) /\ DOMAIN w = 1..n
  <2> HIDE DEF x
  <2> QED
    BY <1>1
<1> HIDE DEF x, n
<1>3. 1..(n + 1) = 1..n \cup {n + 1}
  BY <1>1
<1>4. Range(x) = Range(w) \cup {t}
  BY <1>1, <1>2, <1>3 DEF Range
<1> QED
  BY <1>1, <1>4 DEF x, n

\* A HelloRetryRequest, and the second ClientHello.
LEMMA HelloRetryCourse ==
  ASSUME HInv, HashInv, LegalInv, NEW m, HelloRetryRequest(m)
  PROVE  LegalInv'
PROOF
<1> DEFINE w1 == Append(wire, "helloRetryRequest")
           w2 == Append(w1, "clientHello")
<1> SUFFICES ASSUME legal' PROVE OnCourse'
  BY DEF LegalInv
<1>0. DOMAIN conn = DOMAIN Fresh /\ DOMAIN Fresh =
        {"at", "key", "offer", "psk", "version", "suite", "transcript", "hashes", "resumed",
         "requested", "status", "chain", "ske", "pending", "ignored", "peer", "confirmed"}
  BY DEF HInv, HTypeOK, Fresh
<1>1. m.type = "helloRetryRequest" /\ Reads(m, <<"clientHello">>)
  BY DEF HelloRetryRequest
<1>2. /\ conn.at = "serverHello" /\ OnCourse
      /\ wire \in Seq(WireTypes) /\ wire' = w1 \o <<"clientHello">>
  <2>1. ASSUME NEW mine, Reads(m, mine)
        PROVE  /\ wire \in Seq(WireTypes) /\ wire' = Append(wire, m.type) \o mine
               /\ conn.at \in Stages /\ m.type \in Expected[conn.at]
    BY <2>1, ReadsWire
  <2>2. conn.at = "serverHello"
    BY <1>1, <2>1, StageOf
  <2>3. OnCourse
    BY <1>1 DEF Reads, LegalInv
  <2> QED
    BY <1>1, <2>1, <2>2, <2>3
<1>3. wire = <<"clientHello">> /\ Len(Said) = 0
  BY <1>2 DEF OnCourse, SaidTo, NothingSaid
<1>4. {"helloRetryRequest", "clientHello"} \subseteq WireTypes \ Plain
  BY DEF WireTypes, Handshake, Plain
<1>5. w1 \in Seq(WireTypes) /\ Keep(w1, Plain) = Keep(wire, Plain)
  BY <1>2, <1>4, SaidLaws
<1>6. wire' = w2 /\ w2 \in Seq(WireTypes) /\ Keep(w2, Plain) = Keep(w1, Plain)
  <2>1. "clientHello" \in WireTypes \ Plain
    BY <1>4
  <2> HIDE DEF w1
  <2>2. Keep(w2, Plain) = Keep(w1, Plain)
    BY <1>5, <2>1, SaidLaws
  <2> QED
    BY <1>2, <1>5, <2>1, <2>2, AppendIsConcat
<1>7. /\ Len(w2) = Len(wire) + 1 + 1
      /\ Range(w2) = Range(wire) \cup {"helloRetryRequest"} \cup {"clientHello"}
  <2>1. "helloRetryRequest" \in WireTypes /\ "clientHello" \in WireTypes
    BY <1>4
  <2>2. Len(w1) = Len(wire) + 1 /\ Range(w1) = Range(wire) \cup {"helloRetryRequest"}
    BY <1>2, <2>1, OneMore
  <2> HIDE DEF w1
  <2>3. Len(w2) = Len(w1) + 1 /\ Range(w2) = Range(w1) \cup {"clientHello"}
    BY <1>5, <2>1, OneMore
  <2> QED
    BY <2>2, <2>3
<1>8. Len(wire') = 3 /\ "serverHello" \notin Range(wire')
  <2>1. Len(wire) = 1 /\ Range(wire) = {"clientHello"}
    BY <1>3 DEF Range
  <2> HIDE DEF w2
  <2> QED
    BY <1>6, <1>7, <2>1
<1> HIDE DEF w1, w2
<1>9. Len(Said') = 0
  BY <1>3, <1>5, <1>6 DEF Said
<1>10. conn'.at = "helloAfterRetry"
  <2>1. PICK h, psk, t :
          conn' = [conn EXCEPT !.at = "helloAfterRetry", !.version = 13, !.suite = m.suite,
                               !.transcript = t, !.psk = psk, !.hashes.binder = h]
    BY DEF HelloRetryRequest
  <2> QED
    BY <1>0, <2>1
<1>11. SaidTo(Said, conn.at)'
  BY <1>9, <1>10 DEF SaidTo, NothingSaid, LastSaid
<1> QED
  BY <1>8, <1>10, <1>11 DEF OnCourse, Stages12

\* A record that is dropped changes no stage and says nothing.
LEMMA DropCourse ==
  ASSUME HInv, LegalInv, NEW m, DropDummy(m)
  PROVE  LegalInv'
PROOF
<1>1. /\ conn'.at = conn.at /\ conn'.version = conn.version /\ conn'.resumed = conn.resumed
      /\ conn'.chain = conn.chain /\ conn'.ske = conn.ske /\ conn'.pending = conn.pending
  BY DEF DropDummy, HInv, HTypeOK, Fresh
<1>2. wire' = wire /\ (legal' => legal)
  BY DEF DropDummy
<1> QED
  BY <1>1, <1>2 DEF LegalInv, OnCourse, SaidTo, Said, LastSaid

\* What the client refuses is not correct.
LEMMA RefuseCourse ==
  ASSUME HandshakeAssumption, ~CookieOnly, HashInv, LegalInv, NEW m \in Messages, Refuse(m)
  PROVE  ~legal'
PROOF
<1> SUFFICES ASSUME legal' PROVE FALSE
  OBVIOUS
<1>1. conn.at \in Stages /\ ~Accepts(m) /\ ~Drops(m) /\ Correct(m) /\ OnCourse
  BY DEF Refuse, LegalInv
<1> QED
  BY <1>1, CorrectHelloAccepted, CorrectLaterAccepted

\* A connection that is dialled, that begins, and one that is idle again.
LEMMA BeginCourse ==
  ASSUME (\E k \in Keys : TakeTicket(k)) \/ SendHello \/ DialFails \/ Disconnect
  PROVE  OnCourse'
PROOF
<1>1. CASE SendHello
  <2>1. conn'.at = "serverHello" /\ wire' = <<"clientHello">>
    BY <1>1 DEF SendHello, ClientHello, Fresh
  <2>2. Keep(<<"clientHello">>, Plain) = <<>>
    <3>1. "clientHello" \in WireTypes /\ "clientHello" \notin Plain
      BY DEF WireTypes, Handshake, Plain
    <3>2. <<>> \in Seq(WireTypes) /\ Append(<<>>, "clientHello") = <<"clientHello">>
      OBVIOUS
    <3>3. Keep(<<>>, Plain) = <<>>
      BY <3>1, <3>2, KeepLaws
    <3>4. Keep(Append(<<>>, "clientHello"), Plain) = Keep(<<>>, Plain)
      BY <3>1, <3>2, SaidLaws
    <3> QED
      BY <3>2, <3>3, <3>4
  <2>3. Said' = <<>> /\ Len(Said') = 0
    BY <2>1, <2>2 DEF Said
  <2>4. SaidTo(Said, conn.at)'
    BY <2>1, <2>3 DEF SaidTo, NothingSaid, LastSaid
  <2> QED
    BY <2>1, <2>4 DEF OnCourse, Stages12
<1>2. CASE (\E k \in Keys : TakeTicket(k)) \/ DialFails \/ Disconnect
  <2>1. conn'.at \in {"idle", "dialling"}
    <3>1. ASSUME NEW k \in Keys, TakeTicket(k) PROVE conn'.at = "dialling"
      BY <3>1 DEF TakeTicket, Fresh
    <3> QED
      BY <1>2, <3>1 DEF DialFails, Disconnect, Fresh
  <2>2. SaidTo(Said, conn.at)'
    BY <2>1 DEF SaidTo, NothingSaid, LastSaid
  <2> QED
    BY <2>1, <2>2 DEF OnCourse, Stages12
<1> QED
  BY <1>1, <1>2

\* A ticket, which only a faulty server gets wrong.
LEMMA TicketCourse ==
  ASSUME HInv, LegalInv, NEW life, NEW good, NewSessionTicket(life, good)
  PROVE  LegalInv'
PROOF
<1> SUFFICES ASSUME legal' PROVE OnCourse'
  BY DEF LegalInv
<1>0. DOMAIN conn = DOMAIN Fresh /\ "at" \in DOMAIN Fresh
  BY DEF HInv, HTypeOK, Fresh
<1>1. good /\ conn.at = "open" /\ conn' = [conn EXCEPT !.hashes.resumption = conn.transcript]
  BY DEF NewSessionTicket
<1>2. conn'.at = "open"
  BY <1>0, <1>1
<1>3. SaidTo(Said, conn.at)'
  BY <1>2 DEF SaidTo, NothingSaid, LastSaid
<1> QED
  BY <1>2, <1>3 DEF OnCourse, Stages12

\* A handshake fails only over a message that no correct server sends, whatever it may
\* leave out or add, a compatibility ChangeCipherSpec included, unless servers ask for a
\* cookie and no key share (connect.js drive(), handshake.js, handshake12.js, record.js).
THEOREM TlsCorrectServerAccepted == ~CookieOnly => (Spec => []CorrectServerAccepted)
PROOF
<1> SUFFICES ASSUME ~CookieOnly PROVE Spec => []CorrectServerAccepted
  OBVIOUS
<1>1. Init => LegalInv
  <2> SUFFICES ASSUME Init PROVE OnCourse
    BY DEF LegalInv
  <2>1. conn.at = "idle"
    BY DEF Init, Fresh
  <2>2. SaidTo(Said, conn.at)
    BY <2>1 DEF SaidTo, NothingSaid, LastSaid
  <2> QED
    BY <2>1, <2>2 DEF OnCourse, Stages12
<1>2. HInv /\ HashInv /\ LegalInv /\ [Next]_vars => LegalInv'
  <2> SUFFICES ASSUME HInv, HashInv, LegalInv, [Next]_vars PROVE LegalInv'
    OBVIOUS
  <2>1. ASSUME NEW m \in Messages, Receive(m) PROVE LegalInv'
    <3>1. CASE Refuse(m)
      BY <3>1, RefuseCourse, HandshakeAssumption DEF LegalInv
    <3> QED
      BY <2>1, <3>1, DropCourse, HelloRetryCourse, ServerHelloCourse, EncryptedExtensionsCourse,
         CertificateRequestCourse, CertificateCourse, CertificateVerifyCourse,
         KeyExchangeCourse, ServerHelloDoneCourse, FinishingCourse DEF Receive
  <2>2. CASE (\E k \in Keys : TakeTicket(k)) \/ SendHello \/ DialFails \/ Disconnect
    BY <2>2, BeginCourse DEF LegalInv
  <2>3. ASSUME NEW life \in Lifetimes, NEW good \in BOOLEAN, NewSessionTicket(life, good)
        PROVE  LegalInv'
    BY <2>3, TicketCourse
  <2>4. CASE UNCHANGED <<conn, wire, legal>>
    BY <2>4 DEF LegalInv, OnCourse, SaidTo, Said, LastSaid
  <2>5. Close \/ Tick \/ UNCHANGED vars => UNCHANGED <<conn, wire, legal>>
    BY DEF Close, Tick, vars
  <2> QED
    BY <2>1, <2>2, <2>3, <2>4, <2>5 DEF Next
<1>3. LegalInv => CorrectServerAccepted
  BY DEF LegalInv, OnCourse, CorrectServerAccepted
<1> QED
  BY <1>1, <1>2, <1>3, HandshakeInductive, HashesInductive, PTL DEF Spec
=============================================================================
