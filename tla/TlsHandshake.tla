---------------------------- MODULE TlsHandshake ----------------------------
(***************************************************************************)
(* The client's TLS handshake, src/tls/connect.js, handshake.js and        *)
(* handshake12.js, with the parsers of handshake-messages.js, the          *)
(* transcript and the ticket store of tickets.js.  Connections are made    *)
(* one after another; what lives across them is the ticket store.          *)
(*                                                                         *)
(* The server is external: at every step it sends any message.  A message  *)
(* is its type and what the client can tell of it:                         *)
(*   is    "good", or "malformed" when its parser refuses it, or "forged"  *)
(*         when it parses and does not verify: an untrusted chain, a bad   *)
(*         signature, a wrong Finished                                     *)
(*   more  whether handshake bytes follow it in the same record            *)
(*   ext   the one extension of interest it carries                        *)
(* and, in the hellos, what the server chose.                              *)
(***************************************************************************)
EXTENDS Naturals, FiniteSets, SequencesExt

CONSTANTS Keys,       \* pool keys, the keys of the ticket store
          OfferOf,    \* the versions offered under each: a key folds the tls options in
          Lifetimes,  \* ticket lifetimes a server announces
          MaxLife,    \* MAX_LIFETIME_SEC
          MaxPerKey,  \* tickets kept per key
          MaxIgnored, \* MAX_IGNORED_CCS
          CookieOnly, \* whether a correct server may ask for a cookie and no key share
          MaxConns,   \* bound: connections dialled
          MaxTickets, \* bound: tickets sent
          MaxTime     \* bound: the clock

ASSUME HandshakeAssumption ==
  /\ OfferOf \in [Keys -> (SUBSET {12, 13}) \ {{}}]
  /\ Lifetimes \subseteq Nat
  /\ {MaxLife, MaxPerKey, MaxConns, MaxTickets, MaxTime} \subseteq Nat
  /\ MaxIgnored \in Nat \ {0} /\ CookieOnly \in BOOLEAN

NoTicket == [id |-> 0]
NoKey == "none"

\* Suites stand for what tells them apart: the versions that may use them and
\* their hash.  "grease" is any suite that was not offered.
Suites == {"sha256", "sha384", "ecdhe", "grease"}
SuitesOf(version) == IF version = 13 THEN {"sha256", "sha384"} ELSE {"ecdhe"}

VARIABLES
  conn,    \* the connection: a record, see Fresh
  store,   \* TicketStore._byKey: the tickets of each key, oldest first
  closed,  \* client._closed
  clock, conns, minted,
  wire,    \* history: the handshake messages of this connection
  legal,   \* history: every server message was one a correct server sends
  spent    \* history: the tickets whose PSK was offered

vars == <<conn, store, closed, clock, conns, minted, wire, legal, spent>>

(***************************************************************************)
(* A connection:                                                           *)
(*   at          what it waits for, or "idle", "dialling", "open", "failed"*)
(*   key, offer  the pool key it is for, the versions it offers            *)
(*   psk         the ticket taken for it, then the one whose PSK its       *)
(*               latest ClientHello offers                                 *)
(*   version     the record layer's: 12 if offered, until it is negotiated *)
(*   transcript  Transcript: the messages hashed                           *)
(*   hashes      for each secret, signature and verify_data, the transcript*)
(*               it was computed over                                      *)
(*   resumed     acceptedPsk !== null                                      *)
(*   requested   certificateRequested                                      *)
(*   status      the TLS 1.2 server echoed status_request                  *)
(*   chain, ske  what its certificate and key exchange messages are        *)
(*   pending     RecordLayer._hsLen > 0                                    *)
(*   ignored     RecordLayer._ignoredCcs                                   *)
(*   peer        the key whose host the server's certificate is known for  *)
(*   confirmed   what the server's Finished was                            *)
(***************************************************************************)
Purposes == {"binder", "handshake", "signature", "serverFinished", "clientFinished",
             "application", "resumption"}
Fresh == [at |-> "idle", key |-> NoKey, offer |-> {}, psk |-> NoTicket, version |-> 13,
          suite |-> "grease", transcript |-> <<>>, hashes |-> [p \in Purposes |-> <<>>],
          resumed |-> FALSE, requested |-> FALSE, status |-> FALSE,
          chain |-> "none", ske |-> "none", pending |-> FALSE, ignored |-> 0,
          peer |-> NoKey, confirmed |-> "none"]

-----------------------------------------------------------------------------
\* The messages a server may send.
Plain == {"encryptedExtensions", "certificateRequest", "certificate", "certificateStatus",
          "certificateVerify", "serverKeyExchange", "serverHelloDone", "serverFinished",
          "ccs", "other", "eof"}
Hellos ==
  [type: {"serverHello"}, version: {13}, is: {"good"}, more: BOOLEAN,
      suite: Suites, echo: BOOLEAN, selects: {"none", "first", "second"}]
    \cup [type: {"serverHello"}, version: {12}, is: {"good"}, more: BOOLEAN,
            suite: Suites, echo: BOOLEAN, sentinel: BOOLEAN,
            ext: {"none", "alpn", "status", "tls13", "psk", "unoffered"}]
    \cup [type: {"helloRetryRequest"}, is: {"good"}, more: {FALSE},
            suite: Suites, echo: BOOLEAN, cookie: BOOLEAN,
            group: {"none", "sent", "offered", "unknown"}]
Extended == {"encryptedExtensions", "certificate"}
Extensions == {"none", "alpn", "status", "unoffered"}
Others ==
  [type: Plain, is: {"malformed"}, more: {FALSE}]
    \cup [type: {"ccs", "other", "eof"}, is: {"good"}, more: {FALSE}]
    \cup [type: {"certificateRequest", "certificateStatus", "serverHelloDone"}, is: {"good"}, more: BOOLEAN]
    \cup [type: {"certificateVerify", "serverKeyExchange", "serverFinished"}, is: {"good", "forged"}, more: BOOLEAN]
    \cup [type: {"encryptedExtensions"}, is: {"good"}, more: BOOLEAN, ext: Extensions]
    \cup [type: {"certificate"}, is: {"good", "forged"}, more: BOOLEAN, ext: Extensions]

\* What each stage reads: expect() and the look-aheads before it.
Expected ==
  [serverHello         |-> {"serverHello", "helloRetryRequest"},
   helloAfterRetry     |-> {"serverHello"},
   encryptedExtensions |-> {"encryptedExtensions"},
   certOrRequest       |-> {"certificateRequest", "certificate"},
   certificate         |-> {"certificate"},
   certificateVerify   |-> {"certificateVerify"},
   certificate12       |-> {"certificate"},
   statusOrKeys        |-> {"certificateStatus", "serverKeyExchange"},
   serverKeyExchange   |-> {"serverKeyExchange"},
   requestOrDone       |-> {"certificateRequest", "serverHelloDone"},
   serverHelloDone     |-> {"serverHelloDone"},
   ccs                 |-> {"ccs"},
   serverFinished      |-> {"serverFinished"}]
Stages == DOMAIN Expected

Offered == {"none", "alpn", "status"}
             \cup (IF 13 \in conn.offer THEN {"tls13"} ELSE {})
             \cup (IF conn.psk # NoTicket THEN {"psk"} ELSE {})

\* rejectUnofferedExtensions(), and what may not be where it is although offered.
ExtensionFits(m) ==
  /\ m.ext \in Offered
  /\ CASE m.type = "serverHello" -> m.ext # "tls13"
       [] m.type = "encryptedExtensions" -> m.ext # "status"
       [] m.type = "certificate" -> m.ext \in {"none", "status"}

(***************************************************************************)
(* The checks of the two hellos: parseHelloRetryRequest, negotiateVersion, *)
(* negotiateCipher, checkSessionIdEcho and the handling of pre_shared_key. *)
(* In TLS 1.2 an echoed session id announces an abbreviated handshake, and *)
(* the downgrade sentinel says that the server does speak TLS 1.3.         *)
(***************************************************************************)
RetryFits(m) ==
  /\ 13 \in conn.offer
  /\ m.suite \in SuitesOf(13)
  /\ m.echo
  /\ m.group = "offered"

PskMustBeTaken(m) ==
  IF conn.psk = NoTicket THEN m.selects = "none"
  ELSE m.selects = "first" /\ conn.psk.hash = m.suite

PskFits(m) ==
  m.selects # "none" => m.selects = "first" /\ conn.psk # NoTicket /\ conn.psk.hash = m.suite

HelloFits13(m) ==
  /\ m.version \in conn.offer
  /\ m.suite \in SuitesOf(13)
  /\ conn.at = "helloAfterRetry" => m.suite = conn.suite
  /\ m.echo
  /\ PskFits(m)
  /\ ~m.more

HelloFits12(m) ==
  /\ conn.at = "serverHello"
  /\ m.version \in conn.offer
  /\ m.suite \in SuitesOf(12)
  /\ ~m.echo
  /\ m.sentinel => 13 \notin conn.offer

ProvesUpToKeys(m) ==
  /\ m.type = "certificateVerify" => conn.chain = "good" /\ m.is = "good"
  /\ m.type = "serverHelloDone" => conn.chain = "good"
  /\ m.type = "serverFinished" => m.is = "good"

\* verifyPeer(), verifyHandshakeSignature() and checkFinished() where they run.
Proves(m) ==
  /\ m.type = "certificateVerify" => conn.chain = "good" /\ m.is = "good"
  /\ m.type = "serverHelloDone" => conn.chain = "good" /\ conn.ske = "good"
  /\ m.type = "serverFinished" => m.is = "good"

\* A ChangeCipherSpec of the compatibility mode, which the record layer drops once
\* it speaks TLS 1.3; before that, and in TLS 1.2, it reaches the handshake.
Drops(m) ==
  /\ m.type = "ccs" /\ m.is # "malformed"
  /\ conn.version = 13 /\ conn.ignored < MaxIgnored

\* What makes the client go on rather than throw.  setReceiveKeys() fails while
\* handshake bytes are pending.
Accepts(m) ==
  /\ m.type \in Expected[conn.at]
  /\ m.is # "malformed"
  /\ m.type = "helloRetryRequest" => RetryFits(m)
  /\ m.type \in Extended \/ (m.type = "serverHello" /\ m.version = 12) => ExtensionFits(m)
  /\ m.type = "serverHello" => IF m.version = 13 THEN HelloFits13(m) ELSE HelloFits12(m)
  /\ m.type = "certificateStatus" => conn.status
  /\ Proves(m)
  /\ m.type = "serverFinished" /\ conn.version = 13 => ~m.more
  /\ m.type = "ccs" => ~conn.pending

(***************************************************************************)
(* What a correct server may say, from the RFCs: the flights that follow   *)
(* its hello, and hellos that choose among what was offered.               *)
(***************************************************************************)
Optional(type) == {<<>>, <<type>>}
Flights(v, viaPsk) ==
  IF v = 12
  THEN {<<"certificate">> \o s \o <<"serverKeyExchange">> \o r
          \o <<"serverHelloDone", "ccs", "serverFinished">> :
          s \in IF conn.status THEN Optional("certificateStatus") ELSE {<<>>},
          r \in Optional("certificateRequest")}
  ELSE IF viaPsk
       THEN {<<"encryptedExtensions", "serverFinished">>}
       ELSE {<<"encryptedExtensions">> \o r \o
             <<"certificate", "certificateVerify", "serverFinished">> :
             r \in Optional("certificateRequest")}

\* The members of a sequence that are of these types, in their order: SelectSeq as a
\* recursive function, which proofs can unfold.
Keep(w, types) ==
  LET kept[i \in 0..Len(w)] ==
        IF i = 0 THEN <<>>
        ELSE IF w[i] \in types THEN Append(kept[i - 1], w[i]) ELSE kept[i - 1]
  IN kept[Len(w)]

CorrectHello(m) ==
  /\ Last(wire) = "clientHello"
  /\ m.version \in conn.offer
  /\ m.suite \in SuitesOf(m.version)
  /\ IF m.version = 13
     THEN /\ m.echo /\ ~m.more
          /\ Len(wire) > 1 => m.suite = conn.suite
          /\ m.selects # "none" =>
               m.selects = "first" /\ conn.psk # NoTicket /\ conn.psk.hash = m.suite
     ELSE /\ Len(wire) = 1 /\ ~m.echo
          /\ m.sentinel => 13 \notin conn.offer
          /\ m.ext \in {"none", "alpn", "status"}
\* RFC 8446 s4.1.4 and s4.2.8: a retry asks for a group that was offered and no key
\* was sent for, for a cookie to be returned, or for both.
CorrectRetry(m) ==
  /\ wire = <<"clientHello">> /\ 13 \in conn.offer
  /\ m.suite \in SuitesOf(13) /\ m.echo
  /\ m.group \in {"none", "offered"}
  /\ m.group = "none" => m.cookie /\ CookieOnly

\* RFC 8446 s5 and sD.4: one ChangeCipherSpec at any time after the server's first
\* message of a TLS 1.3 handshake and before its Finished, between two messages.
CorrectDummy ==
  /\ conn.version = 13 /\ conn.ignored = 0 /\ ~conn.pending
  /\ {"helloRetryRequest", "serverHello"} \cap Range(wire) # {}

CorrectLater(m) ==
  /\ "serverHello" \in Range(wire)
  /\ \E f \in Flights(conn.version, conn.resumed) :
       IsPrefix(Append(Keep(wire, Plain), m.type), f)
  /\ m.type = "encryptedExtensions" => m.ext \in {"none", "alpn"}
  /\ m.type = "certificate" => m.ext \in {"none", "status"}
  /\ m.type \in {"serverFinished", "serverHelloDone"} => ~m.more
Correct(m) ==
  /\ m.is = "good"
  /\ CASE m.type = "helloRetryRequest" -> CorrectRetry(m)
       [] m.type = "serverHello" -> CorrectHello(m)
       [] OTHER -> CorrectLater(m) \/ (m.type = "ccs" /\ CorrectDummy)

-----------------------------------------------------------------------------
TakeKeeping(k) ==
  IF store[k] = <<>> THEN [ticket |-> NoTicket, rest |-> <<>>]
  ELSE [ticket |-> Last(store[k]), rest |-> store[k]]

\* TicketStore.take(): the newest ticket that has not expired; it and all newer
\* ones leave the store.
Take(k) ==
  LET usable == {i \in DOMAIN store[k] : clock - store[k][i].born < store[k][i].life}
  IN  IF usable = {} THEN [ticket |-> NoTicket, rest |-> <<>>]
      ELSE [ticket |-> store[k][Max(usable)], rest |-> SubSeq(store[k], 1, Max(usable) - 1)]

\* TicketStore.put(): a lifetime of 0 means discard, the oldest tickets make room.
Put(list, t) ==
  IF t.life = 0 THEN list
  ELSE LET l == Append(list, t)
       IN  SubSeq(l, Max({1, Len(l) - MaxPerKey + 1}), Len(l))

Init ==
  /\ conn = Fresh
  /\ store = [k \in Keys |-> <<>>] /\ closed = FALSE
  /\ clock = 0 /\ conns = 0 /\ minted = 0
  /\ wire = <<>> /\ legal = TRUE /\ spent = {}

\* buildClientHello(), which offers the ticket's PSK last, and setPskBinder().
ClientHello(k, ticket) ==
  [Fresh EXCEPT !.at = "serverHello", !.key = k, !.offer = OfferOf[k], !.psk = ticket,
                !.version = Min(OfferOf[k]), !.transcript = <<"clientHello">>]

\* resumptionFor() takes a ticket, and openConnection() starts to dial.
TakeTicket(k) ==
  LET taken == Take(k) IN
  /\ conn.at \in {"idle", "failed"} /\ ~closed /\ conns < MaxConns
  /\ conns' = conns + 1
  /\ store' = [store EXCEPT ![k] = taken.rest]
  /\ conn' = [Fresh EXCEPT !.at = "dialling", !.key = k, !.psk = taken.ticket]
  /\ wire' = <<>> /\ legal' = TRUE
  /\ UNCHANGED <<closed, clock, minted, spent>>

\* The tunnel is open, however long that took, and drive() writes the first
\* ClientHello; the age of the ticket is not looked at again.
SendHello ==
  /\ conn.at = "dialling"
  /\ conn' = ClientHello(conn.key, conn.psk)
  /\ spent' = spent \cup ({conn.psk} \ {NoTicket})
  /\ wire' = <<"clientHello">>
  /\ UNCHANGED <<store, closed, clock, conns, minted, legal>>

\* The proxy or the target cannot be reached: the ticket is lost with the attempt.
DialFails ==
  /\ conn.at = "dialling"
  /\ conn' = Fresh
  /\ UNCHANGED <<store, closed, clock, conns, minted, wire, legal, spent>>

\* What accepting a message does at every stage; `mine` are the client's
\* messages that answer it.
Reads(m, mine) ==
  /\ conn.at \in Stages /\ Accepts(m)
  /\ legal' = (legal /\ Correct(m))
  /\ wire' = wire \o <<m.type>> \o mine
  /\ UNCHANGED <<store, closed, clock, conns, minted, spent>>
Hash(m, mine) == [conn EXCEPT !.transcript = @ \o <<m.type>> \o mine, !.pending = m.more]

GoOnHashing(m) == Append(conn.transcript, m.type)

\* Transcript.replaceWithMessageHash().
RestartTranscript(m) == <<"messageHash", m.type>>

\* A second ClientHello.  The first becomes its hash in the transcript, and the
\* PSK is offered again only if the suite chosen has its hash.
HelloRetryRequest(m) ==
  LET before == RestartTranscript(m)
      keeps == conn.psk # NoTicket /\ conn.psk.hash = m.suite
  IN
  /\ m.type = "helloRetryRequest" /\ Reads(m, <<"clientHello">>)
  /\ conn' = [conn EXCEPT !.at = "helloAfterRetry", !.version = 13, !.suite = m.suite,
                          !.transcript = Append(before, "clientHello"),
                          !.psk = IF keeps THEN @ ELSE NoTicket,
                          !.hashes.binder = IF keeps THEN before ELSE <<>>]

ServerHello13(m) ==
  /\ m.type = "serverHello" /\ m.version = 13 /\ Reads(m, <<>>)
  /\ conn' = [Hash(m, <<>>) EXCEPT !.at = "encryptedExtensions", !.version = 13,
                !.suite = m.suite, !.resumed = m.selects # "none",
                !.hashes.handshake = Append(conn.transcript, m.type)]

EncryptedExtensions(m) ==
  /\ m.type = "encryptedExtensions" /\ Reads(m, <<>>)
  /\ conn' = [Hash(m, <<>>) EXCEPT
                !.at = IF conn.resumed THEN "serverFinished" ELSE "certOrRequest",
                !.peer = IF conn.resumed THEN conn.psk.peer ELSE @]

CertificateRequest(m) ==
  /\ m.type = "certificateRequest" /\ Reads(m, <<>>)
  /\ conn' = [Hash(m, <<>>) EXCEPT
                !.at = IF conn.version = 13 THEN "certificate" ELSE "serverHelloDone",
                !.requested = TRUE]

Certificate(m) ==
  /\ m.type = "certificate" /\ Reads(m, <<>>)
  /\ conn' = [Hash(m, <<>>) EXCEPT
                !.at = IF conn.version = 13 THEN "certificateVerify" ELSE "statusOrKeys",
                !.chain = m.is,
                !.hashes.signature = Append(conn.transcript, m.type)]

\* What verifyPeer() and verifyHandshakeSignature() together establish.
Vouched(chain, signature) == IF {chain, signature} = {"good"} THEN conn.key ELSE NoKey

CertificateVerify(m) ==
  /\ m.type = "certificateVerify" /\ Reads(m, <<>>)
  /\ conn' = [Hash(m, <<>>) EXCEPT !.at = "serverFinished", !.peer = Vouched(conn.chain, m.is)]

\* The messages that answer a CertificateRequest: an empty Certificate.
Empty == IF conn.requested THEN <<"clientCertificate">> ELSE <<>>

\* The server's Finished is checked before it joins the transcript, the traffic
\* secrets cover it, and the client's Finished covers the client's Certificate.
Finished13(m) ==
  LET through == Append(conn.transcript, m.type) IN
  /\ m.type = "serverFinished" /\ conn.version = 13
  /\ Reads(m, Empty \o <<"clientFinished">>)
  /\ conn' = [Hash(m, Empty \o <<"clientFinished">>) EXCEPT
                !.at = "open", !.confirmed = m.is,
                !.hashes.serverFinished = conn.transcript,
                !.hashes.application = through,
                !.hashes.clientFinished = through \o Empty]

ServerHello12(m) ==
  /\ m.type = "serverHello" /\ m.version = 12 /\ Reads(m, <<>>)
  /\ conn' = [Hash(m, <<>>) EXCEPT !.at = "certificate12", !.version = 12,
                                   !.suite = m.suite, !.status = m.ext = "status"]

CertificateStatus(m) ==
  /\ m.type = "certificateStatus" /\ Reads(m, <<>>)
  /\ conn' = [Hash(m, <<>>) EXCEPT !.at = "serverKeyExchange"]

ServerKeyExchange(m) ==
  /\ m.type = "serverKeyExchange" /\ Reads(m, <<>>)
  /\ conn' = [Hash(m, <<>>) EXCEPT !.at = "requestOrDone", !.ske = m.is]

\* Only now are the chain and the key exchange's signature verified; the client
\* sends its whole second flight, the master secret covering ClientKeyExchange.
ServerHelloDone(m) ==
  LET mine == Empty \o <<"clientKeyExchange">>
      through == conn.transcript \o <<m.type>> \o mine
  IN
  /\ m.type = "serverHelloDone" /\ Reads(m, Append(mine, "clientFinished"))
  /\ conn' = [Hash(m, Append(mine, "clientFinished")) EXCEPT
                !.at = "ccs", !.peer = Vouched(conn.chain, conn.ske),
                !.hashes.application = through, !.hashes.clientFinished = through]

ChangeCipherSpec(m) ==
  /\ m.type = "ccs" /\ Reads(m, <<>>)
  /\ conn' = [conn EXCEPT !.at = "serverFinished"]

Finished12(m) ==
  /\ m.type = "serverFinished" /\ conn.version = 12 /\ Reads(m, <<>>)
  /\ conn' = [conn EXCEPT !.at = "open", !.confirmed = m.is,
                          !.hashes.serverFinished = conn.transcript]

\* _nextPlaintextRecord() goes on to the next record.
DropDummy(m) ==
  /\ conn.at \in Stages /\ Drops(m)
  /\ conn' = [conn EXCEPT !.ignored = @ + 1]
  /\ legal' = (legal /\ Correct(m))
  /\ UNCHANGED <<store, closed, clock, conns, minted, wire, spent>>

\* connectTls() aborts the record layer on every error of the handshake.
Refuse(m) ==
  /\ conn.at \in Stages /\ ~Accepts(m) /\ ~Drops(m)
  /\ conn' = [Fresh EXCEPT !.at = "failed"]
  /\ legal' = (legal /\ Correct(m)) /\ wire' = <<>>
  /\ UNCHANGED <<store, closed, clock, conns, minted, spent>>

\* A ticket after the handshake, captured by the client's onTicket().
NewSessionTicket(life, good) ==
  LET t == [id |-> minted + 1, hash |-> conn.suite, born |-> clock, peer |-> conn.peer,
            life |-> Min({life, MaxLife})]
  IN
  /\ conn.at = "open" /\ conn.version = 13 /\ minted < MaxTickets
  /\ minted' = minted + 1
  /\ IF good
     THEN /\ conn' = [conn EXCEPT !.hashes.resumption = conn.transcript]
          /\ store' = IF closed THEN store ELSE [store EXCEPT ![conn.key] = Put(@, t)]
     ELSE conn' = [Fresh EXCEPT !.at = "failed"] /\ UNCHANGED store
  /\ legal' = (legal /\ good)
  /\ UNCHANGED <<closed, clock, conns, wire, spent>>

\* The connection's user is done with it.
Disconnect ==
  /\ conn.at = "open"
  /\ conn' = Fresh /\ wire' = <<>>
  /\ UNCHANGED <<store, closed, clock, conns, minted, legal, spent>>

\* Client.close(): later tickets are dropped, connections already dialled go on.
Close ==
  /\ ~closed /\ closed' = TRUE
  /\ store' = [k \in Keys |-> <<>>]
  /\ UNCHANGED <<conn, clock, conns, minted, wire, legal, spent>>

Tick ==
  /\ clock < MaxTime /\ clock' = clock + 1
  /\ UNCHANGED <<conn, store, closed, conns, minted, wire, legal, spent>>

\* A hello where none is expected, or that does not parse, is one more "other".
Messages == IF conn.at \in {"serverHello", "helloAfterRetry"} THEN Hellos \cup Others ELSE Others
Receive(m) ==
  \/ HelloRetryRequest(m) \/ ServerHello13(m) \/ EncryptedExtensions(m) \/ CertificateRequest(m)
  \/ Certificate(m) \/ CertificateVerify(m) \/ Finished13(m)
  \/ ServerHello12(m) \/ CertificateStatus(m) \/ ServerKeyExchange(m) \/ ServerHelloDone(m)
  \/ ChangeCipherSpec(m) \/ Finished12(m) \/ DropDummy(m) \/ Refuse(m)

Next ==
  \/ \E k \in Keys : TakeTicket(k)
  \/ SendHello \/ DialFails
  \/ \E m \in Messages : Receive(m)
  \/ \E life \in Lifetimes, good \in BOOLEAN : NewSessionTicket(life, good)
  \/ Disconnect \/ Close \/ Tick

Spec == Init /\ [][Next]_vars

-----------------------------------------------------------------------------
\* A connection the client uses is one whose server proved to be the host of its
\* key, by its certificate chain and a signature in this connection or in the one
\* that gave the PSK it resumes, and that confirmed this handshake: whatever the
\* server sends, in whatever order (connect.js drive() to the record it returns).
OpenMeansVerified ==
  conn.at = "open" => conn.peer = conn.key /\ conn.confirmed = "good"

(***************************************************************************)
(* Both ends derive the same keys: each secret, signature and verify_data  *)
(* is taken over the handshake messages exchanged so far, neither more nor *)
(* fewer, with the first ClientHello replaced by its hash when there was a *)
(* retry (RFC 8446 s4.4.1).  TLS 1.2 has no binder, no handshake secret    *)
(* and no signature over the transcript.                                   *)
(***************************************************************************)
Handshake == (Plain \ {"ccs"}) \cup {"clientHello", "helloRetryRequest", "serverHello",
                                     "clientCertificate", "clientKeyExchange", "clientFinished"}
Exchanged(w) ==
  LET hashed == Keep(w, Handshake)
  IN  IF "helloRetryRequest" \in Range(w) THEN <<"messageHash">> \o Tail(hashed) ELSE hashed
LastOf(type) == Max({i \in DOMAIN wire : wire[i] = type})
Before(type) == Exchanged(SubSeq(wire, 1, LastOf(type) - 1))
Through(type) == Exchanged(SubSeq(wire, 1, LastOf(type)))
HashesAgree ==
  conn.at = "open" =>
    /\ conn.hashes.serverFinished = Before("serverFinished")
    /\ conn.hashes.clientFinished = Before("clientFinished")
    /\ conn.hashes.application =
         Through(IF conn.version = 13 THEN "serverFinished" ELSE "clientKeyExchange")
    /\ conn.version = 13 =>
         /\ conn.hashes.handshake = Through("serverHello")
         /\ ~conn.resumed => conn.hashes.signature = Through("certificate")
         /\ conn.hashes.resumption \in {<<>>, Through("clientFinished")}
         /\ conn.hashes.binder # <<>> => conn.hashes.binder = Before("clientHello")

\* A handshake fails only when the server sent what no correct server sends: a
\* client too strict, or one that misreads an optional message or a compatibility
\* record, fails it.  What correct means is the RFC's; with CookieOnly it includes
\* the retry that asks for a cookie alone, which parseHelloRetryRequest refuses.
CorrectServerAccepted == conn.at = "failed" => ~legal

\* A ticket is taken within its lifetime and offered at most once, to the host that
\* gave it, in whatever order dials and connections fail, tickets arrive and time
\* passes.
TicketsOfferedOnce ==
  [][LET t == conn'.psk IN
     t # NoTicket =>
       /\ conn.at # "dialling" /\ conn'.at = "dialling" => clock - t.born < t.life
       /\ conn.at = "dialling" /\ conn'.at = "serverHello" => t \notin spent /\ t.peer = conn'.key]_vars

\* "take() re-checks age at the moment of use, so a ticket that expired while stored
\* is dropped, not offered": a ticket is alive when the ClientHello offers it.
AliveWhenOffered ==
  [][conn.at = "dialling" /\ conn'.at = "serverHello" /\ conn'.psk # NoTicket =>
       clock - conn'.psk.born < conn'.psk.life]_vars

\* The store is bounded, files a ticket under the host it came from, and is empty
\* for good once the client is closed, even when a ticket arrives afterwards.
StoreSound ==
  /\ \A k \in Keys : Len(store[k]) <= MaxPerKey /\ \A t \in Range(store[k]) : t.peer = k
  /\ closed => \A k \in Keys : store[k] = <<>>
=============================================================================
