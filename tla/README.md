# TLA+ models of tunnelfetch

tunnelfetch is a `fetch` that brings its own stack: it dials a raw socket
(directly or through a SOCKS5 or HTTP CONNECT proxy), runs TLS in userland,
speaks HTTP/1.1 or HTTP/2, and reuses connections through a per-`Client` pool.
This directory holds specifications of that stack, the configurations that
model-check them with TLC, and proofs checked by TLAPS. Paths below are
relative to the repository root.

## Running

    tlc -config MCConnectionPool.cfg MCConnectionPool
    tlc -config MCHttp2Connection_flow.cfg MCHttp2Connection
    tlapm ConnectionPool_proofs.tla
    tlapm ClientExchange_proofs.tla
    tlapm Http2Connection_proofs.tla
    tlapm Http2Upload_proofs.tla
    tlapm BodyPipeline_proofs.tla
    tlapm TlsHandshake_proofs.tla
    tlapm TlsRecord_proofs.tla
    tlapm Peers_proofs.tla

`PROJECT.json` lists the runs, and the source lines each definition stands for.

## The system

Everything runs on one JavaScript thread. Concurrency is the interleaving of
calls of `fetch()`, of stream callbacks, of promise continuations and of
network events: a stretch of code between two `await`s is atomic, and an action
of a model is such a stretch.

| Component | State it keeps | Operations | Talks to | What is hard | What makes it correct |
|---|---|---|---|---|---|
| Client, `src/client.js` | `pool`, `_h2` (key to HTTP/2 connection), `_h2conns`, `_inflight`, `_closed`, jar, tickets | `fetch`, `idle`, `close`; `exchange`, `openFreshAndSend`, `sendAndReceive`, `sendAndReceiveH2`, `registerHttp2` | everything below | the body outlives the call and decides what becomes of the connection; two retries; racing opens; close at any moment | a connection serves one request at a time; a request is acted on once; every socket is closed or owned |
| Pool, `src/pool.js` | `_idle` lists, `_total`, `_closed` | `take`, `release`, `discard`, `closeAll` | called by Client, calls `close()` | late releases, limits kept by a counter | exclusive, key-isolated, bounded, nothing dropped open |
| HTTP/2 connection, `src/http2/connection.js` | stream map and per-stream queue, windows, errors, waiters; connection windows, GOAWAY, peer limits, fatal error | `request`, the body's `pull`/`cancel`, the abort signal, one read loop with a handler per frame, `close` | Client (`canDispatch`, `onClose`), HPACK, frame codec, transport | frames cross our decisions; every teardown path must find every waiter; two levels of flow control | bytes of a body are its own; credit balances; every read and upload ends; retries only of unprocessed requests |
| HPACK, frames, `src/http2/{hpack,huffman,frames,constants}.js` | dynamic table | encode, decode | HTTP/2 connection | eviction and size updates | the two tables stay equal |
| HTTP/1.1, `src/http1/` | reader position | `readResponseHead`, `bodyFraming`, `readResponseBody`, `decodeChunked` | Client, ByteReader | which framing wins; where a body ends; EOF inside | the position is exact or the connection is not reused |
| Deadlines, `src/util/deadline.js` | one timer per phase, abort signal | `beginPhase`, `endPhase`, `beginIdle`, `touch`, `race`, `dispose` | Client, transport | a timer firing beside the answer | a phase ends or the request fails, never both |
| Transport, `src/transport.js`, `src/connect.js` | a socket being opened | `openConnection` | proxies, TLS, Deadlines | a phase fails or times out with a socket half open | the socket is returned or closed |
| Proxies, `src/proxy/` | negotiation state | `openTunnel` and one opener per kind, `tunnelReadable` | transport | partial replies, surplus bytes | no byte lost, credentials only where asked for |
| TLS, `src/tls/` | record keys and sequence numbers, transcript, handshake state, tickets | `connectTls`, `RecordLayer`, `TicketStore` | transport, trust | message order on four handshake paths, KeyUpdate, truncation | nothing delivered before the peer is verified; nonces never repeat |
| Trust, `src/trust/` | none | `verifyChain` | TLS | path search, revocation policy | only a chain valid under the policy is accepted |
| Redirects, cookies, decoding, header order, `src/client/` | the jar | `nextRequest`, `setFromResponse`, `headerFor`, `decodeBody` | Client | caps, credential stripping | RFC rules, bounded memory |
| Warm-up, profiles, `src/warmup.js`, `src/profiles.js` | none of their own | | | | |

## Modules

| Module | Models | Kind |
|---|---|---|
| `ConnectionPool` | `src/pool.js` and the contract of its callers | state machine |
| `ConnectionPool_proofs`, `ClientExchange_proofs`, `Http2Connection_proofs`, `Http2Upload_proofs`, `TlsHandshake_proofs`, `TlsRecord_proofs` | | theorems about the modules they are named after |
| `BodyPipeline_proofs` | | theorems about `Http1` and `BodyPipeline` |
| `Peers_proofs` | | theorems about `Dial`, `Trust` and `Browsing`, one part for each |
| `Http2Connection` | streams, bodies, receive flow control and teardown of `src/http2/connection.js` | state machine with an external server |
| `Http2Upload` | send flow control of the same file: `_sendBody` and what wakes it | state machine with an external server |
| `ResponseBody` | what a body promises its reader | abstract specification; `Http2Connection` implements it |
| `ClientExchange` | the request path of `src/client.js` over `ConnectionPool` (by INSTANCE) and an HTTP/2 connection reduced to what the client sees of it | composition |
| `TlsHandshake` | `src/tls/connect.js`, `handshake.js`, `handshake12.js`, `transcript.js`, `tickets.js`, with the checks of the message parsers | state machine with an external server |
| `TlsRecord` | the record layer after the handshake, `src/tls/record.js` | processes around a write queue, external peer and transport |
| `Http1` | `src/http1/`: heads, framing, the body readers, and what becomes of the connection | state machine with an external server |
| `BodyPipeline` | the idle deadline and the decompression between that body and its caller | extends `Http1` |
| `Dial` | `src/transport.js`, `src/proxy/`, the phases of `src/util/deadline.js` | processes with an external network |
| `Trust` | `src/trust/`: `verifyChain` | operators and a verdict in steps, against declarative definitions |
| `Browsing` | `src/client/redirect.js`, `src/client/cookies.js`, the loop of `performFetch` | state machine with external servers |
| `MC*` | | instances for TLC |

An operator whose comment begins "Mutant" is a plausible error in the operator
that follows it. No specification uses it; it shows that a property notices.

### ConnectionPool

`idle`, `total`, `poolClosed` are `_idle`, `_total`, `_closed`. `discarded` is
the set of connections whose `close()` was called and `held` what callers have
in their hands. `release()` is four operators, one per way through it. The
module's callers are as free as the pool allows: any order of open, take,
release and discard of what they hold. `ClientExchange` checks (`PoolContract`)
that the real callers stay within that.

### Http2Connection

`st[s]` is the stream object. `closed` means "no longer in `_streams`"; `head`,
`completed` and `error` are its deferreds and `bodyError`; `pull` is where
`pull()` stands (`blocked` is waiting on `pullWaiter`), `outcome` what the
reader knows. There is one action per handler of `_dispatchFrame`, one per
stretch of the body's `pull`, and `Cancel`, `Abort`, `Close`. What the client
writes is applied to the server at once; what the server writes waits in `s2c`,
which gives every crossing. A chunk is a record of its stream, its offset and its
length. A HEADERS frame stands for a complete header block; an interim response
changes nothing and is left out, as are PING and the SETTINGS that concern
encoding. The deadlines and the abort of `fetch()` are `Abort`.

The server is external: it follows RFC 9113 (credit, stream states, GOAWAY
promises), except in scenarios with `"rogue"`, where it sends DATA as it pleases.
A scenario is a set of events that may happen besides plain requests; the
constant `Scenarios` of a run is the sets it considers, chosen in `Init`.
Splitting them keeps a run small. Every interaction we think matters is inside one scenario.

### Http2Upload

One process per upload: `sending` (top of the loop), `waiting` (parked in both
waiter lists), `writing` (awaiting the write), `done`, `stopped`. A waiter is in
the stream's list and in the connection's, and waking a stream's waiters also
empties the connection's list: `parked` is the streams with an unresolved waiter.
The server may push a window past the limit whenever it likes; `Granted` is the streams
whose window it keeps opening where fairness is assumed.

### ClientExchange

`call[f].at` follows one `fetch()` through `exchange`, `openFreshAndSend` and
`sendAndReceive`. `pooled` is what `exchange`'s catch discards. `inflight` are the
calls whose body has not settled: the connection belongs to the body then, not
to the call. `openConnection()` is one step that returns a new connection or
throws. The server is external: `acted[f]` counts how often it acted on the request
of the current hop, `answered[f]` how often the client has had bytes of its answer. A connection
may end in silence whether or not the server has acted (`Endings`). A redirect keeps its pool key. `Events` holds the optional
behaviours; three of them (`refused`, `cut`, `retryFails`) are off in the passing
run, and on, one at a time, in the configurations that document a disagreement.

### TlsHandshake

One connection at a time, so that the ticket store lives across them. `TakeTicket` takes the
ticket and starts the dial, `SendHello` offers it when the dial is through, with any amount of time
between them. `conn.at` names the message the client waits for; each stage is an action that reads one
message and either goes on or fails, with the alert left out. The server is
hostile: at any stage it sends any message of `Messages`, well formed,
`malformed` (its parser refuses it) or `forged` (it parses and does not verify),
in a record of its own or followed by more handshake bytes. Cryptography is ideal.
`hashes` records over which messages each secret, signature and `verify_data`
was computed; `HashesAgree` compares them with what RFC 8446 and RFC 5246 say,
derived from the history of the wire alone. `Flights` is what a correct server
may say; `legal` holds while this one has said nothing else. What is correct is the RFC's
(`CorrectRetry`, `CorrectDummy`), not the client's: a retry may ask for a group or, with
`CookieOnly`, for a cookie alone, and one ChangeCipherSpec of the compatibility mode may stand
anywhere between the server's first message and its Finished. `DropDummy` is the record layer
dropping it, `MaxIgnored` how many it drops.

### TlsRecord

`queue` is the write chain (`_enqueueWrite`), a task of it the records it emits
and what it does `after`; `send` and `recv` are the keys as an epoch and a sequence
number. The reader handles KeyUpdate, tickets, empty records, alerts and the end of
input; the peer sends what it likes, updates its keys at any moment, corrupts a
record, leaves, or stops reading. `got` against `sent` is what the caller has
against what the peer wrote.

### Http1 and BodyPipeline

Bytes are tokens: a head, a chunk-size line, a data byte, a CRLF, a trailer line.
`Responses` are the messages a server may send, ambiguous ones included; a
Content-Length that is taken at its word is the body's (`LengthAssumption`): no client
can find the end of another one. With `Faults` it garbles a line, cuts a message or leaves. `bodyFraming` is
`BodyFraming`, and where the message ends according to the server is the history
that `ReuseAtBoundary` compares with: whenever the client gives a connection back,
its reader stands at the end of the response, and a caller that has not cancelled was given
all of it. (A body may be cancelled when its last bytes are queued; its connection is
reusable all the same.) `BodyPipeline` puts `withIdleDeadline` and
the decompression stage on top, calling the source's own operators where the
program does; a stage is its queue, whether a pull is running beneath it and
whether it has ended.

### Dial

Two processes, because the program has two: `openConnection`, which races,
and `openTunnel`, which nothing stops when it loses. The SOCKS5 and CONNECT dialogues are
message by message over the buffered reader that becomes the tunnel.

### Trust

`Init` calls `verifyChain` with a chain, a policy, a staple and a host from `Calls`;
the steps build the path and validate it certificate by certificate, and the verdict
is final. A candidate issuer is tried in its turn; one whose key cannot be tried at all, on a curve
the code does not know, ends the search (`AnchorAborts`, `CandidateAborts`).

The converse is about chains and staples that leave no choice: no certificate of a path
has a rival of its name and key (`Unrivalled`), none that is named as an issuer has a key that
cannot be tried (`Supported`), and an OCSP responder that is not the issuer
attaches one certificate of its own (`Plain`), because the code takes the first that fits. `AcceptedIsTrusted` and `TrustedIsAccepted` compare it with a definition of
a trusted chain that says nothing of order or loops: there is a path, each link of it
verifies, each certificate is allowed what it is used for, every constraint of every
issuer holds for every certificate below it, the host is the leaf's and the staple, if
the policy needs one, is good and fresh.

### Browsing

`jar` is the cookies, `sets` every `Set-Cookie` received. `Respond` is one response:
its cookies are stored, then `nextRequest` decides. `SentExactly` derives from `sets`
alone which cookies are due and compares that with what `headerFor` sends.
`SetFromResponse` is a recursive function over the headers of the response, and the sort of
`headerFor` (`Sorted`) is given by what comes before each cookie: the community modules'
fold and sort say the same and are out of the prover's reach.

## Properties and hazards

Each hazard in `PROJECT.json` names its line and its properties. The ones a unit
test would hardly reach, by module:

- pool: `SafeToReuse` (nobody is handed a connection in use, closed or of another
  key), `LimitsKept`, `NoneForgotten`.
- HTTP/2 receive side: `CreditKept` (our window equals the peer's credit, plus
  bytes on the way, plus what we owe; an honest server is never blamed; every byte that was
  debited and not credited waits unread in its body's queue, which only a body that was cancelled or
  overran its length keeps; and what is owed is paid before it makes half a window),
  `BufferBounded` (against any server), `BytesExact`, `ReadsSettle`.
- HTTP/2 lifecycle: `NobodyLeftWaiting`, `RetryOnlyUnprocessed`,
  `WithinPeerLimit`, `SilentAfterReset`, and `BodiesAsPromised`: every stream's
  body implements `ResponseBody`.
- HTTP/2 send side: `NoSleepWithRoom`, `WithinCredit`, `BothHalvesClose`, `UploadsEnd`.
- client: `Accounted` (no HTTP/1.1 connection is shared, none is forgotten, what is registered can
  be dispatched to, what can be dispatched to is tracked), `ResentOnlyInSilence` (a request that
  the server has begun to answer is never sent again, another once at most), `LiveStaysShared`,
  and `PoolContract`: the client implements the pool's caller.
- TLS: `OpenMeansVerified`, `HashesAgree`, `CorrectServerAccepted` (the client is not
  too strict either), `TicketsOfferedOnce`; `KeysInStep`, `EndIsHonest`, `ShutdownEnds`.
- HTTP/1.1: `ReuseAtBoundary`, `WholeOrError`, `FailureReleases`, `Bounded`,
  `BodySettles`.
- dialling: `FailureCloses`, `TunnelExact`, `DialEnds`.
- trust: `AcceptedIsTrusted` and its converse `TrustedIsAccepted`.
- browsing: `RedirectsSafe`, `CookiesExact`.

## Runs

| Run | Instance | Shows |
|---|---|---|
| `pool` | 3 keys, 5 connections, 2 per key, 3 in all | the pool's invariants and `NoneForgotten`; deadlock is checked |
| `h2_flow` | 2 streams, windows 5 and 4, bodies of 0 or 3 bytes, frames of 2; one scenario with cancel and padding, one with a rogue server on a single stream | flow control |
| `h2_lifecycle` | 2 streams, windows 2 and 1, peer limit 1 or 2; five scenarios of resets, GOAWAY, EOF, close, abort, cancel, uploads, changing limits | lifecycle and refinement of `ResponseBody` |
| `h2_reads` | 2 streams, bodies of 5 bytes through windows of 5 and 4, with resets or an EOF | every read settles |
| `h2_upload` | 2 uploads of 2 bytes, connection window 1, initial window 0 or 2, limit 2, a server that may overrun a window or never does, and may leave one stream without credit | send flow control; the upload that gets credit ends |
| `client` | 3 calls, 2 keys, 3 connections, 1 pooled connection in all, 1 redirect; the two rival calls are symmetric | the request path |
| `tls` | 3 connections to 2 keys, one that offers TLS 1.2 and 1.3 and one that offers 1.3 alone, 3 tickets, 2 per key, 1 ChangeCipherSpec to ignore | the four handshake paths, one after another |
| `records` | 3 records per key, 1 key update on each side, 2 records of the peer, 2 in flight | the record layer |
| `http1` | 2 requests, GET or HEAD; bodies of up to 5 bytes under a limit of 4, all framings; plain or gzip with corrupt data, a cut, a broken line | bodies and reuse |
| `dial` | direct, SOCKS5 with and without credentials, CONNECT; plain and TLS; all timers, an abort, a hangup, 3 tunnel bytes | dialling |
| `trust` | chains of a leaf and up to three of 18 other certificates, every mode of the policy, pins, some 300 staples for a few of the chains | path validation |
| `browsing` | 3 origins, 2 redirects, 3 `Set-Cookie`, caps of 1 and 2, 2 instants | redirects and cookies |

`Bounded` is met with budgets of 2 for heads, chunks and trailers, which two interim
heads, a chunk of 3 or two trailers exhaust, and of 4 for the body: gzip expands each
byte to 2, so that coded bodies fall on both sides of it, and a body of 5 is over it
plain, by its length or only as it arrives.
In `tls` a third connection is needed to offer a ticket twice: one gives it, two use
it. In `records` a key of 3 records reaches its limit within a write of 2 parts and a
key update. In `http1` the second request is what a wrong end of the first would spoil.
In `trust` a path may have 3 certificates, so that the longest chains exceed it, and
each defect and constraint appears in a certificate of its own at each depth; an abandoned anchor
and a second intermediate have keys on an unsupported curve, before and after those that sign. In
`browsing` a third origin lets a fetch leave and come back, and three cookies exceed
either cap.

The bounds of the others. Windows of 4 and 5 are the smallest whose half is more than one
byte, so credit accumulates before it is paid; a body of 5 crosses the
threshold more than once. Two streams are enough for one to be beyond a GOAWAY
and one within, for one to free the slot another needs, and for two uploads to
compete. The lifecycle run needs no credit arithmetic and closes windows with 1 byte.
Two frames in flight give every pair of crossings, with our own writes between
them. `MaxWindow` stands for 2^31 - 1: only its comparison with the sum is
used. In `h2_upload` it is also small on purpose: once a window is full a server that keeps to
the limit has nothing left to say, so no later frame wakes an upload that an earlier one should
have. `UploadsEnd` fails when the wake is left out of any one of the three handlers that grant credit
(`OnStreamWindowUpdate`, `OnConnWindowUpdate`, `OnInitialWindow`). In the client a pool of one forces eviction, refusal and misses; a third
connection allows a retry while another is open. Calls, redirects and stream
numbers are finite, so these systems stop: `CHECK_DEADLOCK FALSE` in all but
`pool` and `browsing`; where something must happen, a liveness property says so.

### Fairness

`h2_reads`: the read loop takes every frame that arrives and a ready promise
continuation runs (weak fairness of `OnFrame`, `Pull`, of the upload's two
steps: the event loop); callers keep reading; the server answers and, whenever
it has credit again and again, sends (strong fairness of `SrvData`, because another
stream may use the connection's credit first). Resets and EOF are not fair: they may
or may not come. `h2_upload`: the same for `_sendBody`, and a server that keeps
granting credit to the connection and to one of the streams, up to the limit (strong, because the
wire may be full in between). Without that a stalled upload is the server's right and the
deadlines' business. The other stream has no such promise: it may wait for ever and must not
keep the first one waiting. Only grants that overrun nothing are owed (`GrantWithinLimit`):
the server may overrun a window, and the teardown that follows wakes everybody, but nothing
makes it do so, so that a missed wake is not rescued by it.

`records`, `http1` and `dial`: the other end is never fair; it may stop at any point,
and what settles is then owed to a timer. In `records` the write queue, the read loop and
the timer of a shutdown's grace are weakly fair; in `http1` the pulls of each stage,
the idle timer and a caller that reads; in `dial` the timers alone, so that `DialEnds`
holds whatever part of the network is silent. The other runs check safety only.

### Disagreements found

Each is a configuration with one property that TLC finds violated (run it with the
module its name begins with); the quotes are in `PROJECT.json`.

1. `MCHttp2Connection_credit.cfg`: cancelling a body with bytes still queued never credits them to
   the connection window. Enough cancelled downloads starve every other stream.
2. `MCHttp2Connection_overlong.cfg`: nor is the frame credited that takes a body past its declared
   length; it is dropped with the stream.
3. `MCClientExchange_refused.cfg`: when the content coding of an empty or very short response
   is refused, its connection is closed and also released to the pool, because
   `completed` is wired before the refusal is thrown.
4. `MCClientExchange_cut.cfg`: `serverNeverSawIt` takes `got === 0` for silence; it is also 0
   after a complete interim response or a bare TLS record header, so a request the
   server had begun to answer is re-sent.
5. `MCClientExchange_twice.cfg` (`AtMostOnce`): silence is taken for a proof that the server never
   saw the request. A server that acts on it and closes before its first byte is sent it again.
6. `MCClientExchange_goaway.cfg` (`ServingIsTracked`): GOAWAY takes a connection out of `_h2conns`
   while its streams go on, so `close()` does not close it, as the comment there says it must.
7. `MCClientExchange_close.cfg`: an HTTP/2 connection whose opening was in flight at
   `close()` is registered afterwards and stays open.
8. `MCClientExchange_retry.cfg`: the retry's connection is not discarded when the
   retry fails.
9. `MCTlsHandshake_stale.cfg` (`AliveWhenOffered`): the age of a ticket is looked at before the dial
   and not again; one that expires meanwhile is offered.
10. `MCTlsHandshake_cookie.cfg` (`CorrectServerAccepted` with `CookieOnly`): a HelloRetryRequest
    that asks for a cookie and no group is refused.
11. `MCDial_orphan.cfg` (`NoOrphan`): when the connect deadline or an abort wins the race,
    `openTunnel` goes on and the socket it then opens belongs to nobody.
12. `MCTrust_cross.cfg` (`OrderImmaterial`): certificates reissued or cross-signed for one name and
    key are not told apart by what that key signed; the first in the chain is taken, without going
    back, and a trusted chain may be refused.
13. `MCTrust_curve.cfg` (`CurveImmaterial`): a same-named anchor or certificate on an unsupported
    curve ends the search when it comes before the issuer, though it signed nothing.

## Proofs

`ConnectionPool_proofs` proves, for every set of keys and connections and every
pair of limits (`PoolAssumption`: `KeyOf` is a function to keys, the limits are
naturals), that `Spec` implies its type invariant and each property of the
`pool` run.

None of them is inductive alone: that a released connection is not already
idle needs `held` and the lists to be disjoint; that `total - 1` is right after a
take needs the lists to be free of duplicates and disjoint from each other, which
`KeyIsolation` gives (two keys' lists cannot share a connection whose `KeyOf` is
one key). `PoolInv` is their conjunction with the finiteness of the idle set. It is
shown to hold initially, to be preserved by each operation (one lemma for each:
`TakeHitStep`, `ReleaseKeepStep`, `ReleaseEvictStep`, `CloseAllStep`; the others
leave the lists alone), and each theorem follows. The lemmas on sequences
(`AppendFacts`, `FrontFacts`, `TailFacts`) and on the union of the lists
(`ListedUpdate`, `ReplaceList`) carry the data.

`Http2Upload_proofs` proves, for any streams, body length, frame size, windows
and limits (`UploadAssumption`: the sizes are positive, the windows at most
`MaxWindow`), and whether or not the server overgrants, that `Spec` implies
`TypeOK`, `NoSleepWithRoom`, `BothHalvesClose` and `WithinCredit`.
`UploadInv` adds to the type invariant that the frames on the wire are well formed
(what a handler adds to a window is then a number) and that every sleeper has its
waiter in the lists. The second is why waking the lists is enough: a teardown or a
WINDOW_UPDATE resolves every waiter, so nobody sleeps after it (`WakeAll`); new
SETTINGS resolve none only if no live stream got room, and then every sleeper is
still without it (`OnInitialWindowStep`). The proof has one lemma for each
group of actions: `SendBodyStep`, one for each frame handler, `ServerStep`. `WithinCredit`
needs to know what the updates in flight will add: `CreditBacked` gives the wire positions,
for each stream and for the connection, which rise over its WINDOW_UPDATEs from the
client's window to what the server has granted. A slice moves both ends down, SETTINGS
move both, and an update that overflows tears the connection down.

`TlsHandshake_proofs` proves, for every set of keys, versions offered under them and
lifetimes (`HandshakeAssumption`: the bounds are numbers), and whatever the server
sends, that `Spec` implies `OpenMeansVerified`, `StoreSound`, `TicketsOfferedOnce`,
`HashesAgree` and `CorrectServerAccepted`. Verification can be
inherited: a resumed connection has no certificate, only a PSK. So `HInv` ties
three things together: a ticket is filed under the key of the connection that gave it
(`Filed`), the PSK a connection offers is of its own key (`PskKnown`), and its peer is
known in every stage after the certificate's proof (`PeerKnown`). There is one lemma for
each operation on the store and, in `ReceiveKeeps`, one step for each message.
`StoreSound` is proved and not run: the theorem covers every bound. For
`TicketsOfferedOnce`, `Unspent` says that every stored ticket has a number of its own, which
is no offered ticket's: `take()` removes what it returns, and `put()` drops from the
front and appends a new number, so it only shifts the others (`Stretch`). A ticket taken for a
dial is in hand (`InHand`), out of the store and not yet offered, until the hello offers it; that its lifetime has not ended is
shown of the moment it is taken, and no more is true (see disagreement 9).

`HashesAgree` speaks of an open connection and needs `HashInv` before: in every stage the
transcript is exactly what was exchanged (`TranscriptExact`), and each hash already taken
was taken at the last message of its type (`Covers`). A message that comes later leaves
`Covers` alone unless it is of that type, and no message is accepted twice where that
matters (`CoversKept`, `StageOf`). `CorrectServerAccepted` needs the converse of the
client's checks. No flight says a message twice, so the last one said tells where a
flight has got to; `LegalInv` says that the client of a correct server is in the stage for
that place, with what the checks ahead need, and `FlightRuns` says what may follow
each message. The next message of any flight is then one the client accepts
(`CorrectHelloAccepted`, `CorrectLaterAccepted`), so what it refuses was not correct; a
compatibility ChangeCipherSpec moves neither the flight nor the stage (`DropCourse`). The theorem's
hypothesis is `~CookieOnly` (see disagreement 10).
`Keep` is a recursive function; the three facts about it (`KeepLaws`, `KeepType`) come from
an induction over a set of numbers (`SetInduction`), because the library's induction
theorems take an operator.

`TlsRecord_proofs` proves `EndIsHonest` and `KeysInStep` for any limit on records,
key updates, callers and tries, and whatever the peer sends. The reader's invariant
(`RInv`) sees the records in flight as a chain: the first has the reader's epoch,
number and next datum, each leads to the next, and the last leads to the peer's keys, unless
the peer has left and part of it is lost (`AppendChain`, `TailChain`, `CutChain`). That the
caller's bytes are a prefix follows from the values of the chain; that a clean end
means all of them, from a close_notify being numbered one past the last datum. The
writer's (`WInv`) says which tasks the queue can hold, that a key update waits until it
is at the head, and how every record on the wire is keyed: by the number of key updates
before it and its distance from the last. The property says this with `Max` of a set, which
the prover cannot evaluate; `Keyed` says it with a witness, and `MaxIs` joins the two.

`Peers_proofs` is about three specifications that share no variable: whom the client
connects to (`Dial`), whom it believes (`Trust`), where it goes next and what it tells
them there (`Browsing`). One module holds the proofs of all three.

For `Dial` it proves, for any calls, timers and number of bytes, that `DialSpec` implies
`FailureCloses` and `TunnelExact`. `DInv` says that a dialer which is done or failed
never acts again and that a call takes the tunnel only from a dialer that is done.
`TInv` gives what is pending at each place of the dialogue: the rest of one answer,
then the first bytes of the tunnel. It needs that nothing is pending while an answer
is owed, and that the socket is read directly only when the reader is empty; the
lemmas on sequences (`SplitFacts`, `TakeFirst`, `WordFacts`, `AppendAtEnd`) carry the data.

For `Trust` it proves `AcceptedIsTrusted` and `TrustedIsAccepted`, for every chain, policy,
staple and host that `TrustAssumption` types. Towards the first, `TrustInv` says what the
steps have established so far: the path is a chain of links, no certificate
twice; the constraints in force are those of the certificates already judged, and the slots
left are what their path lengths allow; every judged certificate is valid in its place and
within every constraint above it (`JudgedIsCleared`, `PassStep`, `JudgeIssuerStep`). At the verdict
this is the definition of a trusted chain (`ClearedIsValid`, `StapleIsVouched`). The
converse has the hypotheses of its definition: the certificate asked for at each link has
no rival (see disagreement 12), and every candidate can be tried (13), so that none ends the search
(`NothingAborts`). `TrackInv` says that as long as there is a good path the
search is on it and not refused: what it takes next is the next of that path
(`NextFound`), it stops where that path ends (`AnchorFound`), and no check turns it away
(`JudgePasses`, `VouchedVerifies`).

For `Browsing`, `RedirectsSafe` holds for any URLs, methods, statuses and limit. A
hop keeps three facts about the record of a fetch: credentials are at home (`StaysHome`), a body goes
with the caller's own method (`Matched`), and the next request is new (`NewRequest`).
`NextRequestSafe` is the step, `HistoryGrows` what appending to the history does.
`CookiesExact` holds for any sequences of `Set-Cookie`, any caps and any length of history
(`CookieAssumption`: paths are sequences, Max-Age and Expires numbers). Its invariant
(`JarInv`) is that the jar tallies with the history: each cookie is the one its entry
describes and no later entry replaced it (`Recorded`), no two share a key or a place in the
order of creation (`Distinct`), whatever stands, lives and was not evicted is there
(`Complete`), and the caps hold (`Capped`). `SetOneStep` keeps it for one header, whatever
becomes of it, and an induction (`ReceiveKeeps`) for a response. What a cap drops needs
counting: in a strict order of a finite set the number of predecessors is a bijection to
an interval (`Ranks`), so that dropping the oldest leaves exactly the cap and only younger ones
(`OldestGo`, `CapsEnforced`). When the cap of all evicts one of those the cap of the domain
had left, everything still there is younger, which is why `CapsKept` is a disjunction. `Ranks` also
gives `SortedIs`: the header has every matching cookie, in order.

`BodyPipeline_proofs` proves, for any responses, budgets, faults and number of requests that
the assumptions of `Http1` and `BodyPipeline` type, `ReuseAtBoundary`, `FailureReleases`,
`Bounded` and `WholeOrError`. It goes in three layers. The messages: a response is heads, then
chunks with their lines, and `BytesTo` counts the data up to a token; the recursive
functions `Total` and `Chunks` are shown to exist and to agree by `SetInduction`
(`RunsExist`, `ChunksAre`). The connection, `ConnInv`: what was put on the wire and what
the reader took from it are two positions in the same message (`Positions`), each place of
the reader is a place of the message (`Placed`), what settled has an end the wire bears
out (`Settled`), and budgets are what was read (`Counted`, `Chunked`). `ReuseAtBoundary` follows: a body
that ends well has been taken to the end of the message. The stages, `PipeInv`: what the body
has given is what each stage passed on, holds or dropped (`Passed`, `Inflated`), and an
end or a failure below is told above, or is on its way there (`Told`). `WholeOrError` is the
refinement of `ResponseBody` by the whole pipeline: that the caller's end is whole needs
the source's end to be whole (`EndIsWhole`), and that what it gets was sent needs the
source to be within it (`SourceWithin`).

`ClientExchange_proofs` proves, for any calls, keys and connections, `LiveStaysShared`,
`ResentOnlyInSilence`, `Accounted` and the step refinement `PoolContract`, by which the theorems of
`ConnectionPool_proofs` hold of this client. `Registry` says what is registered is live
and filed under its own key; `ServedInv` how often the server has acted on a request and answered it at each
place of its call; `UseInv` who has each connection: the pool's invariant, what each call
holds at each place, and that no HTTP/2 connection is ever known to the pool. One lemma
per step of a call shows all three. Hypotheses on `Events` exclude exactly the events of
the disagreements above: `ResentOnlyInSilence` is proved without `cut`, `PoolContract` without
`refused`, `Accounted` without `refused` and `retryFails`, as the `client` run has them;
`LiveStaysShared` has no hypothesis. With the event, TLC finds the counterexample.

`Http2Connection_proofs` proves, for any number of streams, windows, frame sizes, peer
limits and set of scenarios (`Http2Assumption`), `TypeOK`, `NobodyLeftWaiting`,
`SilentAfterReset`, `RetryOnlyUnprocessed`, `BytesExact`, `BufferBounded` and `CreditKept`
against any server (`CreditKept` says of a rogue server only what it can), and with
`Honest` (a scenario without `rogue`) `WithinPeerLimit` and the refinement
`BodiesAsPromised`: every step is, for each stream, a step of `ResponseBody` or a stutter. None of them is inductive. `HInv`
says of each stream object `r`, its counterpart `v` at the server and the frames
between them: where a pull may be under way (`Reading`), what leaving the map implies
(`Waiting`), that a reset stream is gone (`Silenced`), that a refusal or GOAWAY on the wire was
noted by the server before it was sent (`Refusable`, `Noted`), and where the bytes are. For
the last, a queue and a wire are given positions: a function that rises from what the reader
has had, over each chunk by its length, to what was received (`Filled`), and from there over
the DATA of the stream to what was sent (`Wire`), with nothing after the end. The
positions are a witness (`\E p`) where the code has only the lists. There are lemmas for each operation
on the stream object (`Fails`, `Charges`, `Stocks`, ...), for a chunk or a frame at either
end of the lists, for each frame handler, each step of a caller and each step of the
server; the refinement needs `HInv` for `Finish` (a body that is done is ended and whole)
and for `Deliver` (what is handed out was sent).

Flow control is about sums. `Total` of the model is a recursive function; that it grows by
what is appended, shrinks by the head that is taken and changes by what one element does
(`TotalAppend`, `TotalTail`, `TotalChange`, `TotalNat`) is proved by `SetInduction`: the
library's induction theorems take an operator, so induction over a set of numbers is
derived from its theorem that the strict subsets of a finite set are well founded.
`BufferInv`: on a live stream the bytes queued and its receive window make up
`StreamWindow`, no chunk is empty, and on the connection the queues and the receive window together stay
within `ConnWindow`. `CreditInv`: the client's window is the server's, with what is
in flight and what is consumed and not yet announced; the same of each live stream
(`Balanced`); the connection's window and what its bodies hold unread make up `ConnWindow`, and what is
owed is less than half a window (`KeptInv`); and an honest server's frames are for streams that were opened, DATA after its
head (`Known`), so that it is never blamed for its own credit. It needs `BufferInv`: the
credit of an empty chunk would be lost. A step is one of a few kinds (`Quiet`,
`Dispatched`, `Written`, `Died`, `PullChunk`, `OnData`, `SrvData`), with a lemma for each.

`WithinPeerLimit` compares what the server counts with what the client does. `PeerInv`: as long
as the connection may open streams (`MayOpen`), the server knows whatever let
go of a stream at the client (`Released`: it was reset by either side or both halves ended). The
server's knowledge only grows (`PeerGrows`), so a stream it counts as open is live at
the client, or the one being opened, and the cardinalities of finite sets do the rest. The
hypothesis is needed: the END_STREAM of a rogue server closes a stream at the client
that the server goes on counting.

The attempts corrected two statements. `ReuseAtBoundary` asked for a whole delivery of
cancelled bodies too, which the invariant would not carry; TLC shows the case once the run has
a chunk left in the queue. And `TrustedIsAccepted` was false when a responder attaches
several certificates of its name: `Plain` excludes that, and the `trust` run has such staples.

Every safety property of the passing runs is a theorem. Only model-checked are the liveness
properties, `ReadsSettle`, `UploadsEnd`, `ShutdownEnds`, `BodySettles` and `DialEnds`: the
prover does not reason about fairness and ENABLED. The configurations under "Disagreements
found" show what the hypotheses of the theorems exclude.

## Not modelled

- Cryptography is ideal everywhere: a signature, a MAC or a hash is what it covers.
- Byte formats: frames, HPACK and Huffman coding, DER and X.509 syntax, the bytes of
  TLS messages and their key derivations, header text, dates. A message is what its
  parser returns or the fact that it refuses.
- `Http2Connection`: PING, interim heads, CONTINUATION assembly, SETTINGS that concern
  encoding.
- `TlsRecord`: reassembly of handshake messages, record sizes, TLS 1.2 nonces.
- `Http1`: bytes a server sends unasked after a response stay in the reader and are
  not modelled. `BodyPipeline`: custom decoders and their cap, charsets, and a body
  without limit, which is relayed as it is. A coded body that the close of the connection
  delimits and that is cut before its first byte looks empty; that is how
  `src/client/decode.js` treats an empty body.
- `Trust`: constraints judge the names of certificates; errors in a policy are left
  out. `Browsing`: hosts that are IP literals, and the public-suffix list the
  code does without.
- `src/client/header-order.js`, `src/profiles.js`, `src/warmup.js`, `live/`, `probe/` and
  `scripts/`: formatting, data and tools without protocol state.

## Plan

Done: the modules above, and the theorems listed under "Proofs". Left: the dynamic table
of HPACK as a function checked against a reference definition; the record sizes and the
reassembly of handshake messages of `src/tls/record.js`.
