--------------------------- MODULE ClientExchange ---------------------------
(***************************************************************************)
(* The request path of src/client.js: concurrent calls of Client.fetch(),  *)
(* each choosing between a shared HTTP/2 connection, a pooled HTTP/1.1     *)
(* connection and a fresh one; the response body that outlives the call    *)
(* and gives the connection back when it settles; the two retries; and     *)
(* Client.close() at any moment.                                           *)
(*                                                                         *)
(* The pool is ConnectionPool, whose operations are called here by the     *)
(* program's own callers.  An HTTP/2 connection is reduced to what the     *)
(* client sees of it: its registration, canDispatch() and onClose.  The    *)
(* server is external.                                                     *)
(***************************************************************************)
EXTENDS Naturals, Sequences, FiniteSets, FiniteSetsExt

CONSTANTS Calls,      \* calls of fetch()
          Keys,       \* pool keys, see poolKey()
          CallKey,    \* the key of each call
          Conns,      \* connections openConnection() may return
          KeyOf,      \* the key each of them is opened for
          MaxPerKey,  \* options.pool.maxPerKey
          MaxTotal,   \* options.pool.maxTotal
          MaxHops,    \* redirects followed by one call
          Events      \* what may happen besides, see ASSUME

NoConn == 0

(***************************************************************************)
(* Events: "h2" ALPN may choose HTTP/2; "goaway" the peer may retire such  *)
(* a connection; "busy" it may be at its stream limit; "redirect"; "close" *)
(* Client.close().  The other three are what the program does not stand    *)
(* up to: "refused", "cut" and "retryFails", explained where they occur.   *)
(***************************************************************************)
ASSUME ExchangeAssumption ==
  /\ CallKey \in [Calls -> Keys]
  /\ Conns \subseteq Nat \ {NoConn}
  /\ KeyOf \in [Conns -> Keys] /\ {MaxPerKey, MaxTotal} \subseteq Nat
  /\ Events \subseteq {"h2", "goaway", "busy", "refused", "cut", "retryFails", "close", "redirect"}

VARIABLES idle, total, poolClosed, discarded,  \* client.pool, see ConnectionPool
          held,          \* HTTP/1.1 connections a call has in its hands
          call,          \* where each call stands
          inflight,      \* client._inflight: calls whose body has not settled
          h2,            \* the state of each HTTP/2 connection
          h2map,         \* client._h2
          h2conns,       \* client._h2conns
          clientClosed,  \* client._closed
          acted,         \* how often the server has acted on each call's request
          answered       \* how often it has begun to answer it

poolVars == <<idle, total, poolClosed, discarded, held>>
h2Vars == <<h2, h2map, h2conns>>
served == <<acted, answered>>
vars == <<poolVars, call, inflight, h2Vars, clientClosed, served>>

Pool == INSTANCE ConnectionPool

-----------------------------------------------------------------------------
(***************************************************************************)
(* A call is at one of                                                     *)
(*   idle        not made yet                                              *)
(*   started     before exchange(): the request body is being read         *)
(*   opening     in openFreshAndSend, awaiting openConnection()            *)
(*   sent        request written on conn, awaiting the head                *)
(*   reopening   in sendAndReceive's retry, awaiting openConnection()      *)
(*   shared      stream opened on a connection found in client._h2         *)
(*   first       stream opened on the HTTP/2 connection it just opened     *)
(*   head        exchange() has returned, performFetch decides             *)
(*   returned    the caller has the response                               *)
(*   failed      the caller has an error                                   *)
(* `pooled` is the connection exchange() took from the pool and discards   *)
(* when anything throws; NoConn on the fresh path, which discards conn.    *)
(***************************************************************************)
Idle == [at |-> "idle", conn |-> NoConn, pooled |-> NoConn, seen |-> FALSE, hops |-> 0]

At(f, places) == call[f].at \in places
Goto(f, place) == call' = [call EXCEPT ![f].at = place]

Send(f, place, c, pooled) ==
  call' = [call EXCEPT ![f].at = place, ![f].conn = c, ![f].pooled = pooled, ![f].seen = FALSE]

\* openConnection() returns a connection nobody has seen.
Fresh(k) ==
  {c \in Conns : KeyOf[c] = k /\ h2[c] = "none" /\ c \notin held \union discarded \union Pool!IdleConns}
Opens(f, c) ==
  LET fresh == Fresh(CallKey[f]) IN fresh # {} /\ c = Min(fresh)

-----------------------------------------------------------------------------
(***************************************************************************)
(* Choosing a connection.                                                  *)
(***************************************************************************)
Fetch(f) ==
  /\ At(f, {"idle"})
  /\ Goto(f, IF clientClosed THEN "failed" ELSE "started")
  /\ UNCHANGED <<poolVars, inflight, h2Vars, clientClosed, served>>

\* exchange(), from pool.take() on.
TakeOrOpen(f) ==
  /\ \/ poolClosed /\ Goto(f, "failed") /\ UNCHANGED poolVars
     \/ \E c \in Conns :
          /\ Pool!TakeHit(CallKey[f], c)
          /\ held' = held \union {c}
          /\ Send(f, "sent", c, c)
     \/ /\ Pool!TakeMiss(CallKey[f])
        /\ Send(f, "opening", NoConn, NoConn)
        /\ UNCHANGED held
  /\ UNCHANGED <<inflight, h2Vars, clientClosed, served>>

CanDispatch(c) == c # NoConn /\ h2[c] = "live"

DispatchShared(f) ==
  LET c == h2map[CallKey[f]] IN
  /\ At(f, {"started"})
  /\ CanDispatch(c)
  /\ Send(f, "shared", c, NoConn)
  /\ UNCHANGED <<poolVars, inflight, h2Vars, clientClosed, served>>

\* A live connection that is at the peer's stream limit cannot dispatch either.
Dispatch(f) ==
  /\ At(f, {"started"})
  /\ CanDispatch(h2map[CallKey[f]]) => "busy" \in Events
  /\ TakeOrOpen(f)

\* openFreshAndSend: ALPN chose HTTP/1.1 ...
OpenedHttp1(f) ==
  \E c \in Conns :
    /\ At(f, {"opening"})
    /\ Opens(f, c)
    /\ held' = held \union {c}
    /\ Send(f, "sent", c, NoConn)
    /\ UNCHANGED <<idle, total, poolClosed, discarded, inflight, h2Vars, clientClosed, served>>

\* ... or HTTP/2: registerHttp2, and the request is its first stream.
OpenedHttp2(f) ==
  \E c \in Conns :
    /\ "h2" \in Events
    /\ At(f, {"opening"})
    /\ Opens(f, c)
    /\ h2' = [h2 EXCEPT ![c] = "live"]
    /\ h2conns' = h2conns \union {c}
    /\ h2map' = [h2map EXCEPT ![CallKey[f]] = c]
    /\ Send(f, "first", c, NoConn)
    /\ UNCHANGED <<poolVars, inflight, clientClosed, served>>

\* openConnection() throws, on the first attempt or on the retry; the retry's
\* error passes through exchange(), which discards the pooled connection again.
OpenFails(f) ==
  /\ At(f, {"opening", "reopening"})
  /\ Goto(f, "failed")
  /\ UNCHANGED <<poolVars, inflight, h2Vars, clientClosed, served>>

-----------------------------------------------------------------------------
(***************************************************************************)
(* sendAndReceive: one exchange over HTTP/1.1.                             *)
(***************************************************************************)

\* The server (external) acts on a request it has received.
ServerActs(f) ==
  /\ At(f, {"sent", "shared", "first"}) /\ ~call[f].seen
  /\ At(f, {"shared", "first"}) => h2[call[f].conn] \in {"live", "goaway"}
  /\ call' = [call EXCEPT ![f].seen = TRUE]
  /\ acted' = [acted EXCEPT ![f] = @ + 1]
  /\ UNCHANGED <<poolVars, inflight, h2Vars, clientClosed, answered>>

\* Bytes of its answer have arrived, when `any` is so.
Answered(f, any) ==
  /\ answered' = [answered EXCEPT ![f] = IF any THEN @ + 1 ELSE @]
  /\ UNCHANGED acted

\* The head is complete and a body follows.
HeadWithBody(f) ==
  /\ At(f, {"sent"}) /\ call[f].seen
  /\ Goto(f, "head")
  /\ Answered(f, TRUE)
  /\ inflight' = inflight \union {f}
  /\ UNCHANGED <<poolVars, h2Vars, clientClosed>>

GiveBack(f, eligible) ==
  /\ Pool!ReleaseConn(CallKey[f], call[f].conn, eligible)
  /\ held' = held \ {call[f].conn}

\* Mutant: the connection goes back at once and again when `completed` settles.
HeadReleasesTwice(f) ==
  \E eligible \in BOOLEAN :
    /\ At(f, {"sent"}) /\ call[f].seen
    /\ GiveBack(f, eligible)
    /\ Goto(f, "head")
    /\ Answered(f, TRUE)
    /\ inflight' = inflight \union {f}
    /\ UNCHANGED <<h2Vars, clientClosed>>

\* No body: `completed` is resolved already and the connection goes back.
HeadWithoutBody(f) ==
  \E eligible \in BOOLEAN :
    /\ At(f, {"sent"}) /\ call[f].seen
    /\ GiveBack(f, eligible)
    /\ Goto(f, "head")
    /\ Answered(f, TRUE)
    /\ UNCHANGED <<inflight, h2Vars, clientClosed>>

\* What the catch clauses of exchange() and openFreshAndSend() throw away.
Discards(f) == IF call[f].pooled = NoConn THEN call[f].conn ELSE call[f].pooled
\* Mutant: the error is passed on and the socket left alone.
ThrowOnly(f) == Goto(f, "failed") /\ UNCHANGED poolVars
Throw(f) ==
  /\ Pool!DiscardConn(Discards(f))
  /\ held' = held \ {Discards(f)}
  /\ Goto(f, "failed")

\* decodeResponseBody refuses the content coding after `completed` was wired to
\* the pool: the body is still arriving when the connection is discarded.
CodingRefused(f) ==
  /\ At(f, {"sent"}) /\ call[f].seen
  /\ Throw(f)
  /\ Answered(f, TRUE)
  /\ inflight' = inflight \union {f}
  /\ UNCHANGED <<h2Vars, clientClosed>>

(***************************************************************************)
(* How waiting for the head may end without one: "silent" is the end of    *)
(* the stream before any byte, which an idle connection that the server    *)
(* has reaped looks like, and so does a server that acts on the request    *)
(* and closes; "mute" is a timeout or a failed write; "partial" is a head  *)
(* that is malformed or stops half way; and "cut" is an end right after a  *)
(* record header or an interim response, which also reports that no byte   *)
(* was buffered.                                                           *)
(***************************************************************************)
Heard == {"partial", "cut"}
Endings(f) ==
  {e \in {"silent", "mute"} \union Heard :
     /\ e \in Heard => call[f].seen
     /\ e = "cut" => "cut" \in Events}

\* Mutant: any failure before the head is taken for a reaped connection.
AlwaysNeverSawIt(ending) == TRUE
ServerNeverSawIt(ending) == ending \in {"silent", "cut"}

\* A reused connection was reaped: discard it and re-send on a fresh one.
RetryFresh(f) ==
  \E ending \in Endings(f) :
    /\ At(f, {"sent"}) /\ call[f].conn = call[f].pooled
    /\ ServerNeverSawIt(ending)
    /\ Pool!DiscardConn(call[f].conn)
    /\ held' = held \ {call[f].conn}
    /\ Goto(f, "reopening")
    /\ Answered(f, ending \in Heard)
    /\ UNCHANGED <<inflight, h2Vars, clientClosed>>

Reopened(f) ==
  \E c \in Conns :
    /\ At(f, {"reopening"})
    /\ Opens(f, c)
    /\ held' = held \union {c}
    /\ Send(f, "sent", c, call[f].pooled)
    /\ UNCHANGED <<idle, total, poolClosed, discarded, inflight, h2Vars, clientClosed, served>>

\* The retry's own failure ("retryFails") passes through exchange()'s catch,
\* which knows only the connection it took from the pool.
Retried(f) == call[f].pooled \notin {NoConn, call[f].conn}

HeadFails(f) ==
  \E ending \in Endings(f) :
    /\ At(f, {"sent"})
    /\ ~(call[f].conn = call[f].pooled /\ ServerNeverSawIt(ending))
    /\ Retried(f) => "retryFails" \in Events
    /\ Throw(f)
    /\ Answered(f, ending \in Heard)
    /\ UNCHANGED <<inflight, h2Vars, clientClosed>>

\* `completed` settles: read to the end over a connection that may be kept, or
\* cancelled, failed, or of a response that forbids reuse.  The body of a
\* response whose coding was refused has no reader and fails with its
\* connection, unless ("refused") it is so short that reading ahead ends it.
BodySettles(f) ==
  \E eligible \in BOOLEAN :
    /\ f \in inflight /\ h2[call[f].conn] = "none"
    /\ eligible /\ At(f, {"failed"}) => "refused" \in Events
    /\ GiveBack(f, eligible)
    /\ inflight' = inflight \ {f}
    /\ UNCHANGED <<call, h2Vars, clientClosed, served>>

-----------------------------------------------------------------------------
(***************************************************************************)
(* sendAndReceiveH2, and what the shared connection reports.               *)
(***************************************************************************)
Http2Head(f) ==
  \E hasBody \in BOOLEAN :
    /\ At(f, {"shared", "first"}) /\ call[f].seen
    /\ Goto(f, "head")
    /\ Answered(f, TRUE)
    /\ inflight' = IF hasBody THEN inflight \union {f} ELSE inflight
    /\ UNCHANGED <<poolVars, h2Vars, clientClosed>>

\* The stream fails; or its content coding is refused, and the body, tracked
\* already, is left to the connection.
Http2Fails(f) ==
  /\ At(f, {"shared", "first"})
  /\ Goto(f, "failed")
  /\ \/ UNCHANGED inflight
     \/ call[f].seen /\ inflight' = inflight \union {f}
  /\ UNCHANGED <<poolVars, h2Vars, clientClosed, served>>

\* Http2Retryable on a shared connection: fall through to the pool.  That the
\* server has not started on the request is RetryOnlyUnprocessed, of Http2Connection.
Http2Retry(f) ==
  /\ "goaway" \in Events
  /\ At(f, {"shared"}) /\ ~call[f].seen
  /\ TakeOrOpen(f)

Http2BodySettles(f) ==
  /\ f \in inflight /\ h2[call[f].conn] # "none"
  /\ inflight' = inflight \ {f}
  /\ UNCHANGED <<poolVars, call, h2Vars, clientClosed, served>>

\* The onClose callback of registerHttp2.
\* Mutant: whatever is registered under the key is forgotten.
ForgetKey(c) == [h2map EXCEPT ![KeyOf[c]] = NoConn]
Forget(c) == [h2map EXCEPT ![KeyOf[c]] = IF @ = c THEN NoConn ELSE @]
Unregister(c) ==
  /\ h2conns' = h2conns \ {c}
  /\ h2map' = Forget(c)

Goaway(c) ==
  /\ "goaway" \in Events
  /\ h2[c] = "live"
  /\ h2' = [h2 EXCEPT ![c] = "goaway"]
  /\ Unregister(c)
  /\ UNCHANGED <<poolVars, call, inflight, clientClosed, served>>

\* Every stream of the connections in `gone` fails, waiting or with a body.
FailStreams(gone) ==
  /\ call' = [f \in Calls |->
       IF At(f, {"shared", "first"}) /\ call[f].conn \in gone
       THEN [call[f] EXCEPT !.at = "failed"] ELSE call[f]]
  /\ inflight' = {f \in inflight : call[f].conn \notin gone}

Http2Dies(c) ==
  /\ h2[c] \in {"live", "goaway"}
  /\ h2' = [h2 EXCEPT ![c] = "dead"]
  /\ Unregister(c)
  /\ FailStreams({c})
  /\ UNCHANGED <<poolVars, clientClosed, served>>

-----------------------------------------------------------------------------
(***************************************************************************)
(* performFetch and Client.close().                                        *)
(***************************************************************************)
Return(f) ==
  /\ At(f, {"head"})
  /\ Goto(f, "returned")
  /\ UNCHANGED <<poolVars, inflight, h2Vars, clientClosed, served>>

MayRedirect(f) == call[f].hops < MaxHops

\* The body of a redirect is cancelled before the next hop.
Redirect(f) ==
  /\ "redirect" \in Events
  /\ At(f, {"head"}) /\ MayRedirect(f)
  /\ IF f \in inflight /\ h2[call[f].conn] = "none"
     THEN GiveBack(f, FALSE) ELSE UNCHANGED poolVars
  /\ inflight' = inflight \ {f}
  /\ call' = [call EXCEPT ![f].at = "started", ![f].hops = @ + 1]
  /\ acted' = [acted EXCEPT ![f] = 0]
  /\ answered' = [answered EXCEPT ![f] = 0]
  /\ UNCHANGED <<h2Vars, clientClosed>>

Close ==
  /\ "close" \in Events
  /\ ~clientClosed
  /\ clientClosed' = TRUE
  /\ Pool!CloseAllConns
  /\ h2' = [c \in Conns |-> IF c \in h2conns THEN "dead" ELSE h2[c]]
  /\ h2conns' = {}
  /\ h2map' = [k \in Keys |-> NoConn]
  /\ FailStreams(h2conns)
  /\ UNCHANGED <<held, served>>

-----------------------------------------------------------------------------
Init ==
  /\ Pool!Init
  /\ call = [f \in Calls |-> Idle]
  /\ inflight = {}
  /\ h2 = [c \in Conns |-> "none"]
  /\ h2map = [k \in Keys |-> NoConn]
  /\ h2conns = {}
  /\ clientClosed = FALSE
  /\ acted = [f \in Calls |-> 0]
  /\ answered = [f \in Calls |-> 0]

Step(f) ==
  \/ Fetch(f) \/ DispatchShared(f) \/ Dispatch(f)
  \/ OpenedHttp1(f) \/ OpenedHttp2(f) \/ OpenFails(f)
  \/ ServerActs(f)
  \/ HeadWithBody(f) \/ HeadWithoutBody(f) \/ CodingRefused(f)
  \/ RetryFresh(f) \/ Reopened(f) \/ HeadFails(f) \/ BodySettles(f)
  \/ Http2Head(f) \/ Http2Fails(f) \/ Http2Retry(f) \/ Http2BodySettles(f)
  \/ Return(f) \/ Redirect(f)

Next ==
  \/ \E f \in Calls : Step(f)
  \/ \E c \in Conns : Goaway(c) \/ Http2Dies(c)
  \/ Close

Spec == Init /\ [][Next]_vars

-----------------------------------------------------------------------------
Places == {"idle", "started", "opening", "sent", "reopening", "shared", "first",
           "head", "returned", "failed"}

TypeOK ==
  /\ Pool!TypeOK
  /\ call \in [Calls -> [at : Places, conn : Conns \union {NoConn},
                         pooled : Conns \union {NoConn}, seen : BOOLEAN, hops : 0..MaxHops]]
  /\ inflight \subseteq Calls
  /\ h2 \in [Conns -> {"none", "live", "goaway", "dead"}]
  /\ h2map \in [Keys -> Conns \union {NoConn}]
  /\ h2conns \subseteq Conns
  /\ clientClosed \in BOOLEAN
  /\ {acted, answered} \subseteq [Calls -> Nat]

\* The client is a caller the pool's theorems are about: it releases and
\* discards only what it holds, under the key it was opened for, and never
\* what it has already given away (exchange, sendAndReceive).
PoolContract == Pool!Spec

\* Two requests never share an HTTP/1.1 connection: one that awaits a head or a
\* body that is still arriving has its connection to itself.
Uses(f) == IF At(f, {"sent"}) \/ f \in inflight THEN {call[f].conn} ELSE {}
NeverShared ==
  \A f, g \in Calls : f # g => {c \in Uses(f) \cap Uses(g) : h2[c] = "none"} = {}

\* A request that the server has begun to answer is never sent again, and any
\* other is sent again once at most, when a connection taken from the pool has
\* ended in silence: so the server acts on it twice at most, and only where the
\* second connection is such a retry (sendAndReceive, serverNeverSawIt).
ResentOnlyInSilence ==
  \A f \in Calls :
    /\ answered[f] <= 1
    /\ acted[f] <= IF Retried(f) THEN 2 ELSE 1

\* A request is acted on at most once per hop: what is re-sent was never seen.
\* "Does this failure prove the peer never saw the request? Only then may it be
\* re-sent" (serverNeverSawIt).
AtMostOnce == \A f \in Calls : acted[f] <= 1

\* No open socket is forgotten: a connection a call has taken is in use by it
\* (exchange, openFreshAndSend, sendAndReceive on every path).
NothingForgotten == \A c \in held : \E f \in Calls : c \in Uses(f)

\* Two calls may race to open a connection for the same key, and the loser's
\* death must not unregister the winner: a live connection leaves the map only
\* for another one or because the client closed (registerHttp2's onClose).
LiveStaysShared ==
  [][\A k \in Keys :
       (CanDispatch(h2map[k]) /\ h2map'[k] = NoConn)
         => h2'[h2map[k]] # "live"]_vars

\* What is registered under a key may be dispatched to and is tracked; what is
\* tracked is open; and what could carry the next request is tracked, even if
\* it has lost the race for its key (registerHttp2).
RegistrySound ==
  /\ \A k \in Keys : h2map[k] # NoConn => CanDispatch(h2map[k]) /\ h2map[k] \in h2conns
  /\ \A c \in h2conns : h2[c] \in {"live", "goaway"}
  /\ \A c \in Conns : h2[c] = "live" => c \in h2conns

\* Every connection is accounted for: in one call's use, shared or registered.
Accounted == NeverShared /\ NothingForgotten /\ RegistrySound

\* "Every live h2 connection, keyed map or not [...] still open and serving its
\* stream, so it must be tracked here or close() would leak it": that includes
\* one that the peer is retiring (_h2conns, _onGoaway).
Serving(c) ==
  /\ h2[c] \in {"live", "goaway"}
  /\ \E f \in Calls : call[f].conn = c /\ (At(f, {"shared", "first"}) \/ f \in inflight)
ServingIsTracked == \A c \in Conns : Serving(c) => c \in h2conns

\* "Nobody is handed a connection that another request is still using, or one
\* that has been closed": the pool's Exclusive, of the pool this client fills.
PoolExclusive == Pool!Exclusive

\* "Release every pooled socket and shared HTTP/2 connection": once the client
\* is closed and every call and body has ended, no socket is left open.
Over == inflight = {} /\ \A f \in Calls : At(f, {"idle", "returned", "failed"})
CloseReleasesAll ==
  (clientClosed /\ Over) =>
    /\ held = {} /\ Pool!IdleConns = {}
    /\ \A c \in Conns : h2[c] \notin {"live", "goaway"}
=============================================================================
