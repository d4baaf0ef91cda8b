-------------------------- MODULE Http2Connection --------------------------
(***************************************************************************)
(* One HTTP/2 connection of src/http2/connection.js as seen by the callers *)
(* that share it: streams opened by request(), the frames the single read  *)
(* loop dispatches to them, the body a caller pulls or cancels, receive    *)
(* flow control wired to consumption, and every teardown path.             *)
(*                                                                         *)
(* The server is external.  What the client writes reaches it at once;     *)
(* what it writes waits in s2c, so every crossing of a client decision and *)
(* a server frame occurs.  Stream number n stands for the wire id 2n - 1.  *)
(* The send windows of an upload are the subject of Http2Upload: here the  *)
(* upload is only its last frame.  Field sections and CONTINUATION frames  *)
(* are abstracted to a HEADERS frame that parses or does not.              *)
(***************************************************************************)
EXTENDS Integers, Sequences, SequencesExt, FiniteSets, FiniteSetsExt

CONSTANTS MaxStreams,    \* streams the callers open
          ConnWindow,    \* connectionWindow option
          StreamWindow,  \* initialWindowSize option
          Bodies,        \* lengths a response body may have
          MaxFrame,      \* bytes the server puts in one DATA frame
          PeerLimits,    \* values of SETTINGS_MAX_CONCURRENT_STREAMS
          MaxWire,       \* server frames in flight
          Scenarios      \* what the callers and the server may do, see events

ASSUME Http2Assumption ==
  /\ {MaxStreams, ConnWindow, StreamWindow, MaxFrame, MaxWire} \subseteq Nat \ {0}
  /\ Bodies \subseteq Nat
  /\ PeerLimits \subseteq Nat
  /\ PeerLimits # {}
  /\ Scenarios \subseteq SUBSET
                      {"upload", "cancel", "abort", "preabort", "close", "padding",
                       "mismatch", "malformed", "trailers", "reset", "goaway",
                       "eof", "settings", "rogue", "single"}

Streams == 1..MaxStreams
NoLength == -1                \* no content-length was declared
NoGoaway == MaxStreams + 1    \* no GOAWAY: every stream is within the promise

VARIABLES events,      \* the scenario: what happens besides plain requests
          st,          \* the stream objects, by stream number
          nextStream,  \* this._nextStreamId
          recvWin,     \* this._connRecvWindow
          consumed,    \* this._connConsumed
          goaway,      \* this._goaway.lastStreamId
          peerMax,     \* this._peerMaxConcurrent
          fatal,       \* this._fatal: "none", or what ended the connection
          s2c,         \* frames written by the server, not yet dispatched
          srv,         \* the server's side of each stream
          srvWin,      \* the credit the server has on the connection
          srvLast      \* the lastStreamId the server has announced

clientVars == <<st, nextStream, recvWin, consumed, goaway, peerMax, fatal>>
serverVars == <<srv, srvWin, srvLast>>
vars == <<events, clientVars, s2c, serverVars>>

-----------------------------------------------------------------------------
(***************************************************************************)
(* The client's stream object.                                             *)
(***************************************************************************)
Unopened ==
  [opened |-> FALSE, closed |-> FALSE, head |-> "pending", responded |-> FALSE,
   queue |-> <<>>, recvEnded |-> FALSE, declared |-> NoLength, exempt |-> FALSE,
   received |-> 0, error |-> "none", completed |-> "pending", pull |-> "none",
   delivered |-> 0, outcome |-> "reading", recvWindow |-> StreamWindow,
   recvConsumed |-> 0, localEnded |-> FALSE, rstSent |-> FALSE]

Live(s) == st[s].opened /\ ~st[s].closed      \* in this._streams
LiveStreams == {s \in Streams : Live(s)}

\* A scenario of a single stream needs no second one.
Used == IF "single" \in events THEN {1} ELSE Streams

WakePull(r) == [r EXCEPT !.pull = IF @ = "blocked" THEN "running" ELSE @]

RemoveStream(r) == WakePull([r EXCEPT !.closed = TRUE])

Settle(current, value) == IF current = "pending" THEN value ELSE current

RejectStream(r, e) ==
  WakePull([r EXCEPT !.error     = IF @ = "none" THEN e ELSE @,
                     !.head      = Settle(@, e),
                     !.completed = Settle(@, "rejected")])

\* Mutant: the stream is dropped and its waiters are never told.
FailStreamSilently(r, e) == RemoveStream(r)
FailStream(r, e) == RejectStream(RemoveStream(r), e)

\* Mutant: one ended half is enough.
MaybeCloseEarly(r) == IF r.recvEnded \/ r.localEnded THEN RemoveStream(r) ELSE r
MaybeClose(r) == IF r.recvEnded /\ r.localEnded THEN RemoveStream(r) ELSE r

\* Mutant: credit is owed only beyond a whole window.
ThresholdTooLate(window) == window + 1
Threshold(window) == Max({1, window \div 2})

\* _replenish: the stream's credit grows by n; the peer hears of it in one
\* WINDOW_UPDATE once half a window is owed, unless the stream is gone (which
\* the mutant forgets).
StreamOwesWhenGone(r, n) == r.recvConsumed + n >= Threshold(StreamWindow)
StreamOwes(r, n) == r.recvConsumed + n >= Threshold(StreamWindow) /\ ~r.closed

\* Mutant: the window grows twice.
ReplenishTwice(r, n) ==
  [r EXCEPT !.recvWindow   = @ + 2 * n,
            !.recvConsumed = IF StreamOwes(r, n) THEN 0 ELSE @ + n]
ReplenishStream(r, n) ==
  [r EXCEPT !.recvWindow   = @ + n,
            !.recvConsumed = IF StreamOwes(r, n) THEN 0 ELSE @ + n]

-----------------------------------------------------------------------------
(***************************************************************************)
(* What the server learns from the frames the client writes.               *)
(***************************************************************************)
Unseen ==
  [open |-> FALSE, clientEnded |-> FALSE, gotRst |-> FALSE, late |-> FALSE,
   processed |-> FALSE, headers |-> FALSE, left |-> 0, sent |-> 0,
   ended |-> FALSE, rst |-> FALSE, win |-> StreamWindow]

PeerGetsRst(v, s) == [v EXCEPT ![s].gotRst = TRUE, ![s].late = v[s].gotRst]
PeerGetsCredit(v, s, n) == [v EXCEPT ![s].win = @ + n, ![s].late = v[s].gotRst \/ @]

\* _resetStream: RST_STREAM once, then the stream is forgotten and rejected.
ResetStream(s, r, e) ==
  /\ st' = [st EXCEPT ![s] = FailStream([r EXCEPT !.rstSent = TRUE], e)]
  /\ srv' = IF r.rstSent THEN srv ELSE PeerGetsRst(srv, s)

\* _consumeStream(stream, n) and the two halves it calls.
ReplenishPeer(v, s, r, n) ==
  IF n > 0 /\ StreamOwes(r, n) /\ fatal = "none"
  THEN PeerGetsCredit(v, s, r.recvConsumed + n) ELSE v

\* Debit `taken` bytes of the connection window and credit `given` back.
ConnCredit(taken, given) ==
  LET owed == consumed + given
      pays == given > 0 /\ owed >= Threshold(ConnWindow)
  IN /\ recvWin' = recvWin - taken + given
     /\ consumed' = IF pays THEN 0 ELSE owed
     /\ srvWin' = IF pays /\ fatal = "none" THEN srvWin + owed ELSE srvWin

\* DATA that no stream takes: nobody will drain it, so it is credited at once
\* (which the mutant forgets).
StrayUncredited(flow) == ConnCredit(flow, 0)
StrayCredited(flow) == ConnCredit(flow, flow)

-----------------------------------------------------------------------------
(***************************************************************************)
(* The callers.                                                            *)
(***************************************************************************)
MayRequest ==
  /\ fatal = "none"
  /\ goaway = NoGoaway
  /\ Cardinality(LiveStreams) < peerMax
  /\ nextStream \in Used

\* request(): HEADERS go out, with END_STREAM unless a body follows.
Request(hasBody) ==
  LET s == nextStream IN
  /\ MayRequest
  /\ hasBody => "upload" \in events
  /\ st' = [st EXCEPT ![s].opened = TRUE, ![s].localEnded = ~hasBody]
  /\ srv' = [srv EXCEPT ![s].open = TRUE, ![s].clientEnded = ~hasBody]
  /\ nextStream' = nextStream + 1
  /\ UNCHANGED <<events, recvWin, consumed, goaway, peerMax, fatal, s2c, srvWin, srvLast>>

\* request() with a signal that is already aborted: the stream is created and
\* reset before its HEADERS were ever written.
RequestAborted ==
  LET s == nextStream IN
  /\ "preabort" \in events
  /\ MayRequest
  /\ ResetStream(s, [st[s] EXCEPT !.opened = TRUE], "aborted")
  /\ nextStream' = nextStream + 1
  /\ UNCHANGED <<events, recvWin, consumed, goaway, peerMax, fatal, s2c, srvWin, srvLast>>

\* onAbort: the request's signal fires, at any time before the stream is gone.
Abort(s) ==
  /\ "abort" \in events
  /\ Live(s)
  /\ ResetStream(s, st[s], "aborted")
  /\ UNCHANGED <<events, nextStream, recvWin, consumed, goaway, peerMax, fatal, s2c, srvWin, srvLast>>

\* _sendBody writes the last DATA frame ...
SendLastData(s) ==
  /\ Live(s) /\ ~srv[s].clientEnded
  /\ srv' = [srv EXCEPT ![s].clientEnded = TRUE, ![s].late = srv[s].gotRst]
  /\ UNCHANGED <<events, clientVars, s2c, srvWin, srvLast>>

\* ... and marks the local half ended when that write has been accepted.
LastDataWritten(s) ==
  /\ Live(s) /\ srv[s].clientEnded /\ ~st[s].localEnded
  /\ st' = [st EXCEPT ![s] = MaybeClose([@ EXCEPT !.localEnded = TRUE])]
  /\ UNCHANGED <<events, nextStream, recvWin, consumed, goaway, peerMax, fatal, s2c, serverVars>>

\* The caller asks the body for its next chunk: pull() starts.
Read(s) ==
  /\ st[s].head = "ok" /\ st[s].outcome = "reading" /\ st[s].pull = "none"
  /\ st' = [st EXCEPT ![s].pull = "running"]
  /\ UNCHANGED <<events, nextStream, recvWin, consumed, goaway, peerMax, fatal, s2c, serverVars>>

\* Mutant: the newest chunk leaves the queue instead of the oldest.
TakeNewestChunk(r) ==
  [r EXCEPT !.queue = Front(@), !.delivered = @ + Head(r.queue).len, !.pull = "none"]
TakeChunk(r) ==
  [r EXCEPT !.queue = Tail(@), !.delivered = @ + Head(r.queue).len, !.pull = "none"]

\* One turn of pull()'s loop: a chunk, the error, the end, or wait.
PullChunk(s) ==
  LET r == st[s]
      n == Head(r.queue).len
  IN /\ r.pull = "running" /\ r.queue # <<>>
     /\ st' = [st EXCEPT ![s] = ReplenishStream(TakeChunk(r), n)]
     /\ srv' = ReplenishPeer(srv, s, r, n)
     /\ ConnCredit(0, n)
     /\ UNCHANGED <<events, nextStream, goaway, peerMax, fatal, s2c, srvLast>>

BodyFails(r) == [r EXCEPT !.pull = "none", !.outcome = "error", !.completed = Settle(@, "rejected")]
BodyEnds(r)  == [r EXCEPT !.pull = "none", !.outcome = "done", !.completed = Settle(@, "whole")]
BodyWaits(r) == [r EXCEPT !.pull = "blocked"]

\* Mutant: a stream that has left the map is taken for a finished one.
DrainedClosedIsDone(r) ==
  IF r.closed \/ r.recvEnded THEN BodyEnds(r)
  ELSE IF r.error # "none" THEN BodyFails(r) ELSE BodyWaits(r)
Drained(r) ==
  IF r.error # "none" THEN BodyFails(r)
  ELSE IF r.recvEnded THEN BodyEnds(r) ELSE BodyWaits(r)

PullOutcome(s) ==
  /\ st[s].pull = "running" /\ st[s].queue = <<>>
  /\ st' = [st EXCEPT ![s] = Drained(st[s])]
  /\ UNCHANGED <<events, nextStream, recvWin, consumed, goaway, peerMax, fatal, s2c, serverVars>>

\* cancel(): the caller abandons the body at an unknown position.
Cancel(s) ==
  LET r == st[s] IN
  /\ "cancel" \in events
  /\ r.head = "ok" /\ r.outcome = "reading"
  /\ st' = [st EXCEPT ![s] = [r EXCEPT !.closed = TRUE, !.rstSent = TRUE,
                                       !.completed = Settle(@, "partial"),
                                       !.outcome = "cancelled", !.pull = "none"]]
  /\ srv' = IF r.rstSent \/ fatal # "none" THEN srv ELSE PeerGetsRst(srv, s)
  /\ UNCHANGED <<events, nextStream, recvWin, consumed, goaway, peerMax, fatal, s2c, srvWin, srvLast>>

\* _die and close: every live stream fails, nothing more is read.
Shutdown(e) ==
  /\ fatal = "none"
  /\ fatal' = e
  /\ st' = [s \in Streams |-> IF Live(s) THEN FailStream(st[s], e) ELSE st[s]]
  /\ s2c' = <<>>

Close ==
  /\ "close" \in events
  /\ Shutdown("closed")
  /\ UNCHANGED <<events, nextStream, recvWin, consumed, goaway, peerMax, serverVars>>

-----------------------------------------------------------------------------
(***************************************************************************)
(* The read loop: one action per frame handler, on the oldest frame.       *)
(***************************************************************************)
Receives(type) == fatal = "none" /\ s2c # <<>> /\ Head(s2c).type = type

LengthAgrees(r) == r.exempt \/ r.declared \in {NoLength, r.received}

\* _endRecv: the response's half ends cleanly only at its declared length.
EndRecv(s, r) ==
  IF LengthAgrees(r)
  THEN /\ st' = [st EXCEPT ![s] = MaybeClose(WakePull([r EXCEPT !.recvEnded = TRUE]))]
       /\ UNCHANGED srv
  ELSE ResetStream(s, r, "malformed")

\* _deliverResponseHead, for the final (not 1xx) header block.
OnResponseHead ==
  LET f == Head(s2c)
      s == f.stream
      r == [st[s] EXCEPT !.responded = TRUE, !.declared = f.declared, !.exempt = f.exempt]
      complete == [r EXCEPT !.head = "ok", !.completed = "whole", !.recvEnded = TRUE]
  IN /\ Receives("headers")
     /\ Live(s) /\ ~st[s].responded
     /\ \/ /\ f.malformed
           /\ ResetStream(s, st[s], "malformed")
        \/ /\ ~f.malformed /\ ~f.end
           /\ st' = [st EXCEPT ![s] = [r EXCEPT !.head = "ok"]]
           /\ UNCHANGED srv
        \/ /\ ~f.malformed /\ f.end /\ LengthAgrees(r)
           /\ st' = [st EXCEPT ![s] = MaybeClose(complete)]
           /\ UNCHANGED srv
        \/ /\ ~f.malformed /\ f.end /\ ~LengthAgrees(r)
           /\ ResetStream(s, r, "malformed")
     /\ s2c' = Tail(s2c)
     /\ UNCHANGED <<events, nextStream, recvWin, consumed, goaway, peerMax, fatal, srvWin, srvLast>>

\* _deliverTrailers: a second header block must end the stream.
OnTrailers ==
  LET f == Head(s2c)
      s == f.stream
  IN /\ Receives("headers")
     /\ Live(s) /\ st[s].responded
     /\ IF f.end /\ ~f.malformed THEN EndRecv(s, st[s]) ELSE ResetStream(s, st[s], "malformed")
     /\ s2c' = Tail(s2c)
     /\ UNCHANGED <<events, nextStream, recvWin, consumed, goaway, peerMax, fatal, srvWin, srvLast>>

\* _onData, up to the point where the bytes belong to a stream.
OnData ==
  LET f == Head(s2c)
      s == f.stream
      flow == f.len + f.pad
      padded == IF f.pad > 0 THEN ReplenishStream([st[s] EXCEPT !.recvWindow = @ - flow], f.pad)
                             ELSE [st[s] EXCEPT !.recvWindow = @ - flow]
      r == [padded EXCEPT !.received = @ + f.len]
      queued == WakePull([r EXCEPT !.queue = Append(@, [stream |-> s, from |-> f.from, len |-> f.len])])
      full == IF f.len > 0 THEN queued ELSE r
      paid == ReplenishPeer(srv, s, st[s], f.pad)
      tooLong == r.declared # NoLength /\ r.received > r.declared
  IN /\ Receives("data")
     /\ recvWin >= flow
     /\ s2c' = Tail(s2c)
     /\ \/ /\ ~Live(s)
           /\ StrayCredited(flow)
           /\ UNCHANGED <<st, srv>>
        \/ /\ Live(s)
           /\ ~st[s].responded \/ st[s].recvWindow < flow
           /\ ConnCredit(flow, 0)
           /\ ResetStream(s, [st[s] EXCEPT !.recvWindow = IF st[s].responded THEN @ - flow ELSE @],
                          "protocol")
        \/ /\ Live(s) /\ st[s].responded /\ st[s].recvWindow >= flow
           /\ ConnCredit(flow, f.pad)
           /\ IF tooLong \/ (f.end /\ ~LengthAgrees(full))
              THEN /\ st' = [st EXCEPT ![s] = FailStream([(IF tooLong THEN r ELSE full)
                                                            EXCEPT !.rstSent = TRUE], "malformed")]
                   /\ srv' = IF r.rstSent THEN paid ELSE PeerGetsRst(paid, s)
              ELSE /\ st' = [st EXCEPT ![s] =
                               IF f.end THEN MaybeClose(WakePull([full EXCEPT !.recvEnded = TRUE]))
                                        ELSE full]
                   /\ srv' = paid
     /\ UNCHANGED <<events, nextStream, goaway, peerMax, fatal, srvLast>>

\* A peer that overran the connection window: a connection error.
OnDataOverrun ==
  /\ Receives("data")
  /\ Head(s2c).len + Head(s2c).pad > recvWin
  /\ recvWin' = recvWin - Head(s2c).len - Head(s2c).pad
  /\ Shutdown("overrun")
  /\ UNCHANGED <<events, nextStream, consumed, goaway, peerMax, serverVars>>

\* Frames for a stream that is no longer in the map are dropped.
OnUnknownStream ==
  /\ Receives("headers") \/ Receives("rst")
  /\ ~Live(Head(s2c).stream)
  /\ s2c' = Tail(s2c)
  /\ UNCHANGED <<events, clientVars, serverVars>>

OnRstStream ==
  LET f == Head(s2c)
      s == f.stream
      retryable == f.refused /\ ~st[s].responded
  IN /\ Receives("rst")
     /\ Live(s)
     /\ st' = [st EXCEPT ![s] = FailStream(@, IF retryable THEN "retryable" ELSE "peerReset")]
     /\ s2c' = Tail(s2c)
     /\ UNCHANGED <<events, nextStream, recvWin, consumed, goaway, peerMax, fatal, serverVars>>

\* Mutant: the last stream of the promise is handed back as well.
OrphanedFromLast(s, last) == Live(s) /\ s >= last /\ ~st[s].responded
Orphaned(s, last) == Live(s) /\ s > last /\ ~st[s].responded

\* Streams beyond the promise and without a response are handed back.
OnGoaway ==
  LET last == Head(s2c).last
  IN /\ Receives("goaway")
     /\ goaway' = last
     /\ st' = [s \in Streams |-> IF Orphaned(s, last) THEN FailStream(st[s], "retryable") ELSE st[s]]
     /\ s2c' = Tail(s2c)
     /\ UNCHANGED <<events, nextStream, recvWin, consumed, peerMax, fatal, serverVars>>

OnSettings ==
  /\ Receives("settings")
  /\ peerMax' = Head(s2c).limit
  /\ s2c' = Tail(s2c)
  /\ UNCHANGED <<events, st, nextStream, recvWin, consumed, goaway, fatal, serverVars>>

\* readFrame returned null: the transport ended.
OnEof ==
  /\ Receives("eof")
  /\ Shutdown(IF LiveStreams = {} THEN "ended" ELSE "truncated")
  /\ UNCHANGED <<events, nextStream, recvWin, consumed, goaway, peerMax, serverVars>>

-----------------------------------------------------------------------------
(***************************************************************************)
(* The server (external): it follows RFC 9113 unless events has "rogue".   *)
(***************************************************************************)
Write(frame) ==
  /\ fatal = "none"
  /\ Len(s2c) < MaxWire
  /\ \A i \in DOMAIN s2c : s2c[i].type # "eof"
  /\ s2c' = Append(s2c, frame)

Serves(s) == srv[s].open /\ ~srv[s].gotRst /\ ~srv[s].rst /\ ~srv[s].ended

\* The application behind the server starts on a request.
SrvProcess(s) ==
  /\ Serves(s) /\ ~srv[s].processed /\ s <= srvLast
  /\ srv' = [srv EXCEPT ![s].processed = TRUE]
  /\ UNCHANGED <<events, clientVars, s2c, srvWin, srvLast>>

HeadersFrame(s, declared, exempt, end, malformed) ==
  [type |-> "headers", stream |-> s, declared |-> declared, exempt |-> exempt,
   end |-> end, malformed |-> malformed]

\* `exempt` is a response to HEAD, a 204 or a 304: no body whatever it declares.
SrvHeaders(s) ==
  \E body \in Bodies, declared \in Bodies \union {NoLength}, end, exempt \in BOOLEAN :
    /\ Serves(s) /\ srv[s].processed /\ ~srv[s].headers
    /\ declared \in {NoLength, body} \/ exempt \/ "mismatch" \in events
    /\ exempt => end
    /\ end => body = 0
    /\ Write(HeadersFrame(s, declared, exempt, end, FALSE))
    /\ srv' = [srv EXCEPT ![s].headers = TRUE, ![s].left = body, ![s].ended = end]
    /\ UNCHANGED <<events, clientVars, srvWin, srvLast>>

SrvMalformed(s) ==
  /\ "malformed" \in events
  /\ Serves(s) /\ srv[s].processed /\ ~srv[s].headers
  /\ Write(HeadersFrame(s, NoLength, FALSE, FALSE, TRUE))
  /\ srv' = [srv EXCEPT ![s].headers = TRUE]
  /\ UNCHANGED <<events, clientVars, srvWin, srvLast>>

DataFrame(s, len, pad, end) ==
  [type |-> "data", stream |-> s, from |-> srv[s].sent, len |-> len, pad |-> pad, end |-> end]

SrvData(s) ==
  \E len \in 0..MaxFrame, pad \in 0..1, end \in BOOLEAN :
    /\ Serves(s) /\ srv[s].headers
    /\ len <= srv[s].left
    /\ len > 0 \/ (end /\ pad = 0)
    /\ pad = 1 => "padding" \in events
    /\ len + pad <= srv[s].win /\ len + pad <= srvWin
    /\ end => len = srv[s].left
    /\ Write(DataFrame(s, len, pad, end))
    /\ srv' = [srv EXCEPT ![s].left = @ - len, ![s].sent = @ + len,
                          ![s].win = @ - len - pad, ![s].ended = end]
    /\ srvWin' = srvWin - len - pad
    /\ UNCHANGED <<events, clientVars, srvLast>>

SrvTrailers(s) ==
  /\ "trailers" \in events
  /\ Serves(s) /\ srv[s].headers /\ srv[s].left = 0
  /\ Write(HeadersFrame(s, NoLength, FALSE, TRUE, FALSE))
  /\ srv' = [srv EXCEPT ![s].ended = TRUE]
  /\ UNCHANGED <<events, clientVars, srvWin, srvLast>>

\* Also after a complete response whose request is still being uploaded.
SrvRst(s) ==
  \E refused \in BOOLEAN :
    /\ "reset" \in events
    /\ srv[s].open /\ ~srv[s].gotRst /\ ~srv[s].rst
    /\ ~(srv[s].ended /\ srv[s].clientEnded)
    /\ refused => ~srv[s].processed
    /\ Write([type |-> "rst", stream |-> s, refused |-> refused])
    /\ srv' = [srv EXCEPT ![s].rst = TRUE]
    /\ UNCHANGED <<events, clientVars, srvWin, srvLast>>

SrvGoaway ==
  \E last \in 0..MaxStreams :
    /\ "goaway" \in events
    /\ last < srvLast
    /\ \A s \in Streams : srv[s].processed => s <= last
    /\ Write([type |-> "goaway", last |-> last])
    /\ srvLast' = last
    /\ UNCHANGED <<events, clientVars, srv, srvWin>>

SrvSettings ==
  \E limit \in PeerLimits :
    /\ "settings" \in events
    /\ Write([type |-> "settings", limit |-> limit])
    /\ UNCHANGED <<events, clientVars, serverVars>>

\* A server must treat RST_STREAM on an idle stream as a connection error.
IdleReset == \E s \in Streams : srv[s].gotRst /\ ~srv[s].open

SrvEof ==
  /\ "eof" \in events \/ IdleReset
  /\ Write([type |-> "eof"])
  /\ UNCHANGED <<events, clientVars, serverVars>>

\* A server that sends DATA whenever it likes: before the head, after the
\* end, beyond its credit, or on a stream it has no business with.
SrvRogueData(s) ==
  \E len \in 1..MaxFrame, end \in BOOLEAN :
    /\ "rogue" \in events /\ s \in Used
    /\ srv[s].sent + len <= ConnWindow + MaxFrame
    /\ Write(DataFrame(s, len, 0, end))
    /\ srv' = [srv EXCEPT ![s].sent = @ + len, ![s].left = 0]
    /\ UNCHANGED <<events, clientVars, srvWin, srvLast>>

-----------------------------------------------------------------------------
Init ==
  /\ events \in Scenarios
  /\ st = [s \in Streams |-> Unopened]
  /\ nextStream = 1
  /\ recvWin = ConnWindow
  /\ consumed = 0
  /\ goaway = NoGoaway
  /\ peerMax \in PeerLimits
  /\ "settings" \in events \/ peerMax = Max(PeerLimits)
  /\ fatal = "none"
  /\ s2c = <<>>
  /\ srv = [s \in Streams |-> Unseen]
  /\ srvWin = ConnWindow
  /\ srvLast = NoGoaway

Pull(s) == PullChunk(s) \/ PullOutcome(s)

Caller ==
  \/ \E hasBody \in BOOLEAN : Request(hasBody)
  \/ RequestAborted
  \/ \E s \in Streams : \/ Abort(s) \/ SendLastData(s) \/ LastDataWritten(s)
                        \/ Read(s) \/ Pull(s) \/ Cancel(s)
  \/ Close

OnFrame ==
  \/ OnResponseHead \/ OnTrailers \/ OnData \/ OnDataOverrun \/ OnUnknownStream
  \/ OnRstStream \/ OnGoaway \/ OnSettings \/ OnEof

Server ==
  \/ \E s \in Streams : \/ SrvProcess(s) \/ SrvHeaders(s) \/ SrvMalformed(s) \/ SrvData(s)
                        \/ SrvTrailers(s) \/ SrvRst(s) \/ SrvRogueData(s)
  \/ SrvGoaway \/ SrvSettings \/ SrvEof

Next == Caller \/ OnFrame \/ Server

Spec == Init /\ [][Next]_vars

\* The runtime runs every ready microtask and the read loop takes every frame
\* that arrives; FairSpec adds a server that keeps sending what it may send and
\* callers that keep reading.
Fairness ==
  /\ WF_vars(OnFrame)
  /\ \A s \in Streams :
       /\ WF_vars(Pull(s)) /\ WF_vars(Read(s))
       /\ WF_vars(SendLastData(s)) /\ WF_vars(LastDataWritten(s))
       /\ WF_vars(SrvProcess(s)) /\ WF_vars(SrvHeaders(s)) /\ SF_vars(SrvData(s))

FairSpec == Spec /\ Fairness

-----------------------------------------------------------------------------
Failures == {"aborted", "malformed", "protocol", "retryable", "peerReset",
             "closed", "overrun", "ended", "truncated"}

Chunks == [stream : Streams, from : Nat, len : Nat]

StreamType ==
  [opened : BOOLEAN, closed : BOOLEAN, head : {"pending", "ok"} \union Failures,
   responded : BOOLEAN, queue : Seq(Chunks), recvEnded : BOOLEAN, declared : Int,
   exempt : BOOLEAN, received : Nat, error : {"none"} \union Failures,
   completed : {"pending", "whole", "partial", "rejected"},
   pull : {"none", "running", "blocked"}, delivered : Nat,
   outcome : {"reading", "done", "error", "cancelled"}, recvWindow : Int,
   recvConsumed : Nat, localEnded : BOOLEAN, rstSent : BOOLEAN]

ServerType ==
  [open : BOOLEAN, clientEnded : BOOLEAN, gotRst : BOOLEAN, late : BOOLEAN,
   processed : BOOLEAN, headers : BOOLEAN, left : Nat, sent : Nat,
   ended : BOOLEAN, rst : BOOLEAN, win : Int]

TypeOK ==
  /\ st \in [Streams -> StreamType]
  /\ srv \in [Streams -> ServerType]
  /\ nextStream \in 1..(MaxStreams + 1)
  /\ recvWin \in Int /\ consumed \in Nat /\ srvWin \in Int
  /\ goaway \in 0..NoGoaway /\ srvLast \in 0..NoGoaway
  /\ peerMax \in PeerLimits
  /\ fatal \in {"none"} \union Failures
  /\ events \in Scenarios

\* The sum of a sequence of numbers.
Total(nums) ==
  LET upTo[i \in 0..Len(nums)] == IF i = 0 THEN 0 ELSE upTo[i - 1] + nums[i]
  IN upTo[Len(nums)]

\* The bytes of flow control that are on the way to a stream, those that wait
\* for its reader, and either for all the streams.
FlowTo(f, s) == IF f.type = "data" /\ f.stream = s THEN f.len + f.pad ELSE 0
InFlight(s) == Total([i \in DOMAIN s2c |-> FlowTo(s2c[i], s)])
Queued(s) == Total([i \in DOMAIN st[s].queue |-> st[s].queue[i].len])
AllInFlight == Total([s \in Streams |-> InFlight(s)])
AllQueued == Total([s \in Streams |-> Queued(s)])

\* A server that sends DATA only where and when it may.
Honest == "rogue" \notin events

\* A body's queue continues exactly where its reader stands, with bytes of its
\* own stream: one response's bytes are never delivered as another's, nor
\* dropped or repeated in the middle (_onData, pull).
OwnBytesInOrder ==
  Honest => \A s \in Streams : \A i \in DOMAIN st[s].queue :
    LET c == st[s].queue[i] IN
    /\ c.stream = s
    /\ c.from = IF i = 1 THEN st[s].delivered
                ELSE st[s].queue[i - 1].from + st[s].queue[i - 1].len

\* Nobody waits on a dead stream: once a stream has left the map its head has
\* settled, and a blocked pull belongs to a live stream with nothing to give
\* (_removeStream, _rejectStream, _wakePull on every path).
NobodyLeftWaiting ==
  \A s \in Streams :
    /\ st[s].closed => st[s].head # "pending"
    /\ st[s].pull = "blocked" =>
         /\ Live(s) /\ ~st[s].recvEnded
         /\ st[s].queue = <<>> /\ st[s].error = "none"

\* A request is handed back for a retry only if the server never started on it
\* and never will: REFUSED_STREAM, or a GOAWAY that excludes it (Http2Retryable).
RetryOnlyUnprocessed ==
  \A s \in Streams : st[s].head = "retryable" => ~srv[s].processed

\* The two ends agree on the credit: what we would still accept is what the
\* server may still send, plus what is on the way, plus what we owe it.
CreditAgrees ==
  (fatal = "none" /\ Honest) =>
    /\ recvWin = srvWin + AllInFlight + consumed
    /\ \A s \in LiveStreams :
         st[s].recvWindow = srv[s].win + InFlight(s) + st[s].recvConsumed

\* A server that respects the credit it was given is never accused of
\* overrunning it, on the connection or on a stream (_onData).
HonestServerNotBlamed ==
  Honest =>
  /\ fatal # "overrun"
  /\ \A s \in Streams : st[s].error # "protocol"

\* No credit is lost: a byte of a window that the peer may not spend was
\* brought by a body and not read, and it waits in the queue of that body.
\* Two bodies keep it there for good: one cancelled with bytes in its queue,
\* and one that overran its declared length, whose last frame is dropped.
Overlong(s) == st[s].declared # NoLength /\ st[s].received > st[s].declared
Unread(s) == st[s].received - st[s].delivered
AllUnread == Total([s \in Streams |-> Unread(s)])
CreditConserved ==
  (fatal = "none" /\ Honest) =>
    /\ recvWin + AllUnread = ConnWindow
    /\ \A s \in LiveStreams : st[s].recvWindow + Queued(s) = StreamWindow
    /\ \A s \in Streams : /\ Unread(s) = Queued(s) \/ Overlong(s)
                         /\ Queued(s) > 0 => /\ st[s].head = "ok"
                                             /\ st[s].outcome \in {"reading", "cancelled"}

\* What is owed is paid before it amounts to half a window, so a sender whose
\* window has closed, while nobody holds its bytes, hears of it (_replenish,
\* _replenishConn).
OwesLittle(n, window) == n = 0 \/ 2 * n < window
CreditPaid ==
  /\ OwesLittle(consumed, ConnWindow)
  /\ \A s \in LiveStreams : OwesLittle(st[s].recvConsumed, StreamWindow)

\* While a connection is alive the two ends agree on the credit, none of it is
\* lost but with a body that was cancelled or overran its length, and what is
\* owed is paid.
CreditKept == CreditAgrees /\ HonestServerNotBlamed /\ CreditConserved /\ CreditPaid

\* Backpressure: what is buffered for a slow reader never exceeds the window
\* of its stream, nor that of the connection, whatever the server sends.
BufferBounded ==
  /\ \A s \in Streams : Queued(s) <= StreamWindow
  /\ AllQueued <= ConnWindow

\* A body read to its end that declared a length has that length, even if the
\* server goes on sending after END_STREAM (_endRecv and the check in _onData).
LengthHonoured ==
  \A s \in Streams :
    (st[s].outcome = "done" /\ ~st[s].exempt /\ st[s].declared # NoLength)
      => st[s].delivered = st[s].declared

\* A body's bytes are its own, in order, and as many as were declared.
BytesExact == OwnBytesInOrder /\ LengthHonoured

\* After our RST_STREAM nothing more is written for that stream: no second
\* reset, no WINDOW_UPDATE as the reader drains, no DATA (_replenish, _sendBody).
SilentAfterReset == \A s \in Streams : ~srv[s].late

\* Each stream's body keeps the promise of ResponseBody.
Body(s) == INSTANCE ResponseBody
  WITH sent <- srv[s].sent, ended <- srv[s].ended,
       delivered <- st[s].delivered, outcome <- st[s].outcome
BodiesAsPromised ==
  /\ \A s \in Streams : Body(s)!Init
  /\ [][\A s \in Streams : [Body(s)!Next]_(Body(s)!bodyVars)]_vars

\* The server never has more streams open than the limit the client has seen
\* when it opens one more: a stream leaves the map only once the server can
\* count it closed too (_maybeCloseStream, _sendRst, request).
ServerOpen ==
  {s \in Streams : /\ srv[s].open /\ ~srv[s].gotRst /\ ~srv[s].rst
                   /\ ~(srv[s].ended /\ srv[s].clientEnded)}
WithinPeerLimit ==
  [][(\E s \in Streams : srv'[s].open /\ ~srv[s].open)
       => Cardinality(ServerOpen') <= peerMax]_vars

\* "The peer spent connection window to send it, and not crediting it back
\* would slowly starve the connection": when every stream is gone, nothing is
\* in flight and no reader still holds bytes, all the credit is back.
Readable(s) == st[s].outcome = "reading" /\ st[s].queue # <<>>
CreditReturned ==
  (fatal = "none" /\ LiveStreams = {} /\ ~\E s \in Streams : Readable(s) \/ InFlight(s) > 0)
    => srvWin + consumed = ConnWindow

\* Every read of a body settles: with a chunk, the end or an error.  A window
\* that is not reopened in time would stall here, which looks exactly like a
\* hung server.
ReadsSettle == \A s \in Streams : st[s].pull # "none" ~> st[s].pull = "none"
=============================================================================
