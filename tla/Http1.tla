------------------------------- MODULE Http1 -------------------------------
(***************************************************************************)
(* One HTTP/1.1 connection and the responses read from it, one request     *)
(* after another: the head (src/http1/response.js readResponseHead), how   *)
(* the message ends (bodyFraming), the body stream of each framing         *)
(* (readResponseBody, src/http1/chunked.js decodeChunked) and what happens *)
(* to the connection when the body settles (src/client.js sendAndReceive). *)
(*                                                                         *)
(* The bytes are abstracted to tokens: a 1xx head, a head, a chunk-size    *)
(* line, a data byte, the CRLF after chunk data, a trailer line, the blank *)
(* line.  The server is external and conforming, except that it may frame  *)
(* a message ambiguously, garble a line, stop in the middle, or never go   *)
(* on.  Retrying on a fresh connection is in ClientExchange.               *)
(***************************************************************************)
EXTENDS Naturals, Sequences, SequencesExt, FiniteSetsExt

CONSTANTS MaxRequests,      \* requests sent on the connection
          Methods,
          Responses,        \* what the server may answer, see BodyTokens
          MaxHeaderBytes,   \* limits.maxHeaderBytes, in head units
          MaxBodyBytes,     \* maxBodyBytes
          MaxChunkSize,     \* decodeChunked's maxChunkSize
          MaxTrailerBytes,  \* decodeChunked's maxTrailerBytes, in lines
          Faults            \* what the server may do wrong, see Send and ServerEnds

(***************************************************************************)
(* A response: `infos` 1xx heads before the head, the `size` of the head,  *)
(* 204 or 304 (`bodiless`), the elements of Transfer-Encoding and of       *)
(* Content-Length, whether its Connection field or version asks for the    *)
(* connection to be closed, its chunks and the number of its trailers.     *)
(***************************************************************************)
ASSUME Http1Assumption ==
  /\ MaxRequests \in Nat /\ MaxHeaderBytes \in Nat /\ MaxBodyBytes \in Nat
  /\ MaxChunkSize \in Nat /\ MaxTrailerBytes \in Nat
  /\ Methods \subseteq {"GET", "HEAD"}
  /\ Faults \subseteq {"garbled", "cut", "broken"}
  /\ \A r \in Responses :
       /\ {r.infos, r.size, r.trailers} \subseteq Nat
       /\ {r.bodiless, r.close} \subseteq BOOLEAN
       /\ r.te \in Seq({"chunked", "identity", "gzip"})
       /\ r.cl \in Seq(Nat) /\ r.chunks \in Seq(Nat \ {0})

VARIABLES request,    \* how many requests have been sent
          method,     \* the method of the current one
          resp,       \* the server's answer to it
          plan,       \* the tokens the server has yet to send
          wire,       \* tokens sent and not yet read by conn._reader
          tail,       \* the transport: "open", "eof" or "error"
          conn,       \* "idle" in the pool, "held" by the exchange, "closed"
          at,         \* "start", "head", "body" or "failed"
          budget,     \* readResponseHead's budget.left
          framing,    \* bodyFraming's result
          chunk,      \* decodeChunked's state, remaining and total
          raw,        \* the stream readResponseBody returned
          completed   \* its `completed` promise

serverVars == <<method, resp, plan, tail>>
readerVars == <<at, budget, framing, chunk>>
http1Vars == <<request, serverVars, wire, conn, readerVars, raw, completed>>

\* The bytes of its body.
Total(r) ==
  LET Sum[i \in 0..Len(r.chunks)] == IF i = 0 THEN 0 ELSE Sum[i - 1] + r.chunks[i]
  IN Sum[Len(r.chunks)]

NoResponse == [infos |-> 0, size |-> 0, bodiless |-> TRUE, te |-> <<>>, cl |-> <<>>,
               close |-> FALSE, chunks |-> <<>>, trailers |-> 0]
NoFraming == [kind |-> "none", length |-> 0, keep |-> FALSE]
NoChunk == [state |-> "size", remaining |-> 0, total |-> 0, trailers |-> MaxTrailerBytes]
\* `queue` is the one chunk a stream reads ahead of its reader.
Opened == [state |-> "readable", queue |-> 0, delivered |-> 0]

Init ==
  /\ request = 0 /\ method = "GET" /\ resp = NoResponse
  /\ plan = <<>> /\ wire = <<>> /\ tail = "open" /\ conn = "idle"
  /\ at = "start" /\ budget = 0 /\ framing = NoFraming /\ chunk = NoChunk
  /\ raw = Opened /\ completed = "pending"

-----------------------------------------------------------------------------
(***************************************************************************)
(* The server.                                                             *)
(***************************************************************************)
Times(n, token) == [i \in 1..n |-> token]
Coded(r) == r.te # <<>> /\ Last(r.te) = "chunked"

Chunk(size) == <<<<"size", size>>>> \o Times(size, <<"byte", 0>>) \o <<<<"crlf", 0>>>>
Chunks(r) ==
  LET First[i \in 0..Len(r.chunks)] == IF i = 0 THEN <<>> ELSE First[i - 1] \o Chunk(r.chunks[i])
  IN First[Len(r.chunks)]
LastOnes(r) == <<<<"size", 0>>>> \o Times(r.trailers, <<"trailer", 0>>) \o <<<<"blank", 0>>>>

BodyTokens(m, r) ==
  IF m = "HEAD" \/ r.bodiless THEN <<>>
  ELSE IF Coded(r) THEN Chunks(r) \o LastOnes(r)
  ELSE Times(Total(r), <<"byte", 0>>)

Message(m, r) == Times(r.infos, <<"info", 1>>) \o <<<<"head", r.size>>>> \o BodyTokens(m, r)

Send ==
  /\ tail = "open" /\ plan # <<>>
  /\ plan' = Tail(plan)
  /\ \/ wire' = Append(wire, Head(plan))
     \/ /\ "garbled" \in Faults /\ Head(plan)[1] # "byte"
        /\ wire' = Append(wire, <<"garbled", 0>>)
  /\ UNCHANGED <<request, method, resp, tail, conn, readerVars, raw, completed>>

\* Only the end of the connection ends such a message.
UntilClose == ~ Coded(resp) /\ resp.cl = <<>> /\ ~ resp.bodiless /\ method # "HEAD"

\* The transport ends, where the server closes or, as a fault, in the middle.
ServerEnds ==
  /\ tail = "open" /\ at # "start"
  /\ \/ plan = <<>> /\ tail' = "eof"
     \/ plan # <<>> /\ "cut" \in Faults /\ tail' = "eof"
     \/ "broken" \in Faults /\ tail' = "error"
  /\ UNCHANGED <<request, method, resp, plan, wire, conn, readerVars, raw, completed>>

-----------------------------------------------------------------------------
(***************************************************************************)
(* The head.                                                               *)
(***************************************************************************)
Request ==
  /\ conn = "idle" /\ request < MaxRequests
  /\ request' = request + 1
  /\ \E m \in Methods, r \in Responses : method' = m /\ resp' = r /\ plan' = Message(m, r)
  /\ conn' = "held" /\ at' = "head" /\ budget' = MaxHeaderBytes
  /\ framing' = NoFraming /\ chunk' = NoChunk
  /\ raw' = Opened /\ completed' = "pending"
  /\ UNCHANGED <<wire, tail>>

Comes(kind) == wire # <<>> /\ wire[1][1] = kind
ComesNone(kinds) == wire # <<>> /\ wire[1][1] \notin kinds
Ended == wire = <<>> /\ tail # "open"

\* exchange() discards the connection when anything throws before the body exists.
ExchangeFails ==
  /\ at' = "failed" /\ conn' = "closed"
  /\ raw' = [raw EXCEPT !.state = "errored"] /\ completed' = "rejected"

\* Every head draws on one budget, which the 1xx heads before it have used.
OverBudget == (Comes("info") \/ Comes("head")) /\ wire[1][2] > budget

\* Mutant: every head has the whole budget.
ReadInfoAnew ==
  /\ at = "head" /\ Comes("info") /\ ~ OverBudget
  /\ budget' = MaxHeaderBytes
  /\ wire' = Tail(wire)
  /\ UNCHANGED <<request, serverVars, conn, at, framing, chunk, raw, completed>>

ReadInfo ==
  /\ at = "head" /\ Comes("info") /\ ~ OverBudget
  /\ budget' = budget - wire[1][2]
  /\ wire' = Tail(wire)
  /\ UNCHANGED <<request, serverVars, conn, at, framing, chunk, raw, completed>>

\* A garbled line, a bare LF, an end or an error in a head, or a head over the budget.
HeadFails ==
  /\ at = "head"
  /\ OverBudget \/ Ended \/ ComesNone({"info", "head"})
  /\ ExchangeFails
  /\ UNCHANGED <<request, serverVars, wire, budget, framing, chunk>>

Ambiguous(r) ==
  \/ r.te # <<>> /\ r.cl # <<>>
  \/ "gzip" \in ToSet(r.te)
  \/ \E i \in DOMAIN r.cl : r.cl[i] # r.cl[1]

Bodiless(m, r) == m = "HEAD" \/ r.bodiless

\* The server is conforming: a length that is taken at its word is the body's.
ASSUME LengthAssumption ==
  \A r \in Responses : ~ r.bodiless /\ ~ Ambiguous(r) /\ r.cl # <<>> => r.cl[1] = Total(r)

\* bodyFraming, where it does not throw.
BodyFraming(m, r) ==
  IF Bodiless(m, r) THEN [kind |-> "none", length |-> 0, keep |-> TRUE]
  ELSE IF Coded(r) THEN [kind |-> "chunked", length |-> 0, keep |-> TRUE]
  ELSE IF r.cl # <<>> THEN [kind |-> "content-length", length |-> r.cl[1], keep |-> TRUE]
  ELSE [kind |-> "until-close", length |-> 0, keep |-> FALSE]

\* bodyFraming or readResponseBody throws, for a message that has a body.
Unreadable(m, r) ==
  /\ ~ Bodiless(m, r)
  /\ Ambiguous(r) \/ (~ Coded(r) /\ r.cl # <<>> /\ r.cl[1] > MaxBodyBytes)

Reusable(f) == f.keep /\ ~ resp.close

\* Mutant: a body given up keeps its connection.
SettleKeeping(how, f) ==
  /\ completed' = how
  /\ conn' = IF how # "rejected" /\ Reusable(f) THEN "idle" ELSE "closed"

\* What a settled `completed` does: pool.release, which keeps or closes.
Settle(how, f) ==
  /\ completed' = how
  /\ conn' = IF how = "true" /\ Reusable(f) THEN "idle" ELSE "closed"

ReadHead ==
  /\ at = "head" /\ Comes("head") /\ ~ OverBudget
  /\ wire' = Tail(wire) /\ budget' = budget - wire[1][2]
  /\ IF Unreadable(method, resp)
     THEN ExchangeFails /\ UNCHANGED framing
     ELSE LET f == BodyFraming(method, resp) IN
          /\ at' = "body" /\ framing' = f
          /\ raw' = [raw EXCEPT !.state = IF f.kind = "none" THEN "closed" ELSE "readable"]
          /\ IF f.kind = "none" \/ (f.kind = "content-length" /\ f.length = 0)
             THEN Settle("true", f)
             ELSE UNCHANGED <<completed, conn>>
  /\ UNCHANGED <<request, serverVars, chunk>>

-----------------------------------------------------------------------------
(***************************************************************************)
(* The body.  A stream pulls while it is readable and its queue is empty.  *)
(***************************************************************************)
Pulling(kind) == at = "body" /\ framing.kind = kind /\ raw.state = "readable" /\ raw.queue = 0

\* The bytes readSome(n) may return: what has arrived so far, at most n.
Some(n) == 1..Min({n, Len(wire)})
Enqueue(n, state) == raw' = [raw EXCEPT !.queue = n, !.state = state]

BodyFails ==
  /\ raw' = [raw EXCEPT !.state = "errored", !.queue = 0]
  /\ Settle("rejected", framing)

Received == raw.delivered + raw.queue

\* Mutant: the end of the transport ends a body that declared more.
PullLengthQuietly ==
  /\ Pulling("content-length")
  /\ LET remaining == framing.length - Received IN
     \/ remaining = 0 /\ Enqueue(0, "closed") /\ UNCHANGED <<wire, completed, conn>>
     \/ \E n \in Some(remaining) :
          /\ wire' = SubSeq(wire, n + 1, Len(wire))
          /\ Enqueue(n, IF n = remaining THEN "closed" ELSE "readable")
          /\ IF n = remaining THEN Settle("true", framing) ELSE UNCHANGED <<completed, conn>>
     \/ remaining # 0 /\ Ended /\ Enqueue(0, "closed") /\ Settle("true", framing) /\ UNCHANGED wire
  /\ UNCHANGED <<request, serverVars, readerVars>>

\* content-length: the stream ends with its last byte, without another read.
PullLength ==
  /\ Pulling("content-length")
  /\ LET remaining == framing.length - Received IN
     \/ /\ remaining = 0
        /\ Enqueue(0, "closed")
        /\ IF completed = "pending" THEN Settle("true", framing) ELSE UNCHANGED <<completed, conn>>
        /\ UNCHANGED wire
     \/ /\ remaining # 0
        /\ \E n \in Some(remaining) :
             /\ wire' = SubSeq(wire, n + 1, Len(wire))
             /\ Enqueue(n, IF n = remaining THEN "closed" ELSE "readable")
             /\ IF n = remaining THEN Settle("true", framing) ELSE UNCHANGED <<completed, conn>>
     \/ remaining # 0 /\ Ended /\ BodyFails /\ UNCHANGED wire
  /\ UNCHANGED <<request, serverVars, readerVars>>

PullUntilClose ==
  /\ Pulling("until-close")
  /\ \/ \E n \in Some(Len(wire)) :
          /\ wire' = SubSeq(wire, n + 1, Len(wire))
          /\ IF Received + n > MaxBodyBytes THEN BodyFails
             ELSE Enqueue(n, "readable") /\ UNCHANGED <<completed, conn>>
     \/ /\ Ended /\ UNCHANGED wire
        /\ IF tail = "error" THEN BodyFails ELSE Enqueue(0, "closed") /\ Settle("true", framing)
  /\ UNCHANGED <<request, serverVars, readerVars>>

(***************************************************************************)
(* decodeChunked's drive(), one await at a time: a reader that cancels may *)
(* come between any two.                                                   *)
(***************************************************************************)
InChunk(state) == Pulling("chunked") /\ chunk.state = state
TooLarge(size) == size > MaxChunkSize \/ chunk.total + size > MaxBodyBytes

ChunkSize ==
  /\ InChunk("size") /\ Comes("size") /\ ~ TooLarge(wire[1][2])
  /\ wire' = Tail(wire)
  /\ chunk' = [chunk EXCEPT !.remaining = wire[1][2],
                            !.state = IF wire[1][2] = 0 THEN "trailers" ELSE "data"]
  /\ UNCHANGED <<request, serverVars, conn, at, budget, framing, raw, completed>>

ChunkData ==
  /\ InChunk("data")
  /\ \E n \in Some(chunk.remaining) :
       /\ wire' = SubSeq(wire, n + 1, Len(wire))
       /\ chunk' = [chunk EXCEPT !.remaining = @ - n, !.total = @ + n,
                                 !.state = IF n = chunk.remaining THEN "data-crlf" ELSE "data"]
       /\ Enqueue(n, "readable")
  /\ UNCHANGED <<request, serverVars, conn, at, budget, framing, completed>>

ChunkCrlf ==
  /\ InChunk("data-crlf") /\ Comes("crlf")
  /\ wire' = Tail(wire)
  /\ chunk' = [chunk EXCEPT !.state = "size"]
  /\ UNCHANGED <<request, serverVars, conn, at, budget, framing, raw, completed>>

TrailerLine ==
  /\ InChunk("trailers") /\ Comes("trailer") /\ chunk.trailers > 0
  /\ wire' = Tail(wire)
  /\ chunk' = [chunk EXCEPT !.trailers = @ - 1]
  /\ UNCHANGED <<request, serverVars, conn, at, budget, framing, raw, completed>>

LastChunk ==
  /\ InChunk("trailers") /\ Comes("blank") /\ chunk.trailers > 0
  /\ wire' = Tail(wire)
  /\ chunk' = [chunk EXCEPT !.state = "done"]
  /\ Enqueue(0, "closed")
  /\ Settle("true", framing)
  /\ UNCHANGED <<request, serverVars, at, budget, framing>>

ChunkFails ==
  /\ Pulling("chunked")
  /\ \/ Ended
     \/ chunk.state = "size" /\ ComesNone({"size"})
     \/ chunk.state = "size" /\ Comes("size") /\ TooLarge(wire[1][2])
     \/ chunk.state = "data-crlf" /\ ComesNone({"crlf"})
     \/ chunk.state = "trailers" /\ ComesNone({"trailer", "blank"})
     \/ chunk.state = "trailers" /\ wire # <<>> /\ chunk.trailers = 0
  /\ chunk' = [chunk EXCEPT !.state = "done"]
  /\ BodyFails
  /\ UNCHANGED <<request, serverVars, wire, at, budget, framing>>

-----------------------------------------------------------------------------
(***************************************************************************)
(* What a reader of the stream does.                                       *)
(***************************************************************************)
TakeChunk ==
  /\ raw.queue > 0 /\ raw.state \in {"readable", "closed"}
  /\ raw' = [raw EXCEPT !.queue = 0, !.delivered = @ + raw.queue]
  /\ UNCHANGED <<request, serverVars, wire, conn, readerVars, completed>>

Drained == raw.state = "closed" /\ raw.queue = 0

\* cancel(): nothing for a stream that has failed or been read to its end.
CancelBody ==
  /\ IF raw.state = "readable" \/ raw.queue > 0
     THEN /\ raw' = [raw EXCEPT !.state = "cancelled", !.queue = 0]
          /\ chunk' = [chunk EXCEPT !.state = "done"]
          /\ IF completed = "pending" THEN Settle("false", framing) ELSE UNCHANGED <<completed, conn>>
     ELSE UNCHANGED <<raw, chunk, completed, conn>>
  /\ UNCHANGED <<request, serverVars, wire, at, budget, framing>>

Connection ==
  \/ Send \/ ServerEnds
  \/ Request \/ ReadInfo \/ HeadFails \/ ReadHead
  \/ PullLength \/ PullUntilClose
  \/ ChunkSize \/ ChunkData \/ ChunkCrlf \/ TrailerLine \/ LastChunk \/ ChunkFails

-----------------------------------------------------------------------------
(***************************************************************************)
(* A connection goes back to the pool only at the end of a message: the    *)
(* server has sent all of the response to the last request and the reader  *)
(* has taken exactly that off the connection, so the next head read is the *)
(* next response's.  One byte left behind, by a body given up, a trailer,  *)
(* a HEAD answer taken for one with a body, would be read as a head.  A     *)
(* reader that has not cancelled is given all of it.                       *)
(***************************************************************************)
ReuseAtBoundary ==
  conn = "idle" =>
    /\ plan = <<>> /\ wire = <<>>
    /\ ~ Bodiless(method, resp) /\ raw.state # "cancelled" => Received = Total(resp)
=============================================================================
