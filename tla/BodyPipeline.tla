---------------------------- MODULE BodyPipeline ----------------------------
(***************************************************************************)
(* What stands between the body of an HTTP/1.1 response and its caller:    *)
(* withIdleDeadline (src/util/deadline.js), which turns silence into a     *)
(* failure, and the decompression stage of decodeBody                      *)
(* (src/client/decode.js), with its pump, its sniffing of the first bytes  *)
(* and its cap.  Http1 is the source; its TakeChunk and CancelBody are     *)
(* called here, by the stages that call them in the program.               *)
(*                                                                         *)
(* The decompressor is external: every coded byte yields Inflate bytes, it *)
(* may find the data corrupt, and it refuses to end before the end of the  *)
(* compressed data.                                                        *)
(***************************************************************************)
EXTENDS Http1

CONSTANTS Codings,    \* a Content-Encoding the server may use: "none", "gzip"
          Inflate,    \* decoded bytes for each coded byte
          Corrupt     \* BOOLEAN: the coded data may be corrupt

ASSUME PipelineAssumption ==
  Codings \subseteq {"none", "gzip"} /\ Inflate \in Nat \ {0} /\ Corrupt \in BOOLEAN

VARIABLES coding,    \* of the current response
          aborted,   \* the deadline controller has fired
          guard,     \* the stream of withIdleDeadline
          stage,     \* the stream of decompressionStage
          caller,    \* "reading", "done", "error" or "cancelled"
          got        \* bytes the caller has been given

pipeVars == <<coding, aborted, guard, stage, caller, got>>
vars == <<http1Vars, pipeVars>>

(***************************************************************************)
(* `at` is where the stage's pump stands: "sniff" the first two bytes,     *)
(* "pump" the rest, then "ended", "broken", or "empty" when there was no   *)
(* byte at all.  `fed` bytes are in the decompressor, which holds `out`.   *)
(***************************************************************************)
NewStage == [at |-> "sniff", fed |-> 0, out |-> 0, produced |-> 0, state |-> "readable", queue |-> 0]
NewGuard == [state |-> "readable", queue |-> 0]

PipeInit ==
  /\ Init
  /\ coding = "none" /\ aborted = FALSE /\ guard = NewGuard /\ stage = NewStage
  /\ caller = "done" /\ got = 0

\* A request starts a new pipeline; whatever the head settles, the caller learns.
Advance ==
  /\ Connection
  /\ IF request' # request
     THEN /\ coding' \in Codings
          /\ aborted' = FALSE /\ guard' = NewGuard /\ stage' = NewStage
          /\ caller' = "reading" /\ got' = 0
     ELSE /\ caller' = IF at' = at THEN caller
                       ELSE IF at' = "failed" THEN "error"
                       ELSE IF framing'.kind = "none" THEN "done" ELSE caller
          /\ UNCHANGED <<coding, aborted, guard, stage, got>>

-----------------------------------------------------------------------------
(***************************************************************************)
(* withIdleDeadline.                                                       *)
(***************************************************************************)
Flowing(stream) == stream.state = "readable" /\ stream.queue = 0
Guarded == at = "body" /\ framing.kind # "none"

\* Mutant: the timer is armed once and no chunk restarts it.
ExpireUntouched ==
  /\ Guarded /\ completed = "pending" /\ ~ aborted /\ raw.delivered = 0
  /\ aborted' = TRUE
  /\ UNCHANGED <<http1Vars, coding, guard, stage, caller, got>>

\* The idle timer; dispose() clears it once `completed` has settled.
Expire ==
  /\ Guarded /\ completed = "pending" /\ ~ aborted
  /\ aborted' = TRUE
  /\ UNCHANGED <<http1Vars, coding, guard, stage, caller, got>>

\* deadlines.race(reader.read()): an abort wins over whatever has arrived.
GuardPull ==
  /\ Guarded /\ Flowing(guard)
  /\ \/ /\ aborted
        /\ CancelBody
        /\ guard' = [guard EXCEPT !.state = "errored"]
     \/ /\ ~ aborted
        /\ TakeChunk
        /\ guard' = [guard EXCEPT !.queue = raw.queue]
     \/ /\ ~ aborted /\ Drained
        /\ guard' = [guard EXCEPT !.state = "closed"]
        /\ UNCHANGED http1Vars
     \/ /\ ~ aborted /\ raw.state = "errored"
        /\ guard' = [guard EXCEPT !.state = "errored"]
        /\ UNCHANGED http1Vars
  /\ UNCHANGED <<coding, aborted, stage, caller, got>>

CancelGuard ==
  IF guard.state = "readable"
  THEN CancelBody /\ guard' = [guard EXCEPT !.state = "cancelled", !.queue = 0]
  ELSE UNCHANGED <<http1Vars, guard>>

-----------------------------------------------------------------------------
(***************************************************************************)
(* decompressionStage.                                                     *)
(***************************************************************************)
Decoding == Guarded /\ coding = "gzip"
Pumping(place) == Decoding /\ stage.at = place
AtEnd(stream) == stream.state = "closed" /\ stream.queue = 0

\* The first two bytes are collected before there is a decompressor.
Sniff ==
  /\ Pumping("sniff")
  /\ \/ /\ guard.queue > 0
        /\ guard' = [guard EXCEPT !.queue = 0]
        /\ LET n == stage.fed + guard.queue IN
           stage' = [stage EXCEPT !.fed = n, !.at = IF n < 2 THEN "sniff" ELSE "pump",
                                  !.out = IF n < 2 THEN 0 ELSE n * Inflate]
     \/ /\ AtEnd(guard)
        /\ stage' = [stage EXCEPT !.at = IF stage.fed = 0 THEN "empty" ELSE "pump",
                                  !.out = stage.fed * Inflate]
        /\ UNCHANGED guard
     \/ /\ guard.state = "errored"
        /\ stage' = [stage EXCEPT !.at = "broken"]
        /\ UNCHANGED guard
  /\ UNCHANGED <<http1Vars, coding, aborted, caller, got>>

Feed ==
  /\ Pumping("pump") /\ guard.queue > 0
  /\ guard' = [guard EXCEPT !.queue = 0]
  /\ stage' = [stage EXCEPT !.fed = @ + guard.queue, !.out = @ + guard.queue * Inflate]
  /\ UNCHANGED <<http1Vars, coding, aborted, caller, got>>

\* Closing a decompressor that wants more data fails.
FeedEnd ==
  /\ Pumping("pump") /\ AtEnd(guard)
  /\ stage' = [stage EXCEPT !.at = IF stage.fed = Total(resp) THEN "ended" ELSE "broken"]
  /\ UNCHANGED <<http1Vars, coding, aborted, guard, caller, got>>

\* The pump's catch: the decompressor is aborted and the source cancelled.
FeedFails ==
  /\ Pumping("pump")
  /\ guard.state = "errored" \/ (Corrupt /\ guard.queue > 0)
  /\ stage' = [stage EXCEPT !.at = "broken"]
  /\ CancelGuard
  /\ UNCHANGED <<coding, aborted, caller, got>>

\* Mutant: the stage errors and leaves its source alone.
StageFailsAlone == stage' = [stage EXCEPT !.state = "errored"] /\ UNCHANGED <<http1Vars, guard>>

\* The stage's catch: the source is cancelled and the stage errored.
StageFails == CancelGuard /\ stage' = [stage EXCEPT !.state = "errored"]

StagePull ==
  /\ Decoding /\ Flowing(stage)
  /\ \/ /\ stage.at = "empty" \/ (stage.at = "ended" /\ stage.out = 0)
        /\ stage' = [stage EXCEPT !.state = "closed"]
        /\ UNCHANGED <<http1Vars, guard>>
     \/ stage.at = "broken" /\ StageFails
     \/ /\ stage.at \in {"pump", "ended"}
        /\ \E n \in 1..stage.out :
             IF stage.produced + n > MaxBodyBytes THEN StageFails
             ELSE /\ stage' = [stage EXCEPT !.out = @ - n, !.produced = @ + n, !.queue = n]
                  /\ UNCHANGED <<http1Vars, guard>>
  /\ UNCHANGED <<coding, aborted, caller, got>>

-----------------------------------------------------------------------------
(***************************************************************************)
(* The caller reads, or gives up, the last stream of the pipeline.         *)
(***************************************************************************)
Source == IF coding = "gzip" THEN stage ELSE guard
Reading == Guarded /\ caller = "reading"

Read ==
  /\ Reading /\ Source.queue > 0
  /\ got' = got + Source.queue
  /\ IF coding = "gzip"
     THEN stage' = [stage EXCEPT !.queue = 0] /\ UNCHANGED guard
     ELSE guard' = [guard EXCEPT !.queue = 0] /\ UNCHANGED stage
  /\ UNCHANGED <<http1Vars, coding, aborted, caller>>

Learn ==
  /\ Reading
  /\ \/ AtEnd(Source) /\ caller' = "done"
     \/ Source.state = "errored" /\ caller' = "error"
  /\ UNCHANGED <<http1Vars, coding, aborted, guard, stage, got>>

Cancel ==
  /\ Reading /\ Source.state = "readable"
  /\ caller' = "cancelled"
  /\ CancelGuard
  /\ stage' = [stage EXCEPT !.state = "cancelled", !.at = "broken"]
  /\ UNCHANGED <<coding, aborted, got>>

PipeNext ==
  \/ Advance
  \/ Expire \/ GuardPull
  \/ Sniff \/ Feed \/ FeedEnd \/ FeedFails \/ StagePull
  \/ Read \/ Learn \/ Cancel

(***************************************************************************)
(* The streams pull and the pump runs whenever they can, and the idle      *)
(* timer fires if nothing disposes it.  The server owes nothing.  That the *)
(* caller keeps reading, or cancels, is an assumption on the caller: a     *)
(* body nobody reads is held, see the README.                              *)
(***************************************************************************)
Pulls == GuardPull \/ Sniff \/ Feed \/ FeedEnd \/ FeedFails \/ StagePull
RawPulls == PullLength \/ PullUntilClose \/ ChunkSize \/ ChunkData \/ ChunkCrlf
              \/ TrailerLine \/ LastChunk \/ ChunkFails
Fairness ==
  /\ WF_vars(Pulls)
  /\ WF_vars(RawPulls /\ UNCHANGED pipeVars)
  /\ WF_vars(Expire)
  /\ WF_vars(Read \/ Learn)

Spec == PipeInit /\ [][PipeNext]_vars /\ Fairness

-----------------------------------------------------------------------------
(***************************************************************************)
(* The whole body or an error: what the caller is given is a prefix of     *)
(* what the server put in this response, decoded, and the end is reported  *)
(* only when the server has ended the response and all of it has been      *)
(* handed over.  A body the transport cut short is complete only where     *)
(* nothing tells: no length, no chunks, no coded data begun, and an end    *)
(* like any other.  This is the contract of ResponseBody, for each response. *)
(***************************************************************************)
Sent == IF Bodiless(method, resp) THEN 0
        ELSE Total(resp) - Cardinality({i \in DOMAIN plan : plan[i][1] = "byte"})
Factor == IF coding = "gzip" THEN Inflate ELSE 1
ServerDone ==
  IF UntilClose THEN tail = "eof" /\ (coding = "gzip" /\ Sent > 0 => plan = <<>>) ELSE plan = <<>>

Contract == INSTANCE ResponseBody
              WITH sent <- Factor * Sent, ended <- ServerDone, delivered <- got, outcome <- caller

WholeOrError == [][request' = request => [Contract!Next]_Contract!bodyVars]_vars

(***************************************************************************)
(* Whatever ends the caller's stream, at whichever stage it arose, reaches *)
(* the connection: an error or a cancel leaves neither `completed` pending *)
(* nor the connection held.                                                *)
(***************************************************************************)
FailureReleases == caller \in {"error", "cancelled"} => completed # "pending" /\ conn # "held"

(***************************************************************************)
(* No response can make the client hold more than the limits say: heads    *)
(* within one budget however many 1xx precede the final one, and a body,   *)
(* coded or decoded, within maxBodyBytes.                                  *)
(***************************************************************************)
Bounded ==
  /\ at = "body" => resp.infos + resp.size <= MaxHeaderBytes
  /\ got + Source.queue <= MaxBodyBytes
  /\ Received <= MaxBodyBytes

(***************************************************************************)
(* The exchange lets go of its connection: a body that is being read       *)
(* settles, whatever the server does, because silence is a failure.        *)
(***************************************************************************)
BodySettles == (conn = "held" /\ at = "body") ~> conn # "held"
=============================================================================
