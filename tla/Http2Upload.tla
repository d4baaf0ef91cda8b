---------------------------- MODULE Http2Upload ----------------------------
(***************************************************************************)
(* Send flow control of src/http2/connection.js: _sendBody of every stream *)
(* that uploads a request body, the two windows it draws from, the waiters *)
(* it parks when either is exhausted, and the handlers that wake them.     *)
(*                                                                         *)
(* DATA reaches the server (external) at once; its WINDOW_UPDATE, SETTINGS *)
(* and RST_STREAM frames and the end of its responses wait in s2c.         *)
(***************************************************************************)
EXTENDS Integers, Sequences, FiniteSets, FiniteSetsExt

CONSTANTS Streams,        \* uploads sharing the connection
          BodyLength,     \* body.byteLength
          MaxFrame,       \* this._peerMaxFrameSize
          InitialConn,    \* initial connection send window
          InitialWindows, \* values of the peer's SETTINGS_INITIAL_WINDOW_SIZE
          MaxGrant,       \* largest WINDOW_UPDATE increment the server sends
          MaxWindow,      \* 2^31 - 1
          MaxWire,        \* server frames in flight
          Granted         \* streams whose window the server keeps opening

ASSUME UploadAssumption ==
  /\ {BodyLength, MaxFrame, MaxGrant, MaxWindow, MaxWire} \subseteq Nat \ {0}
  /\ InitialConn \in 0..MaxWindow
  /\ InitialWindows \subseteq 0..MaxWindow
  /\ Granted \subseteq Streams

VARIABLES phase,        \* where _sendBody stands
          left,         \* body.byteLength - offset
          sendWindow,   \* stream.sendWindow
          connWindow,   \* this._connSendWindow
          peerInitial,  \* this._peerInitialWindow
          parked,       \* streams with a waiter in both waiter lists
          localEnded,   \* stream.localEnded
          recvEnded,    \* stream.recvEnded
          closed,       \* stream.closed
          s2c,          \* frames written by the server, not yet dispatched
          srvWindow,    \* credit the server extends to each stream
          srvConn       \* credit the server extends to the connection

windowVars == <<sendWindow, connWindow, peerInitial>>
streamVars == <<localEnded, recvEnded, closed>>
serverVars == <<srvWindow, srvConn>>
vars == <<phase, left, parked, windowVars, streamVars, s2c, serverVars>>

\* Mutant: the connection's window is not consulted.
RoomOnStream(s) == sendWindow[s]
Room(s) == Min({sendWindow[s], connWindow})

-----------------------------------------------------------------------------
(***************************************************************************)
(* _sendBody, one action per stretch between two awaits.                   *)
(***************************************************************************)

Sends(s) == phase[s] = "sending" /\ ~closed[s]

\* The top of the loop finds the stream reset underneath it.
StopUpload(s) ==
  /\ phase[s] = "sending" /\ closed[s]
  /\ phase' = [phase EXCEPT ![s] = "stopped"]
  /\ UNCHANGED <<left, parked, windowVars, streamVars, s2c, serverVars>>

\* No room in one of the windows: park a waiter in both lists.
AwaitSendWindow(s) ==
  /\ Sends(s)
  /\ Room(s) <= 0
  /\ phase' = [phase EXCEPT ![s] = "waiting"]
  /\ parked' = parked \union {s}
  /\ UNCHANGED <<left, windowVars, streamVars, s2c, serverVars>>

Slice(s) == Min({Room(s), MaxFrame, left[s]})

\* Room: both windows are debited before the write is awaited.
SendChunk(s) ==
  LET n == Slice(s) IN
  /\ Sends(s)
  /\ Room(s) > 0
  /\ phase' = [phase EXCEPT ![s] = "writing"]
  /\ left' = [left EXCEPT ![s] = @ - n]
  /\ sendWindow' = [sendWindow EXCEPT ![s] = @ - n]
  /\ connWindow' = connWindow - n
  /\ srvWindow' = [srvWindow EXCEPT ![s] = @ - n]
  /\ srvConn' = srvConn - n
  /\ UNCHANGED <<peerInitial, parked, streamVars, s2c>>

\* Mutants: one waiter only is told; none is.
WakeOne(woken) ==
  LET one == IF woken = {} THEN {} ELSE {Min(woken)} IN
  /\ phase' = [s \in Streams |-> IF s \in one THEN "sending" ELSE phase[s]]
  /\ parked' = parked \ one
WakeNobody(woken) == UNCHANGED <<phase, parked>>

\* _wakeSendWaiters: the waiters in `woken` resolve and re-enter the loop.
Wake(woken) ==
  /\ phase' = [s \in Streams |-> IF s \in woken THEN "sending" ELSE phase[s]]
  /\ parked' = parked \ woken

\* _removeStream: every waiter is in the connection's list, so all of them wake.
CloseStream(s) ==
  /\ closed' = [closed EXCEPT ![s] = TRUE]
  /\ Wake(parked)

\* _maybeCloseStream: both halves have ended.
BothEnded(local, remote) == local /\ remote

\* Mutant: nobody re-checks when the upload ends last.
NeverClosesAfterUpload(s) == FALSE
ClosesAfterUpload(s) == ~closed[s] /\ BothEnded(TRUE, recvEnded[s])

\* The write was accepted; after the last one the local half has ended.
ChunkWritten(s) ==
  /\ phase[s] = "writing"
  /\ IF left[s] = 0
     THEN LET woken == IF ClosesAfterUpload(s) THEN parked ELSE {}
          IN /\ phase' = [t \in Streams |-> IF t = s THEN "done"
                                         ELSE IF t \in woken THEN "sending" ELSE phase[t]]
             /\ parked' = parked \ woken
             /\ localEnded' = [localEnded EXCEPT ![s] = TRUE]
             /\ closed' = [closed EXCEPT ![s] = @ \/ ClosesAfterUpload(s)]
     ELSE /\ phase' = [phase EXCEPT ![s] = "sending"]
          /\ UNCHANGED <<parked, localEnded, closed>>
  /\ UNCHANGED <<left, windowVars, recvEnded, s2c, serverVars>>

\* The request's signal fires, or its body is cancelled: the stream is gone.
Abandon(s) ==
  /\ ~closed[s]
  /\ CloseStream(s)
  /\ UNCHANGED <<left, windowVars, localEnded, recvEnded, s2c, serverVars>>

-----------------------------------------------------------------------------
(***************************************************************************)
(* Frame handlers.                                                         *)
(***************************************************************************)
Receives(type) == s2c # <<>> /\ Head(s2c).type = type

\* Every waiter is in the connection's list, so it wakes whatever it waits for.
OnStreamWindowUpdate ==
  LET s == Head(s2c).stream
      grown == sendWindow[s] + Head(s2c).inc
  IN /\ Receives("window")
     /\ s2c' = Tail(s2c)
     /\ \/ /\ closed[s]
           /\ UNCHANGED <<phase, left, parked, windowVars, streamVars, serverVars>>
        \/ /\ ~closed[s]
           /\ sendWindow' = [sendWindow EXCEPT ![s] = grown]
           /\ Wake(parked)
           /\ closed' = [closed EXCEPT ![s] = grown > MaxWindow]
           /\ UNCHANGED <<left, connWindow, peerInitial, localEnded, recvEnded, serverVars>>

\* An overflow of the connection window kills the connection.
OnConnWindowUpdate ==
  /\ Receives("connWindow")
  /\ connWindow' = connWindow + Head(s2c).inc
  /\ Wake(parked)
  /\ IF connWindow' > MaxWindow
     THEN closed' = [s \in Streams |-> TRUE] /\ s2c' = <<>>
     ELSE UNCHANGED closed /\ s2c' = Tail(s2c)
  /\ UNCHANGED <<left, sendWindow, peerInitial, localEnded, recvEnded, serverVars>>

\* SETTINGS_INITIAL_WINDOW_SIZE moves every live stream by the difference; the
\* acknowledgement makes the server apply it as well.
OnInitialWindow ==
  LET delta == Head(s2c).value - peerInitial
      moved == [s \in Streams |-> IF closed[s] THEN sendWindow[s] ELSE sendWindow[s] + delta]
  IN /\ Receives("settings")
     /\ peerInitial' = Head(s2c).value
     /\ sendWindow' = moved
     /\ srvWindow' = [s \in Streams |-> IF closed[s] THEN srvWindow[s] ELSE srvWindow[s] + delta]
     /\ Wake(IF \E s \in Streams : ~closed[s] /\ moved[s] > 0 THEN parked ELSE {})
     /\ s2c' = Tail(s2c)
     /\ UNCHANGED <<left, connWindow, streamVars, srvConn>>

\* END_STREAM of the response: the stream closes if the upload is over too.
OnResponseEnd ==
  LET s == Head(s2c).stream IN
  /\ Receives("end")
  /\ s2c' = Tail(s2c)
  /\ recvEnded' = [recvEnded EXCEPT ![s] = @ \/ ~closed[s]]
  /\ IF ~closed[s] /\ BothEnded(localEnded[s], TRUE)
     THEN CloseStream(s) ELSE UNCHANGED <<phase, parked, closed>>
  /\ UNCHANGED <<left, windowVars, localEnded, serverVars>>

OnRst ==
  LET s == Head(s2c).stream IN
  /\ Receives("rst")
  /\ s2c' = Tail(s2c)
  /\ IF closed[s] THEN UNCHANGED <<phase, parked, closed>> ELSE CloseStream(s)
  /\ UNCHANGED <<left, windowVars, localEnded, recvEnded, serverVars>>

-----------------------------------------------------------------------------
(***************************************************************************)
(* The server (external).                                                  *)
(***************************************************************************)
InFlight(type) == {i \in DOMAIN s2c : s2c[i].type = type}

Write(frame) ==
  /\ \E s \in Streams : ~closed[s]
  /\ Len(s2c) < MaxWire
  /\ s2c' = Append(s2c, frame)

SrvGrantStream(s) ==
  \E n \in 1..MaxGrant :
    /\ ~localEnded[s] /\ ~closed[s]
    /\ srvWindow[s] <= MaxWindow
    /\ Write([type |-> "window", stream |-> s, inc |-> n])
    /\ srvWindow' = [srvWindow EXCEPT ![s] = @ + n]
    /\ UNCHANGED <<phase, left, parked, windowVars, streamVars, srvConn>>

SrvGrantConn ==
  \E n \in 1..MaxGrant :
    /\ srvConn <= MaxWindow
    /\ Write([type |-> "connWindow", inc |-> n])
    /\ srvConn' = srvConn + n
    /\ UNCHANGED <<phase, left, parked, windowVars, streamVars, srvWindow>>

SrvSettings ==
  \E value \in InitialWindows \ {peerInitial} :
    /\ InFlight("settings") = {}
    /\ Write([type |-> "settings", value |-> value])
    /\ UNCHANGED <<phase, left, parked, windowVars, streamVars, serverVars>>

SrvEnd(s) ==
  /\ ~recvEnded[s] /\ ~closed[s]
  /\ ~\E i \in InFlight("end") : s2c[i].stream = s
  /\ Write([type |-> "end", stream |-> s])
  /\ UNCHANGED <<phase, left, parked, windowVars, streamVars, serverVars>>

SrvRst(s) ==
  /\ ~closed[s]
  /\ ~\E i \in InFlight("rst") : s2c[i].stream = s
  /\ Write([type |-> "rst", stream |-> s])
  /\ UNCHANGED <<phase, left, parked, windowVars, streamVars, serverVars>>

-----------------------------------------------------------------------------
Init ==
  /\ peerInitial \in InitialWindows
  /\ phase = [s \in Streams |-> "sending"]
  /\ left = [s \in Streams |-> BodyLength]
  /\ sendWindow = [s \in Streams |-> peerInitial]
  /\ connWindow = InitialConn
  /\ parked = {}
  /\ localEnded = [s \in Streams |-> FALSE]
  /\ recvEnded = [s \in Streams |-> FALSE]
  /\ closed = [s \in Streams |-> FALSE]
  /\ s2c = <<>>
  /\ srvWindow = sendWindow
  /\ srvConn = connWindow

SendBody(s) == StopUpload(s) \/ AwaitSendWindow(s) \/ SendChunk(s) \/ ChunkWritten(s)

OnFrame ==
  \/ OnStreamWindowUpdate \/ OnConnWindowUpdate \/ OnInitialWindow
  \/ OnResponseEnd \/ OnRst

Next ==
  \/ \E s \in Streams : SendBody(s) \/ Abandon(s)
  \/ OnFrame
  \/ \E s \in Streams : SrvGrantStream(s) \/ SrvEnd(s) \/ SrvRst(s)
  \/ SrvGrantConn \/ SrvSettings

Spec == Init /\ [][Next]_vars

\* A grant that overruns no window, not even with SETTINGS on their way.
GrantWithinLimit(s) ==
  /\ SrvGrantStream(s)
  /\ srvWindow'[s] <= MaxWindow
  /\ InFlight("settings") = {}

GrantConnWithinLimit == SrvGrantConn /\ srvConn' <= MaxWindow

\* Every ready microtask runs, every frame that arrived is dispatched, and the
\* server goes on granting credit to the connection and to the streams in
\* Granted, the others may never get more. It may overrun a window at any time
\* but owes that to nobody: a sleeper that only a teardown would wake stays
\* asleep in the behaviours where the server keeps to the limit.
Fairness ==
  /\ WF_vars(OnFrame)
  /\ \A s \in Streams : WF_vars(SendBody(s))
  /\ \A s \in Granted : SF_vars(GrantWithinLimit(s))
  /\ SF_vars(GrantConnWithinLimit)

FairSpec == Spec /\ Fairness

-----------------------------------------------------------------------------
TypeOK ==
  /\ phase \in [Streams -> {"sending", "waiting", "writing", "done", "stopped"}]
  /\ left \in [Streams -> 0..BodyLength]
  /\ sendWindow \in [Streams -> Int]
  /\ connWindow \in Int
  /\ peerInitial \in InitialWindows
  /\ parked \subseteq Streams
  /\ {localEnded, recvEnded, closed} \subseteq [Streams -> BOOLEAN]
  /\ srvWindow \in [Streams -> Int]
  /\ srvConn \in Int

\* An upload sleeps only while there is nothing it could send: whichever of
\* the two windows opens, by a WINDOW_UPDATE or by new SETTINGS, and whether
\* or not the stream was torn down, its waiter has been resolved.
NoSleepWithRoom ==
  \A s \in Streams : phase[s] = "waiting" => s \in parked /\ ~closed[s] /\ Room(s) <= 0

\* No DATA beyond the credit the server has extended, on the stream or on the
\* connection, however its updates are delayed (SendChunk debits both).
WithinCredit ==
  [][/\ srvConn' < srvConn => srvConn' >= 0
     /\ \A s \in Streams :
          left'[s] < left[s] => srvWindow'[s] >= 0]_vars

\* The stream leaves the map whichever half ends last: "a server is free to
\* answer before the upload finishes - in which case nothing else will ever
\* re-check, and the stream stays in the map for the life of the connection".
BothHalvesClose == \A s \in Streams : localEnded[s] /\ recvEnded[s] => closed[s]

\* An upload whose windows the server keeps opening is sent whole, or its
\* stream is gone, even beside one that waits for credit it never gets: the
\* connection's waiters are all told, and told of every frame that could let
\* one of them go on (_wakeSendWaiters in _onWindowUpdate and _onSettings).
UploadsEnd == \A s \in Granted : <>(phase[s] \in {"done", "stopped"})
=============================================================================
