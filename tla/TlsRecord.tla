----------------------------- MODULE TlsRecord -----------------------------
(***************************************************************************)
(* The record layer of an established connection, src/tls/record.js, with  *)
(* what aead.js refuses: the queue that serialises every write, the read   *)
(* loop that answers KeyUpdates and fatal errors through that queue, and   *)
(* the shutdown that must not wait for a peer that has stopped reading.    *)
(*                                                                         *)
(* A record is its kind and the key epoch and sequence number it was       *)
(* protected under; it opens under that epoch and number and no other.     *)
(* The peer and the transport are external.                                *)
(***************************************************************************)
EXTENDS Naturals, SequencesExt

CONSTANTS Callers,       \* calls of close() and abort()
          MaxSeq,        \* SEQ_MAX, the number checkSeq() refuses
          MaxKeyUpdates, \* opts.maxKeyUpdates
          MaxIgnored,    \* MAX_IGNORED_ALERTS
          MaxEmpty,      \* MAX_CONSECUTIVE_EMPTY
          MaxParts,      \* fragments of one write
          MaxWrites,     \* bound: writes and key updates of the application
          MaxSent,       \* bound: records of the peer
          MaxInFlight    \* bound: those of them not yet read

ASSUME RecordAssumption ==
  {MaxSeq, MaxKeyUpdates, MaxIgnored, MaxEmpty, MaxParts, MaxWrites, MaxSent,
   MaxInFlight} \subseteq Nat

VARIABLES
  version,        \* 12 or 13
  send, recv,     \* _send and _recv: epoch and seq
  queue,          \* _writeChain: the tasks enqueued and not done
  closedLocally,  \* _closedLocally
  finished,       \* the writer has been closed
  wire,           \* the records written to the transport
  closing,        \* the calls of close() and abort()
  reading,        \* a pull of the readable is in readAppData()
  got, ended,     \* what the reader was given, and how its stream ended
  fatal,          \* _fatal: why the connection failed
  closedByPeer,   \* _closedByPeer
  updates, alerts, empties,  \* _keyUpdatesReceived, _ignoredAlerts, _emptyStreak
  writes,         \* bound: writes and key updates made
  inbox, peer,    \* the records in flight, and the peer: its keys and its state
  sent,           \* history: the data the peer has sent before its close_notify
  stalled         \* the peer has stopped reading for good

writeVars == <<send, queue, closedLocally, finished, wire, closing, writes, stalled>>
readVars == <<recv, reading, got, ended, fatal, closedByPeer, updates, alerts, empties>>
peerVars == <<inbox, peer, sent>>
vars == <<version, writeVars, readVars, peerVars>>

Fresh == [epoch |-> 0, seq |-> 0]

Init ==
  /\ version \in {12, 13}
  /\ send = Fresh /\ recv = Fresh
  /\ queue = <<>> /\ closedLocally = FALSE /\ finished = FALSE /\ wire = <<>>
  /\ closing = [c \in Callers |-> "no"] /\ writes = 0 /\ stalled = FALSE
  /\ reading = FALSE /\ got = <<>> /\ ended = "no" /\ fatal = "none" /\ closedByPeer = FALSE
  /\ updates = 0 /\ alerts = 0 /\ empties = 0
  /\ inbox = <<>> /\ sent = <<>>
  /\ peer = [epoch |-> 0, seq |-> 0, state |-> "open", corrupted |-> FALSE, sent |-> 0]

-----------------------------------------------------------------------------
(***************************************************************************)
(* The write queue.  A task emits its records one by one, then does what   *)
(* `after` says: "rotate" the send keys, "fin" the writer, or nothing.     *)
(* `tries` says that the task goes on when an emit fails, and `by` which   *)
(* call of close() or abort() waits for it.                                *)
(***************************************************************************)
Task(records, after) == [records |-> records, after |-> after, tries |-> FALSE, by |-> "nobody"]
Data(n) == Task([i \in 1..n |-> "data"], "nothing")
KeyUpdate == Task(<<"keyUpdate">>, "rotate")
FatalAlert == Task(<<"alert">>, "fin")

\* writeAppData() of the duplex, whose WritableStream makes one write at a time.
Write(n) ==
  /\ writes < MaxWrites /\ ~closedLocally
  /\ \A i \in DOMAIN queue : queue[i].after # "nothing"
  /\ writes' = writes + 1
  /\ queue' = Append(queue, Data(n))
  /\ UNCHANGED <<version, send, closedLocally, finished, wire, closing, stalled,
                 readVars, peerVars>>

UpdateKeys ==
  /\ version = 13 /\ writes < MaxWrites /\ ~closedLocally
  /\ writes' = writes + 1
  /\ queue' = Append(queue, KeyUpdate)
  /\ UNCHANGED <<version, send, closedLocally, finished, wire, closing, stalled,
                 readVars, peerVars>>

Shutdown(c) == [Task(IF closedLocally THEN <<>> ELSE <<"alert">>, "fin") EXCEPT
                  !.tries = TRUE, !.by = c]

\* close() and abort() are _shutdown() with different alerts.
Close(c) ==
  /\ closing[c] = "no"
  /\ closing' = [closing EXCEPT ![c] = "waiting"]
  /\ closedLocally' = TRUE
  /\ queue' = Append(queue, Shutdown(c))
  /\ UNCHANGED <<version, send, finished, wire, writes, stalled, readVars, peerVars>>

\* withGrace(): the call returns when its task is done, or when the timer fires.
NeverExpires(c) == closing[c] = "waiting" /\ ~stalled
Expired(c) == closing[c] = "waiting"
GraceExpires(c) ==
  /\ Expired(c)
  /\ closing' = [closing EXCEPT ![c] = "done"]
  /\ UNCHANGED <<version, send, queue, closedLocally, finished, wire, writes, stalled,
                 readVars, peerVars>>

\* The bookkeeping of a task's end, and of a key rotation.
Settled(task) == [c \in Callers |-> IF c = task.by THEN "done" ELSE closing[c]]
Rotated(keys) == [epoch |-> keys.epoch + 1, seq |-> 0]

\* A record under the send keys.
Protected(kind) == [epoch |-> send.epoch, seq |-> send.seq, kind |-> kind]

\* _emit(): the sequence number is taken before the record is protected, so a
\* record that cannot be written has used it up.
Emit ==
  LET task == Head(queue)
      rest == Tail(task.records)
      writable == send.seq < MaxSeq /\ ~finished
  IN
  /\ queue # <<>> /\ task.records # <<>> /\ ~stalled
  /\ send' = [send EXCEPT !.seq = IF @ < MaxSeq THEN @ + 1 ELSE @]
  /\ wire' = IF writable THEN Append(wire, Protected(Head(task.records))) ELSE wire
  /\ queue' = IF writable \/ task.tries THEN <<[task EXCEPT !.records = rest]>> \o Tail(queue)
              ELSE Tail(queue)
  /\ UNCHANGED <<version, closedLocally, finished, closing, writes, stalled,
                 readVars, peerVars>>

\* The end of a task: _rotateSend() after a KeyUpdate, the FIN of a shutdown.
Conclude ==
  LET task == Head(queue) IN
  /\ queue # <<>> /\ task.records = <<>> /\ (task.after = "fin" /\ ~finished => ~stalled)
  /\ send' = IF task.after = "rotate" THEN Rotated(send) ELSE send
  /\ finished' = (finished \/ task.after = "fin")
  /\ closing' = Settled(task)
  /\ queue' = Tail(queue)
  /\ UNCHANGED <<version, closedLocally, wire, writes, stalled, readVars, peerVars>>

-----------------------------------------------------------------------------
(***************************************************************************)
(* The read side.  Fail is _fail(): the error is kept and its alert, when  *)
(* it has one, is queued unless the connection is already closed locally.  *)
(***************************************************************************)
Fail(why, alerting) ==
  /\ fatal' = why /\ ended' = "error" /\ reading' = FALSE
  /\ closedLocally' = (closedLocally \/ alerting)
  /\ queue' = IF alerting /\ ~closedLocally THEN Append(queue, FatalAlert) ELSE queue
  /\ UNCHANGED <<version, send, finished, wire, closing, writes, stalled,
                 recv, got, closedByPeer, updates, alerts, empties, peer, sent>>

\* A pull of the readable side of plaintextDuplex().
Pull ==
  /\ ~reading /\ ended = "no" /\ reading' = TRUE
  /\ UNCHANGED <<version, writeVars, recv, got, ended, fatal, closedByPeer, updates, alerts,
                 empties, peerVars>>

Opens(r) == ~r.corrupted /\ r.epoch = recv.epoch /\ r.seq = recv.seq /\ recv.seq < MaxSeq
Following(keys) == [keys EXCEPT !.seq = @ + 1]

\* What the read loop gets: the head of what is in flight.
Arrives(kinds) ==
  /\ reading /\ ~closedByPeer /\ inbox # <<>>
  /\ Head(inbox).kind \in kinds /\ Opens(Head(inbox))
  /\ inbox' = Tail(inbox)

OnData ==
  /\ Arrives({"data"})
  /\ recv' = Following(recv) /\ got' = Append(got, Head(inbox).value)
  /\ empties' = 0 /\ reading' = FALSE
  /\ UNCHANGED <<version, writeVars, ended, fatal, closedByPeer, updates, alerts, peer, sent>>

OnEmpty ==
  /\ Arrives({"empty"}) /\ empties < MaxEmpty
  /\ recv' = Following(recv) /\ empties' = empties + 1
  /\ UNCHANGED <<version, writeVars, reading, got, ended, fatal, closedByPeer, updates, alerts,
                 peer, sent>>

OnWarning ==
  /\ Arrives({"warning"}) /\ alerts < MaxIgnored
  /\ recv' = Following(recv) /\ alerts' = alerts + 1
  /\ UNCHANGED <<version, writeVars, reading, got, ended, fatal, closedByPeer, updates, empties,
                 peer, sent>>

OnTicket ==
  /\ Arrives({"ticket"}) /\ version = 13
  /\ recv' = Following(recv)
  /\ UNCHANGED <<version, writeVars, reading, got, ended, fatal, closedByPeer, updates, alerts,
                 empties, peer, sent>>

\* onSessionTicket() threw: the read fails, the connection does not.
OnBadTicket ==
  /\ Arrives({"badTicket"}) /\ version = 13
  /\ recv' = Following(recv) /\ ended' = "error" /\ reading' = FALSE
  /\ UNCHANGED <<version, writeVars, got, fatal, closedByPeer, updates, alerts, empties,
                 peer, sent>>

ReceiveKeysKept == Following(recv)
ReceiveKeysRotated == Rotated(recv)

\* A KeyUpdate rotates the receive keys at once; one that asks for ours in return
\* is answered through the queue, without _assertWritable().
OnKeyUpdate ==
  /\ Arrives({"keyUpdate", "keyUpdateRequested"})
  /\ version = 13 /\ updates < MaxKeyUpdates
  /\ recv' = ReceiveKeysRotated /\ updates' = updates + 1
  /\ queue' = IF Head(inbox).kind = "keyUpdateRequested" THEN Append(queue, KeyUpdate) ELSE queue
  /\ UNCHANGED <<version, send, closedLocally, finished, wire, closing, writes, stalled,
                 reading, got, ended, fatal, closedByPeer, alerts, empties, peer, sent>>

OnCloseNotify ==
  /\ Arrives({"closeNotify"})
  /\ recv' = Following(recv) /\ closedByPeer' = TRUE /\ ended' = "clean" /\ reading' = FALSE
  /\ UNCHANGED <<version, writeVars, got, fatal, updates, alerts, empties, peer, sent>>

\* The peer's fatal alert needs no answer.
OnFatalAlert == Arrives({"fatal"}) /\ Fail("peerAlert", FALSE)

\* What is fatal wherever it arrives, what a version does not have, what is sent
\* too often, and a KeyUpdate with handshake bytes behind it.
Illegal == {"ccs", "coalescedUpdate"}
           \cup (IF version = 12 THEN {"keyUpdate", "keyUpdateRequested", "ticket", "badTicket"}
                 ELSE {})
           \cup (IF updates = MaxKeyUpdates THEN {"keyUpdate", "keyUpdateRequested"} ELSE {})
           \cup (IF alerts = MaxIgnored THEN {"warning"} ELSE {})
           \cup (IF empties = MaxEmpty THEN {"empty"} ELSE {})
OnIllegal == Arrives(Illegal) /\ Fail("protocol", TRUE)

\* A record that does not open.
OnUnopenable ==
  /\ reading /\ ~closedByPeer /\ inbox # <<>> /\ ~Opens(Head(inbox))
  /\ inbox' = Tail(inbox)
  /\ Fail("mac", TRUE)

EndsQuietly ==
  /\ ended' = "clean" /\ reading' = FALSE
  /\ UNCHANGED <<version, writeVars, recv, got, fatal, closedByPeer, updates, alerts, empties,
                 peer, sent>>
\* The transport ends without close_notify: truncation, and no alert.
EndOfInput == Fail("truncated", FALSE)
OnEof ==
  /\ reading /\ ~closedByPeer /\ inbox = <<>> /\ peer.state = "gone"
  /\ EndOfInput /\ UNCHANGED inbox

\* The reader cancels: the transport's input is cancelled, a read in progress ends.
Cancel ==
  /\ ended = "no" /\ ended' = "cancelled" /\ reading' = FALSE
  /\ fatal' = IF reading /\ fatal = "none" THEN "truncated" ELSE fatal
  /\ UNCHANGED <<version, writeVars, recv, got, closedByPeer, updates, alerts, empties, peerVars>>

-----------------------------------------------------------------------------
(***************************************************************************)
(* The peer, external: it sends what it likes, closes properly or not, and *)
(* may stop reading.  The transport may corrupt a record.                  *)
(***************************************************************************)
Kinds == {"data", "empty", "warning", "ticket", "badTicket", "keyUpdate", "keyUpdateRequested",
          "coalescedUpdate", "closeNotify", "fatal", "ccs"}
PeerSend(kind, corrupted) ==
  /\ peer.state = "open" /\ peer.sent < MaxSent /\ peer.seq < MaxSeq
  /\ Len(inbox) < MaxInFlight
  /\ corrupted => kind = "data"
  /\ inbox' = Append(inbox, [epoch |-> peer.epoch, seq |-> peer.seq, kind |-> kind,
                             corrupted |-> corrupted, value |-> Len(sent) + 1])
  /\ sent' = IF kind = "data" THEN Append(sent, Len(sent) + 1) ELSE sent
  /\ LET keys == IF kind \in {"keyUpdate", "keyUpdateRequested", "coalescedUpdate"}
                 THEN Rotated(peer) ELSE Following(peer)
     IN peer' = [epoch |-> keys.epoch, seq |-> keys.seq,
                 state |-> IF kind = "closeNotify" THEN "notified" ELSE "open",
                 corrupted |-> peer.corrupted \/ corrupted, sent |-> peer.sent + 1]
  /\ UNCHANGED <<version, writeVars, readVars>>

PeerLeaves ==
  /\ peer.state # "gone"
  /\ \E n \in 0..Len(inbox) : inbox' = SubSeq(inbox, 1, n)
  /\ peer' = [peer EXCEPT !.state = "gone"]
  /\ UNCHANGED <<version, writeVars, readVars, sent>>

PeerStopsReading ==
  /\ ~stalled /\ stalled' = TRUE
  /\ UNCHANGED <<version, send, queue, closedLocally, finished, wire, closing, writes,
                 readVars, peerVars>>

Receive ==
  \/ OnData \/ OnEmpty \/ OnWarning \/ OnTicket \/ OnBadTicket \/ OnKeyUpdate
  \/ OnCloseNotify \/ OnFatalAlert \/ OnIllegal \/ OnUnopenable \/ OnEof
Local == Emit \/ Conclude \/ Receive \/ \E c \in Callers : GraceExpires(c)
Environment ==
  \/ \E n \in 1..MaxParts : Write(n)
  \/ UpdateKeys \/ Pull \/ Cancel
  \/ \E c \in Callers : Close(c)
  \/ \E k \in Kinds, b \in BOOLEAN : PeerSend(k, b)
  \/ PeerLeaves \/ PeerStopsReading
Step == Local \/ Environment

\* The event loop runs what is ready, and timers fire; nobody else owes anything.
Spec ==
  /\ Init /\ [][Step]_vars
  /\ WF_vars(Emit) /\ WF_vars(Conclude) /\ WF_vars(Receive)
  /\ \A c \in Callers : WF_vars(GraceExpires(c))

-----------------------------------------------------------------------------
\* The peer can read all we write: epochs follow our KeyUpdates, numbers follow
\* one another and never reach the limit, and nothing comes after an alert, in
\* whatever order writes, key updates, answers and shutdowns are queued.
UpdatesBefore(i) == {j \in 1..(i - 1) : wire[j].kind = "keyUpdate"}
Readable ==
  \A i \in DOMAIN wire :
    /\ wire[i].epoch = Cardinality(UpdatesBefore(i))
    /\ wire[i].seq = i - 1 - Max({0} \cup UpdatesBefore(i))
    /\ wire[i].seq < MaxSeq
    /\ wire[i].kind = "alert" => i = Len(wire)

\* The reader gets the peer's data in order, and a clean end only after the peer's
\* close_notify with everything before it: a cut transport never looks complete
\* (the TLS_TRUNCATED of _nextPlaintextRecord).
EndIsHonest ==
  /\ IsPrefix(got, sent)
  /\ ended = "clean" => got = sent /\ peer.state # "open"

\* The keys stay in step both ways: the peer can open what we write, and a record of
\* its own, which updates its keys at any moment, fails to open only if the transport
\* corrupted one.
KeysInStep == Readable /\ (fatal = "mac" => peer.corrupted)

\* A shutdown returns although the peer has stopped reading, the transport is closed
\* unless the peer has, and a read ends once the peer is gone.
ShutdownEnds ==
  /\ \A c \in Callers : closing[c] = "waiting" ~> closing[c] = "done"
  /\ (\E c \in Callers : closing[c] # "no") ~> finished \/ stalled
  /\ (reading /\ peer.state = "gone") ~> ~reading
=============================================================================
