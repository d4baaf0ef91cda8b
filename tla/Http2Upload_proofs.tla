------------------------- MODULE Http2Upload_proofs -------------------------
(***************************************************************************)
(* Proofs about Http2Upload, for every number of uploads, body length,     *)
(* frame size, window and limit.                                           *)
(***************************************************************************)
EXTENDS Http2Upload, SequenceTheorems, TLAPS

(***************************************************************************)
(* Room and Slice are minima of integers.                                  *)
(***************************************************************************)

\* The smaller of two windows is one of them and below both.
LEMMA MinOfTwo ==
  ASSUME NEW a \in Int, NEW b \in Int
  PROVE  /\ Min({a, b}) \in {a, b}
         /\ Min({a, b}) <= a /\ Min({a, b}) <= b
PROOF
<1>1. \E x \in {a, b} : \A y \in {a, b} : x <= y
  <2>1. CASE a <= b
    BY <2>1
  <2>2. CASE b <= a
    BY <2>2
  <2> QED
    BY <2>1, <2>2
<1> QED
  BY <1>1 DEF Min

\* The same of three.
LEMMA MinOfThree ==
  ASSUME NEW a \in Int, NEW b \in Int, NEW c \in Int
  PROVE  /\ Min({a, b, c}) \in {a, b, c}
         /\ Min({a, b, c}) <= a /\ Min({a, b, c}) <= b /\ Min({a, b, c}) <= c
PROOF
<1>1. \E x \in {a, b, c} : \A y \in {a, b, c} : x <= y
  <2>1. CASE a <= b /\ a <= c
    BY <2>1
  <2>2. CASE b <= a /\ b <= c
    BY <2>2
  <2>3. CASE c <= a /\ c <= b
    BY <2>3
  <2> QED
    BY <2>1, <2>2, <2>3
<1> QED
  BY <1>1 DEF Min

-----------------------------------------------------------------------------
(***************************************************************************)
(* The inductive invariant.  Every sleeper has its waiter in the lists,    *)
(* which is what makes waking the lists enough.                            *)
(***************************************************************************)
Frames ==
  [type : {"window"}, stream : Streams, inc : Nat]
    \union [type : {"connWindow"}, inc : Nat]
    \union [type : {"settings"}, value : InitialWindows]
    \union [type : {"end", "rst"}, stream : Streams]

NoRoom(s) == sendWindow[s] <= 0 \/ connWindow <= 0

SleepersParked ==
  \A s \in Streams : phase[s] = "waiting" => s \in parked /\ ~closed[s] /\ NoRoom(s)

UploadInv ==
  /\ TypeOK
  /\ s2c \in Seq(Frames)
  /\ SleepersParked
  /\ BothHalvesClose

\* _sendData may write the smaller of the two windows, and nothing when either is used up.
LEMMA RoomIsSmaller ==
  ASSUME TypeOK, NEW s \in Streams
  PROVE  /\ Room(s) \in Int
         /\ Room(s) <= 0 <=> NoRoom(s)
PROOF
<1>1. sendWindow[s] \in Int /\ connWindow \in Int
  BY DEF TypeOK
<1>2. /\ Room(s) \in {sendWindow[s], connWindow}
      /\ Room(s) <= sendWindow[s] /\ Room(s) <= connWindow
  BY <1>1, MinOfTwo DEF Room
<1> QED
  BY <1>1, <1>2 DEF NoRoom

\* A new connection satisfies the invariant.
LEMMA UploadInvInit == Init => UploadInv
PROOF
<1> SUFFICES ASSUME Init PROVE UploadInv
  OBVIOUS
<1>1. InitialWindows \subseteq Int /\ BodyLength \in Nat /\ InitialConn \in Int
  BY UploadAssumption
<1>2. TypeOK
  BY <1>1 DEF Init, TypeOK
<1>3. s2c \in Seq(Frames)
  BY DEF Init
<1>4. SleepersParked /\ BothHalvesClose
  BY DEF Init, SleepersParked, BothHalvesClose
<1> QED
  BY <1>2, <1>3, <1>4 DEF UploadInv

-----------------------------------------------------------------------------
(***************************************************************************)
(* What waking does, and one lemma for each group of actions.              *)
(***************************************************************************)

\* Whoever still sleeps after a wake slept before and was not woken.
LEMMA WakeFacts ==
  ASSUME TypeOK, NEW woken \in SUBSET Streams, Wake(woken)
  PROVE  /\ phase' \in [Streams -> {"sending", "waiting", "writing", "done", "stopped"}]
         /\ parked' \subseteq Streams
         /\ \A s \in Streams : phase'[s] = "waiting" => phase[s] = "waiting" /\ s \notin woken
         /\ parked' = parked \ woken
PROOF
  BY DEF TypeOK, Wake

\* _removeStream leaves nobody asleep: every sleeper has a waiter in the
\* connection's list.
LEMMA WakeAll ==
  ASSUME TypeOK, SleepersParked, Wake(parked)
  PROVE  \A s \in Streams : phase'[s] # "waiting"
PROOF
<1>1. parked \in SUBSET Streams
  BY DEF TypeOK
<1> QED
  BY <1>1, WakeFacts DEF SleepersParked

\* What a frame of each type carries.
LEMMA FrameFacts ==
  ASSUME s2c \in Seq(Frames), s2c # <<>>
  PROVE  /\ Tail(s2c) \in Seq(Frames)
         /\ Receives("window") => Head(s2c).stream \in Streams /\ Head(s2c).inc \in Nat
         /\ Receives("connWindow") => Head(s2c).inc \in Nat
         /\ Receives("settings") => Head(s2c).value \in InitialWindows
         /\ Receives("end") \/ Receives("rst") => Head(s2c).stream \in Streams
PROOF
<1>1. Head(s2c) \in Frames /\ Tail(s2c) \in Seq(Frames)
  OBVIOUS
<1> QED
  BY <1>1 DEF Frames, Receives

\* The stretches of _sendBody.
LEMMA SendBodyStep ==
  ASSUME UploadInv, NEW s \in Streams, SendBody(s)
  PROVE  UploadInv'
PROOF
<1>1. CASE StopUpload(s)
  <2>1. TypeOK'
    BY <1>1 DEF StopUpload, windowVars, streamVars, serverVars, UploadInv, TypeOK
  <2>2. SleepersParked'
    BY <1>1 DEF StopUpload, windowVars, streamVars, UploadInv, TypeOK, SleepersParked, NoRoom
  <2> QED
    BY <1>1, <2>1, <2>2 DEF StopUpload, streamVars, UploadInv, BothHalvesClose
<1>2. CASE AwaitSendWindow(s)
  <2>1. NoRoom(s)
    BY <1>2, RoomIsSmaller DEF AwaitSendWindow, UploadInv
  <2>2. TypeOK'
    BY <1>2 DEF AwaitSendWindow, windowVars, streamVars, serverVars, UploadInv, TypeOK
  <2>3. SleepersParked'
    BY <1>2, <2>1 DEF AwaitSendWindow, Sends, windowVars, streamVars, UploadInv, TypeOK,
                      SleepersParked, NoRoom
  <2> QED
    BY <1>2, <2>2, <2>3 DEF AwaitSendWindow, streamVars, UploadInv, BothHalvesClose
<1>3. CASE SendChunk(s)
  <2>1. Room(s) \in Int /\ Room(s) > 0
    BY <1>3, RoomIsSmaller DEF SendChunk, UploadInv
  <2>2. /\ left[s] \in 0..BodyLength /\ left[s] \in Int
        /\ MaxFrame \in Int /\ MaxFrame > 0 /\ BodyLength \in Nat
    BY UploadAssumption DEF UploadInv, TypeOK
  <2>3. /\ Slice(s) \in {Room(s), MaxFrame, left[s]}
        /\ Slice(s) <= left[s]
    <3>1. Min({Room(s), MaxFrame, left[s]}) \in {Room(s), MaxFrame, left[s]}
      BY <2>1, <2>2, MinOfThree, Zenon
    <3>2. Min({Room(s), MaxFrame, left[s]}) <= left[s]
      BY <2>1, <2>2, MinOfThree, Zenon
    <3> QED
      BY <3>1, <3>2 DEF Slice
  <2>4. Slice(s) \in Nat /\ left[s] - Slice(s) \in 0..BodyLength
    BY <2>1, <2>2, <2>3
  <2>5. TypeOK'
    <3>1. left' \in [Streams -> 0..BodyLength]
      BY <1>3, <2>4 DEF SendChunk, UploadInv, TypeOK
    <3>2. /\ sendWindow' \in [Streams -> Int] /\ connWindow' \in Int
          /\ srvWindow' \in [Streams -> Int] /\ srvConn' \in Int
      BY <1>3, <2>4 DEF SendChunk, UploadInv, TypeOK
    <3> QED
      BY <1>3, <3>1, <3>2 DEF SendChunk, streamVars, UploadInv, TypeOK
  <2>6. SleepersParked'
    BY <1>3, <2>4 DEF SendChunk, streamVars, UploadInv, TypeOK, SleepersParked, NoRoom
  <2> QED
    BY <1>3, <2>5, <2>6 DEF SendChunk, streamVars, UploadInv, BothHalvesClose
<1>4. CASE ChunkWritten(s)
  <2> DEFINE woken == IF ClosesAfterUpload(s) THEN parked ELSE {}
  <2>1. UNCHANGED <<left, windowVars, recvEnded, s2c, serverVars>>
    BY <1>4 DEF ChunkWritten
  <2>2. woken \subseteq Streams /\ woken \subseteq parked
    BY DEF UploadInv, TypeOK
  <2>3. CASE left[s] = 0
    <3>1. /\ phase' = [t \in Streams |-> IF t = s THEN "done"
                                       ELSE IF t \in woken THEN "sending" ELSE phase[t]]
          /\ parked' = parked \ woken
          /\ localEnded' = [localEnded EXCEPT ![s] = TRUE]
          /\ closed' = [closed EXCEPT ![s] = @ \/ ClosesAfterUpload(s)]
      BY <1>4, <2>3 DEF ChunkWritten
    <3> HIDE DEF woken
    <3>2. phase' \in [Streams -> {"sending", "waiting", "writing", "done", "stopped"}]
      BY <3>1 DEF UploadInv, TypeOK
    <3>3. parked' \subseteq Streams
      BY <3>1 DEF UploadInv, TypeOK
    <3>4. /\ localEnded' \in [Streams -> BOOLEAN] /\ recvEnded' \in [Streams -> BOOLEAN]
          /\ closed' \in [Streams -> BOOLEAN]
      BY <2>1, <3>1 DEF UploadInv, TypeOK, ClosesAfterUpload
    <3>5. TypeOK'
      BY <2>1, <3>2, <3>3, <3>4 DEF windowVars, serverVars, UploadInv, TypeOK
    <3>6. BothHalvesClose'
      BY <2>1, <3>1 DEF UploadInv, TypeOK, BothHalvesClose, ClosesAfterUpload, BothEnded
    <3>7. ASSUME NEW t \in Streams, phase'[t] = "waiting"
          PROVE  t \in parked' /\ ~closed'[t] /\ NoRoom(t)'
      <4>1. t # s /\ t \notin woken /\ phase[t] = "waiting"
        BY <3>1, <3>7
      <4> QED
        BY <2>1, <3>1, <4>1 DEF windowVars, UploadInv, TypeOK, SleepersParked, NoRoom
    <3> QED
      BY <2>1, <3>5, <3>6, <3>7 DEF UploadInv, SleepersParked
  <2>4. CASE left[s] # 0
    <3>1. phase' = [phase EXCEPT ![s] = "sending"] /\ UNCHANGED <<parked, localEnded, closed>>
      BY <1>4, <2>4 DEF ChunkWritten
    <3>2. TypeOK'
      BY <2>1, <3>1 DEF windowVars, serverVars, UploadInv, TypeOK
    <3>3. SleepersParked'
      BY <2>1, <3>1 DEF windowVars, UploadInv, TypeOK, SleepersParked, NoRoom
    <3> QED
      BY <2>1, <3>1, <3>2, <3>3 DEF UploadInv, BothHalvesClose
  <2> QED
    BY <2>3, <2>4
<1> QED
  BY <1>1, <1>2, <1>3, <1>4 DEF SendBody

\* A stream leaves the map and every sleeper with it (_removeStream).
LEMMA CloseStreamStep ==
  ASSUME UploadInv, NEW s \in Streams, CloseStream(s),
         UNCHANGED <<left, windowVars, localEnded, serverVars>>,
         recvEnded' \in [Streams -> BOOLEAN],
         \A t \in Streams \ {s} : recvEnded'[t] = recvEnded[t],
         s2c' \in Seq(Frames)
  PROVE  UploadInv'
PROOF
<1>1. /\ closed' = [closed EXCEPT ![s] = TRUE] /\ Wake(parked)
      /\ parked \in SUBSET Streams /\ TypeOK /\ SleepersParked
  BY DEF CloseStream, UploadInv, TypeOK
<1>2. SleepersParked'
  BY <1>1, WakeAll DEF SleepersParked
<1>3. /\ phase' \in [Streams -> {"sending", "waiting", "writing", "done", "stopped"}]
      /\ parked' \subseteq Streams
  BY <1>1, WakeFacts
<1>4. TypeOK'
  BY <1>1, <1>3 DEF windowVars, serverVars, TypeOK
<1>5. BothHalvesClose'
  BY <1>1 DEF UploadInv, TypeOK, BothHalvesClose
<1> QED
  BY <1>2, <1>4, <1>5 DEF UploadInv

\* An abort or a cancelled body closes the stream and keeps the invariant.
LEMMA AbandonStep ==
  ASSUME UploadInv, NEW s \in Streams, Abandon(s)
  PROVE  UploadInv'
PROOF
<1>1. /\ CloseStream(s)
      /\ UNCHANGED <<left, windowVars, localEnded, serverVars>>
      /\ recvEnded' = recvEnded /\ s2c' = s2c
  BY DEF Abandon
<1> QED
  BY <1>1, CloseStreamStep DEF UploadInv, TypeOK

\* END_STREAM: the second half to end closes the stream.
LEMMA OnResponseEndStep ==
  ASSUME UploadInv, OnResponseEnd
  PROVE  UploadInv'
PROOF
<1> DEFINE s == Head(s2c).stream
<1>1. s \in Streams /\ s2c' = Tail(s2c) /\ s2c' \in Seq(Frames)
  BY FrameFacts DEF OnResponseEnd, UploadInv, Receives
<1>2. /\ recvEnded' = [recvEnded EXCEPT ![s] = @ \/ ~closed[s]]
      /\ UNCHANGED <<left, windowVars, localEnded, serverVars>>
      /\ IF ~closed[s] /\ BothEnded(localEnded[s], TRUE)
         THEN CloseStream(s) ELSE UNCHANGED <<phase, parked, closed>>
  BY DEF OnResponseEnd
<1> HIDE DEF s
<1>3. /\ recvEnded' \in [Streams -> BOOLEAN]
      /\ \A t \in Streams \ {s} : recvEnded'[t] = recvEnded[t]
  BY <1>1, <1>2 DEF UploadInv, TypeOK
<1>4. CASE ~closed[s] /\ BothEnded(localEnded[s], TRUE)
  BY <1>1, <1>2, <1>3, <1>4, CloseStreamStep
<1>5. CASE ~(~closed[s] /\ BothEnded(localEnded[s], TRUE))
  <2>1. UNCHANGED <<phase, parked, closed>>
    BY <1>2, <1>5
  <2>2. TypeOK'
    BY <1>2, <1>3, <2>1 DEF windowVars, serverVars, UploadInv, TypeOK
  <2>3. SleepersParked'
    BY <1>2, <2>1 DEF windowVars, UploadInv, SleepersParked, NoRoom
  <2>4. BothHalvesClose'
    BY <1>1, <1>2, <1>5, <2>1 DEF UploadInv, TypeOK, BothHalvesClose, BothEnded
  <2> QED
    BY <1>1, <2>2, <2>3, <2>4 DEF UploadInv
<1> QED
  BY <1>4, <1>5

\* RST_STREAM from the server keeps the invariant.
LEMMA OnRstStep ==
  ASSUME UploadInv, OnRst
  PROVE  UploadInv'
PROOF
<1> DEFINE s == Head(s2c).stream
<1>1. s \in Streams /\ s2c' \in Seq(Frames)
  BY FrameFacts DEF OnRst, UploadInv, Receives
<1>2. /\ UNCHANGED <<left, windowVars, localEnded, recvEnded, serverVars>>
      /\ IF closed[s] THEN UNCHANGED <<phase, parked, closed>> ELSE CloseStream(s)
  BY DEF OnRst
<1> HIDE DEF s
<1>3. CASE ~closed[s]
  BY <1>1, <1>2, <1>3, CloseStreamStep DEF UploadInv, TypeOK
<1>4. CASE closed[s]
  <2>1. UNCHANGED <<phase, parked, closed>>
    BY <1>2, <1>4
  <2>2. TypeOK'
    BY <1>2, <2>1 DEF windowVars, serverVars, UploadInv, TypeOK
  <2>3. SleepersParked' /\ BothHalvesClose'
    BY <1>2, <2>1 DEF windowVars, UploadInv, SleepersParked, NoRoom, BothHalvesClose
  <2> QED
    BY <1>1, <2>2, <2>3 DEF UploadInv
<1> QED
  BY <1>3, <1>4

\* Either WINDOW_UPDATE resolves every waiter: whichever window it opens.
LEMMA OnStreamWindowUpdateStep ==
  ASSUME UploadInv, OnStreamWindowUpdate
  PROVE  UploadInv'
PROOF
<1> DEFINE s == Head(s2c).stream
           grown == sendWindow[s] + Head(s2c).inc
<1>1. s \in Streams /\ Head(s2c).inc \in Nat /\ s2c' \in Seq(Frames)
  BY FrameFacts DEF OnStreamWindowUpdate, UploadInv, Receives
<1>2. grown \in Int
  BY <1>1 DEF UploadInv, TypeOK
<1>3. CASE closed[s] /\ UNCHANGED <<phase, left, parked, windowVars, streamVars, serverVars>>
  <2>1. TypeOK'
    BY <1>3 DEF windowVars, streamVars, serverVars, UploadInv, TypeOK
  <2>2. SleepersParked' /\ BothHalvesClose'
    BY <1>3 DEF windowVars, streamVars, UploadInv, SleepersParked, NoRoom, BothHalvesClose
  <2> QED
    BY <1>1, <2>1, <2>2 DEF UploadInv
<1>4. CASE /\ ~closed[s]
           /\ sendWindow' = [sendWindow EXCEPT ![s] = grown]
           /\ Wake(parked)
           /\ closed' = [closed EXCEPT ![s] = grown > MaxWindow]
           /\ UNCHANGED <<left, connWindow, peerInitial, localEnded, recvEnded, serverVars>>
  <2> HIDE DEF s, grown
  <2>1. SleepersParked'
    BY <1>4, WakeAll DEF UploadInv, SleepersParked
  <2>2. /\ phase' \in [Streams -> {"sending", "waiting", "writing", "done", "stopped"}]
        /\ parked' \subseteq Streams
    BY <1>4, WakeFacts DEF UploadInv, TypeOK
  <2>3. sendWindow' \in [Streams -> Int] /\ closed' \in [Streams -> BOOLEAN]
    <3>1. sendWindow' \in [Streams -> Int]
      BY <1>2, <1>4 DEF UploadInv, TypeOK
    <3>2. closed' \in [Streams -> BOOLEAN]
      <4> DEFINE overflows == grown > MaxWindow
      <4>1. overflows \in BOOLEAN
        OBVIOUS
      <4>2. closed' = [closed EXCEPT ![s] = overflows]
        BY <1>4
      <4> HIDE DEF overflows
      <4> QED
        BY <4>1, <4>2 DEF UploadInv, TypeOK
    <3> QED
      BY <3>1, <3>2
  <2>4. TypeOK'
    BY <1>4, <2>2, <2>3 DEF serverVars, UploadInv, TypeOK
  <2>5. BothHalvesClose'
    BY <1>4 DEF UploadInv, TypeOK, BothHalvesClose
  <2> QED
    BY <1>1, <2>1, <2>4, <2>5 DEF UploadInv
<1> QED
  BY <1>3, <1>4 DEF OnStreamWindowUpdate

\* A WINDOW_UPDATE of the connection wakes every sleeper and keeps the invariant.
LEMMA OnConnWindowUpdateStep ==
  ASSUME UploadInv, OnConnWindowUpdate
  PROVE  UploadInv'
PROOF
<1>1. Head(s2c).inc \in Nat /\ Tail(s2c) \in Seq(Frames)
  BY FrameFacts DEF OnConnWindowUpdate, UploadInv, Receives
<1>2. /\ connWindow' = connWindow + Head(s2c).inc /\ Wake(parked)
      /\ UNCHANGED <<left, sendWindow, peerInitial, localEnded, recvEnded, serverVars>>
  BY DEF OnConnWindowUpdate
<1>3. /\ closed' \in [Streams -> BOOLEAN] /\ s2c' \in Seq(Frames)
      /\ \A s \in Streams : closed[s] => closed'[s]
  <2>1. IF connWindow' > MaxWindow
        THEN closed' = [s \in Streams |-> TRUE] /\ s2c' = <<>>
        ELSE UNCHANGED closed /\ s2c' = Tail(s2c)
    BY DEF OnConnWindowUpdate
  <2>2. closed \in [Streams -> BOOLEAN]
    BY DEF UploadInv, TypeOK
  <2>3. CASE closed' = [s \in Streams |-> TRUE] /\ s2c' = <<>>
    <3>1. s2c' \in Seq(Frames)
      BY <2>3
    <3> QED
      BY <2>3, <3>1
  <2>4. CASE UNCHANGED closed /\ s2c' = Tail(s2c)
    BY <1>1, <2>2, <2>4
  <2> QED
    BY <2>1, <2>3, <2>4
<1>4. SleepersParked'
  BY <1>2, WakeAll DEF UploadInv, SleepersParked
<1>5. /\ phase' \in [Streams -> {"sending", "waiting", "writing", "done", "stopped"}]
      /\ parked' \subseteq Streams
  BY <1>2, WakeFacts DEF UploadInv, TypeOK
<1>6. TypeOK'
  BY <1>1, <1>2, <1>3, <1>5 DEF serverVars, UploadInv, TypeOK
<1>7. BothHalvesClose'
  BY <1>2, <1>3 DEF UploadInv, BothHalvesClose
<1> QED
  BY <1>3, <1>4, <1>6, <1>7 DEF UploadInv

\* New SETTINGS resolve every waiter as soon as one live stream has room; when
\* none has, every sleeper still has no room of its own.
LEMMA OnInitialWindowStep ==
  ASSUME UploadInv, OnInitialWindow
  PROVE  UploadInv'
PROOF
<1> DEFINE delta == Head(s2c).value - peerInitial
           moved == [s \in Streams |-> IF closed[s] THEN sendWindow[s] ELSE sendWindow[s] + delta]
           woken == IF \E s \in Streams : ~closed[s] /\ moved[s] > 0 THEN parked ELSE {}
<1>1. Head(s2c).value \in InitialWindows /\ s2c' \in Seq(Frames)
  BY FrameFacts DEF OnInitialWindow, UploadInv, Receives
<1>2. delta \in Int
  <2>1. InitialWindows \subseteq Int
    BY UploadAssumption
  <2>2. peerInitial \in Int /\ Head(s2c).value \in Int
    BY <1>1, <2>1 DEF UploadInv, TypeOK
  <2> QED
    BY <2>2
<1>3. /\ peerInitial' = Head(s2c).value
      /\ sendWindow' = moved
      /\ srvWindow' = [s \in Streams |-> IF closed[s] THEN srvWindow[s] ELSE srvWindow[s] + delta]
      /\ Wake(woken)
      /\ UNCHANGED <<left, connWindow, streamVars, srvConn>>
  BY DEF OnInitialWindow
<1>4. woken \in SUBSET Streams
  BY DEF UploadInv, TypeOK
<1>5. moved \in [Streams -> Int]
  BY <1>2 DEF UploadInv, TypeOK
<1>6. /\ phase' \in [Streams -> {"sending", "waiting", "writing", "done", "stopped"}]
      /\ parked' = parked \ woken
      /\ \A s \in Streams : phase'[s] = "waiting" => phase[s] = "waiting" /\ s \notin woken
  <2> HIDE DEF woken
  <2> QED
    BY <1>3, <1>4, WakeFacts DEF UploadInv
<1>7. TypeOK'
  <2>1. srvWindow' \in [Streams -> Int]
    <3> HIDE DEF delta
    <3> QED
      BY <1>2, <1>3 DEF UploadInv, TypeOK
  <2> HIDE DEF delta, moved, woken
  <2> QED
    BY <1>1, <1>3, <1>5, <1>6, <2>1 DEF streamVars, UploadInv, TypeOK
<1>8. ASSUME NEW s \in Streams, phase'[s] = "waiting"
      PROVE  s \in parked' /\ ~closed'[s] /\ NoRoom(s)'
  <2>1. phase[s] = "waiting" /\ s \notin woken /\ s \in parked /\ ~closed[s]
    BY <1>6, <1>8 DEF UploadInv, SleepersParked
  <2>2. ~(moved[s] > 0)
    BY <2>1
  <2>3. sendWindow'[s] = moved[s] /\ moved[s] \in Int
    BY <1>3, <1>5
  <2> HIDE DEF delta, moved, woken
  <2> QED
    BY <1>3, <1>6, <2>1, <2>2, <2>3 DEF streamVars, NoRoom
<1>9. BothHalvesClose'
  BY <1>3 DEF streamVars, UploadInv, BothHalvesClose
<1> QED
  BY <1>1, <1>7, <1>8, <1>9 DEF UploadInv, SleepersParked

\* The server writes a frame and counts the credit it extends.
LEMMA WriteStep ==
  ASSUME UploadInv, NEW frame \in Frames, Write(frame),
         UNCHANGED <<phase, left, parked, windowVars, streamVars>>,
         srvWindow' \in [Streams -> Int], srvConn' \in Int
  PROVE  UploadInv'
PROOF
<1>1. s2c' \in Seq(Frames)
  BY DEF Write, UploadInv
<1>2. TypeOK'
  BY DEF windowVars, streamVars, UploadInv, TypeOK
<1>3. SleepersParked' /\ BothHalvesClose'
  BY DEF windowVars, streamVars, UploadInv, SleepersParked, NoRoom, BothHalvesClose
<1> QED
  BY <1>1, <1>2, <1>3 DEF UploadInv

\* What the server writes keeps the invariant.
LEMMA ServerStep ==
  ASSUME UploadInv,
         \/ \E s \in Streams : SrvGrantStream(s) \/ SrvEnd(s) \/ SrvRst(s)
         \/ SrvGrantConn \/ SrvSettings
  PROVE  UploadInv'
PROOF
<1>1. MaxGrant \in Nat /\ srvWindow \in [Streams -> Int] /\ srvConn \in Int
  BY UploadAssumption DEF UploadInv, TypeOK
<1>2. ASSUME NEW s \in Streams, SrvGrantStream(s)
      PROVE  UploadInv'
  <2>1. PICK n \in 1..MaxGrant :
          /\ Write([type |-> "window", stream |-> s, inc |-> n])
          /\ srvWindow' = [srvWindow EXCEPT ![s] = @ + n]
          /\ UNCHANGED <<phase, left, parked, windowVars, streamVars, srvConn>>
    BY <1>2 DEF SrvGrantStream
  <2>2. [type |-> "window", stream |-> s, inc |-> n] \in Frames
    BY <1>1 DEF Frames
  <2>3. srvWindow' \in [Streams -> Int] /\ srvConn' \in Int
    BY <1>1, <2>1
  <2> QED
    BY <2>1, <2>2, <2>3, WriteStep
<1>3. CASE SrvGrantConn
  <2>1. PICK n \in 1..MaxGrant :
          /\ Write([type |-> "connWindow", inc |-> n])
          /\ srvConn' = srvConn + n
          /\ UNCHANGED <<phase, left, parked, windowVars, streamVars, srvWindow>>
    BY <1>3 DEF SrvGrantConn
  <2>2. [type |-> "connWindow", inc |-> n] \in Frames
    BY <1>1 DEF Frames
  <2>3. srvWindow' \in [Streams -> Int] /\ srvConn' \in Int
    BY <1>1, <2>1
  <2> QED
    BY <2>1, <2>2, <2>3, WriteStep
<1>4. CASE SrvSettings
  <2>1. PICK value \in InitialWindows :
          /\ Write([type |-> "settings", value |-> value])
          /\ UNCHANGED <<phase, left, parked, windowVars, streamVars, serverVars>>
    BY <1>4 DEF SrvSettings
  <2>2. [type |-> "settings", value |-> value] \in Frames
    BY DEF Frames
  <2>3. srvWindow' \in [Streams -> Int] /\ srvConn' \in Int
    BY <1>1, <2>1 DEF serverVars
  <2> QED
    BY <2>1, <2>2, <2>3, WriteStep
<1>5. ASSUME NEW s \in Streams, SrvEnd(s) \/ SrvRst(s)
      PROVE  UploadInv'
  <2>1. PICK type \in {"end", "rst"} :
          /\ Write([type |-> type, stream |-> s])
          /\ UNCHANGED <<phase, left, parked, windowVars, streamVars, serverVars>>
    BY <1>5 DEF SrvEnd, SrvRst
  <2>2. [type |-> type, stream |-> s] \in Frames
    BY DEF Frames
  <2>3. srvWindow' \in [Streams -> Int] /\ srvConn' \in Int
    BY <1>1, <2>1 DEF serverVars
  <2> QED
    BY <2>1, <2>2, <2>3, WriteStep
<1> QED
  BY <1>2, <1>3, <1>4, <1>5

\* No step of the uploads breaks the invariant.
LEMMA UploadInvNext ==
  ASSUME UploadInv, [Next]_vars
  PROVE  UploadInv'
PROOF
<1>1. CASE UNCHANGED vars
  <2>1. TypeOK'
    BY <1>1 DEF vars, windowVars, streamVars, serverVars, UploadInv, TypeOK
  <2>2. SleepersParked' /\ BothHalvesClose'
    BY <1>1 DEF vars, windowVars, streamVars, UploadInv, SleepersParked, NoRoom,
                BothHalvesClose
  <2> QED
    BY <1>1, <2>1, <2>2 DEF vars, UploadInv
<1>2. CASE \E s \in Streams : SendBody(s) \/ Abandon(s)
  BY <1>2, SendBodyStep, AbandonStep
<1>3. CASE OnFrame
  BY <1>3, OnStreamWindowUpdateStep, OnConnWindowUpdateStep, OnInitialWindowStep,
     OnResponseEndStep, OnRstStep DEF OnFrame
<1>4. CASE \/ \E s \in Streams : SrvGrantStream(s) \/ SrvEnd(s) \/ SrvRst(s)
           \/ SrvGrantConn \/ SrvSettings
  BY <1>4, ServerStep
<1> QED
  BY <1>1, <1>2, <1>3, <1>4 DEF Next

\* The invariant holds in every reachable state.
LEMMA UploadInvHolds == Spec => []UploadInv
PROOF
  BY UploadInvInit, UploadInvNext, PTL DEF Spec

-----------------------------------------------------------------------------
(***************************************************************************)
(* The credit in flight.  A window at the sender and the credit the server *)
(* has extended differ by the updates still on the wire: positions rise    *)
(* from the one to the other, over each update by its increment.           *)
(***************************************************************************)
ConnWorth(frame) == IF frame.type = "connWindow" THEN frame.inc ELSE 0
StreamWorth(frame, s) == IF frame.type = "window" /\ frame.stream = s THEN frame.inc ELSE 0

ConnWorths(wire) == [i \in 1..Len(wire) |-> ConnWorth(wire[i])]
StreamWorths(wire, s) == [i \in 1..Len(wire) |-> StreamWorth(wire[i], s)]

Climbs(p, worths) ==
  \A i \in 0..Len(worths), j \in 1..Len(worths) : i < j => p[i] + worths[j] <= p[j]

Backed(worths, low, high) ==
  \E p \in [0..Len(worths) -> Int] :
    low <= p[0] /\ p[Len(worths)] <= high /\ Climbs(p, worths)

CreditBacked ==
  /\ Backed(ConnWorths(s2c), connWindow, srvConn)
  /\ \A s \in Streams : ~closed[s] => Backed(StreamWorths(s2c, s), sendWindow[s], srvWindow[s])

\* With nothing in flight, a window is at most the credit behind it.
LEMMA BackedEmpty ==
  ASSUME NEW low \in Int, NEW high \in Int, low <= high
  PROVE  Backed(<<>>, low, high)
PROOF
<1> DEFINE p == [i \in 0..0 |-> low]
<1>1. p \in [0..Len(<<>>) -> Int] /\ p[0] = low /\ Len(<<>>) = 0
  OBVIOUS
<1>2. Climbs(p, <<>>)
  BY DEF Climbs
<1> HIDE DEF p
<1> QED
  BY <1>1, <1>2 DEF Backed

\* Whatever is in flight, no window is above the credit behind it.
LEMMA BackedBound ==
  ASSUME NEW worths \in Seq(Nat), NEW low \in Int, NEW high \in Int,
         Backed(worths, low, high)
  PROVE  low <= high
PROOF
<1>1. PICK p \in [0..Len(worths) -> Int] :
        low <= p[0] /\ p[Len(worths)] <= high /\ Climbs(p, worths)
  BY DEF Backed
<1>2. Len(worths) \in Nat /\ p[0] \in Int /\ p[Len(worths)] \in Int
  OBVIOUS
<1>3. CASE Len(worths) = 0
  BY <1>1, <1>2, <1>3
<1>4. CASE Len(worths) # 0
  <2>1. 0 \in 0..Len(worths) /\ Len(worths) \in 1..Len(worths) /\ 0 < Len(worths)
    BY <1>2, <1>4
  <2>2. p[0] + worths[Len(worths)] <= p[Len(worths)]
    BY <1>1, <2>1 DEF Climbs
  <2>3. worths[Len(worths)] \in Nat
    BY <2>1
  <2> QED
    BY <1>1, <1>2, <2>2, <2>3
<1> QED
  BY <1>3, <1>4

\* DATA takes as much from the window as from the credit; so do new SETTINGS.
LEMMA BackedShift ==
  ASSUME NEW worths \in Seq(Nat), NEW low \in Int, NEW high \in Int, NEW d \in Int,
         Backed(worths, low, high)
  PROVE  Backed(worths, low + d, high + d)
PROOF
<1>1. PICK p \in [0..Len(worths) -> Int] :
        low <= p[0] /\ p[Len(worths)] <= high /\ Climbs(p, worths)
  BY DEF Backed
<1> DEFINE q == [i \in 0..Len(worths) |-> p[i] + d]
<1>2. Len(worths) \in Nat /\ 0 \in 0..Len(worths) /\ Len(worths) \in 0..Len(worths)
  OBVIOUS
<1>3. q \in [0..Len(worths) -> Int] /\ \A i \in 0..Len(worths) : q[i] = p[i] + d /\ p[i] \in Int
  OBVIOUS
<1> HIDE DEF q
<1>4. Climbs(q, worths)
  <2> SUFFICES ASSUME NEW i \in 0..Len(worths), NEW j \in 1..Len(worths), i < j
               PROVE  q[i] + worths[j] <= q[j]
    BY DEF Climbs
  <2>1. p[i] + worths[j] <= p[j]
    BY <1>1 DEF Climbs
  <2>2. j \in 0..Len(worths) /\ worths[j] \in Nat
    BY <1>2
  <2> QED
    BY <1>3, <2>1, <2>2
<1>5. low + d <= q[0] /\ q[Len(worths)] <= high + d
  BY <1>1, <1>2, <1>3
<1> QED
  BY <1>3, <1>4, <1>5 DEF Backed

\* The server extends credit and writes the update that says so.
LEMMA BackedAppend ==
  ASSUME NEW worths \in Seq(Nat), NEW low \in Int, NEW high \in Int, NEW n \in Nat,
         Backed(worths, low, high)
  PROVE  Backed(Append(worths, n), low, high + n)
PROOF
<1> DEFINE more == Append(worths, n)
           k == Len(worths)
<1>1. PICK p \in [0..k -> Int] : low <= p[0] /\ p[k] <= high /\ Climbs(p, worths)
  BY DEF Backed
<1>2. k \in Nat /\ Len(more) = k + 1 /\ more[k + 1] = n /\ \A j \in 1..k : more[j] = worths[j]
  OBVIOUS
<1> DEFINE q == [i \in 0..(k + 1) |-> IF i = k + 1 THEN p[k] + n ELSE p[i]]
<1>3. /\ q \in [0..(k + 1) -> Int] /\ q[k + 1] = p[k] + n
      /\ \A i \in 0..k : q[i] = p[i] /\ p[i] \in Int
  <2> HIDE DEF k, more
  <2>1. /\ 0..k \subseteq 0..(k + 1) /\ k \in 0..k /\ k + 1 \in 0..(k + 1)
        /\ \A i \in 0..(k + 1) : i # k + 1 => i \in 0..k
        /\ \A i \in 0..k : i # k + 1
    BY <1>2
  <2>2. p[k] + n \in Int
    BY <2>1
  <2> QED
    BY <2>1, <2>2
<1>4. \A i \in 0..k : p[i] <= p[k]
  <2> TAKE i \in 0..k
  <2>1. CASE i = k
    BY <1>3, <2>1
  <2>2. CASE i # k
    <3>1. i < k /\ k \in 1..k
      BY <1>2, <2>2
    <3>2. p[i] + worths[k] <= p[k]
      BY <1>1, <3>1 DEF Climbs
    <3>3. p[k] \in Int /\ p[i] \in Int
      <4>1. k \in 0..k
        BY <1>2
      <4> HIDE DEF k, q
      <4> QED
        BY <4>1
    <3>4. worths[k] \in Nat
      BY <3>1
    <3> QED
      BY <3>2, <3>3, <3>4
  <2> QED
    BY <2>1, <2>2
<1> HIDE DEF q, more
<1>5. Climbs(q, more)
  <2> SUFFICES ASSUME NEW i \in 0..(k + 1), NEW j \in 1..(k + 1), i < j
               PROVE  q[i] + more[j] <= q[j]
    BY <1>2 DEF Climbs
  <2>1. CASE j = k + 1
    <3>1. i \in 0..k
      BY <1>2, <2>1
    <3>2. p[k] \in Int
      BY <1>2
    <3> QED
      BY <1>2, <1>3, <1>4, <2>1, <3>1, <3>2
  <2>2. CASE j # k + 1
    <3>1. i \in 0..k /\ j \in 1..k /\ j \in 0..k
      BY <1>2, <2>2
    <3>2. p[i] + worths[j] <= p[j]
      BY <1>1, <3>1 DEF Climbs
    <3> QED
      BY <1>2, <1>3, <3>1, <3>2
  <2> QED
    BY <2>1, <2>2
<1>6. low <= q[0] /\ q[Len(more)] <= high + n
  <2>1. p[k] \in Int /\ 0 \in 0..k
    BY <1>2
  <2> QED
    BY <1>1, <1>2, <1>3, <2>1
<1>7. Backed(more, low, high + n)
  BY <1>2, <1>3, <1>5, <1>6 DEF Backed
<1> QED
  BY <1>7 DEF more

\* The update at the head of the wire is added to the window.
LEMMA BackedTail ==
  ASSUME NEW worths \in Seq(Nat), NEW low \in Int, NEW high \in Int, worths # <<>>,
         Backed(worths, low, high)
  PROVE  Backed(Tail(worths), low + Head(worths), high)
PROOF
<1> DEFINE rest == Tail(worths)
           k == Len(worths)
<1>1. PICK p \in [0..k -> Int] : low <= p[0] /\ p[k] <= high /\ Climbs(p, worths)
  BY DEF Backed
<1>2. /\ k \in Nat /\ k >= 1 /\ Len(rest) = k - 1 /\ Head(worths) = worths[1]
      /\ worths[1] \in Nat
      /\ \A j \in 1..(k - 1) : rest[j] = worths[j + 1]
  OBVIOUS
<1> DEFINE q == [i \in 0..(k - 1) |-> p[i + 1]]
<1>3. q \in [0..(k - 1) -> Int] /\ \A i \in 0..(k - 1) : q[i] = p[i + 1] /\ p[i + 1] \in Int
  BY <1>2
<1> HIDE DEF q, rest
<1>4. Climbs(q, rest)
  <2> SUFFICES ASSUME NEW i \in 0..(k - 1), NEW j \in 1..(k - 1), i < j
               PROVE  q[i] + rest[j] <= q[j]
    BY <1>2 DEF Climbs
  <2>1. i + 1 \in 0..k /\ j + 1 \in 1..k /\ i + 1 < j + 1 /\ j \in 0..(k - 1)
    BY <1>2
  <2>2. p[i + 1] + worths[j + 1] <= p[j + 1]
    BY <1>1, <2>1 DEF Climbs
  <2> QED
    BY <1>2, <1>3, <2>1, <2>2
<1>5. low + worths[1] <= q[0] /\ q[k - 1] <= high
  <2>1. 0 \in 0..k /\ 1 \in 1..k /\ 0 \in 0..(k - 1) /\ k - 1 \in 0..(k - 1) /\ (k - 1) + 1 = k
    BY <1>2
  <2>2. p[0] + worths[1] <= p[1]
    BY <1>1, <2>1 DEF Climbs
  <2>3. p[0] \in Int /\ p[1] \in Int /\ q[0] = p[1] /\ q[k - 1] = p[k]
    BY <1>2, <1>3, <2>1
  <2> QED
    BY <1>1, <1>2, <2>2, <2>3
<1>6. Backed(rest, low + worths[1], high)
  BY <1>2, <1>3, <1>4, <1>5 DEF Backed
<1> QED
  BY <1>2, <1>6 DEF rest

\* What a frame adds to a window, and how the lists of it follow the wire.
LEMMA ConnWorthFacts ==
  ASSUME NEW wire \in Seq(Frames)
  PROVE  /\ ConnWorths(wire) \in Seq(Nat)
         /\ ConnWorths(<<>>) = <<>>
         /\ wire # <<>> => /\ ConnWorths(wire) # <<>>
                           /\ Head(ConnWorths(wire)) = ConnWorth(Head(wire))
                           /\ Tail(ConnWorths(wire)) = ConnWorths(Tail(wire))
         /\ \A frame \in Frames :
              /\ ConnWorth(frame) \in Nat
              /\ ConnWorths(Append(wire, frame)) = Append(ConnWorths(wire), ConnWorth(frame))
PROOF
<1>1. \A frame \in Frames : ConnWorth(frame) \in Nat
  BY DEF Frames, ConnWorth
<1>2. ConnWorths(wire) \in Seq(Nat)
  <2>1. \A i \in 1..Len(wire) : ConnWorth(wire[i]) \in Nat
    BY <1>1
  <2> QED
    BY <2>1 DEF ConnWorths
<1>3. ASSUME wire # <<>>
      PROVE  /\ ConnWorths(wire) # <<>>
             /\ Head(ConnWorths(wire)) = ConnWorth(Head(wire))
             /\ Tail(ConnWorths(wire)) = ConnWorths(Tail(wire))
  BY <1>3 DEF ConnWorths
<1>4. ASSUME NEW frame \in Frames
      PROVE  ConnWorths(Append(wire, frame)) = Append(ConnWorths(wire), ConnWorth(frame))
  BY DEF ConnWorths
<1>5. ConnWorths(<<>>) = <<>>
  BY DEF ConnWorths
<1> QED
  BY <1>1, <1>2, <1>3, <1>4, <1>5

\* The same for the updates of one stream.
LEMMA StreamWorthFacts ==
  ASSUME NEW wire \in Seq(Frames), NEW s
  PROVE  /\ StreamWorths(wire, s) \in Seq(Nat)
         /\ StreamWorths(<<>>, s) = <<>>
         /\ wire # <<>> => /\ StreamWorths(wire, s) # <<>>
                           /\ Head(StreamWorths(wire, s)) = StreamWorth(Head(wire), s)
                           /\ Tail(StreamWorths(wire, s)) = StreamWorths(Tail(wire), s)
         /\ \A frame \in Frames :
              /\ StreamWorth(frame, s) \in Nat
              /\ StreamWorths(Append(wire, frame), s)
                   = Append(StreamWorths(wire, s), StreamWorth(frame, s))
PROOF
<1>1. \A frame \in Frames : StreamWorth(frame, s) \in Nat
  BY DEF Frames, StreamWorth
<1>2. StreamWorths(wire, s) \in Seq(Nat)
  <2>1. \A i \in 1..Len(wire) : StreamWorth(wire[i], s) \in Nat
    BY <1>1
  <2> QED
    BY <2>1 DEF StreamWorths
<1>3. ASSUME wire # <<>>
      PROVE  /\ StreamWorths(wire, s) # <<>>
             /\ Head(StreamWorths(wire, s)) = StreamWorth(Head(wire), s)
             /\ Tail(StreamWorths(wire, s)) = StreamWorths(Tail(wire), s)
  BY <1>3 DEF StreamWorths
<1>4. ASSUME NEW frame \in Frames
      PROVE  StreamWorths(Append(wire, frame), s)
               = Append(StreamWorths(wire, s), StreamWorth(frame, s))
  BY DEF StreamWorths
<1>5. StreamWorths(<<>>, s) = <<>>
  BY DEF StreamWorths
<1> QED
  BY <1>1, <1>2, <1>3, <1>4, <1>5

-----------------------------------------------------------------------------
(***************************************************************************)
(* Every step keeps the credit in flight between the window and its credit. *)
(***************************************************************************)

\* A new connection has nothing in flight and windows that agree.
LEMMA CreditInit == Init => CreditBacked
PROOF
<1> SUFFICES ASSUME Init PROVE CreditBacked
  OBVIOUS
<1>1. <<>> \in Seq(Frames) /\ s2c = <<>>
  BY DEF Init
<1>2. Backed(<<>>, connWindow, srvConn)
  <2>1. connWindow \in Int /\ srvConn = connWindow
    BY UploadAssumption DEF Init
  <2>2. connWindow <= srvConn
    BY <2>1
  <2> QED
    BY <2>1, <2>2, BackedEmpty
<1>3. ASSUME NEW s \in Streams
      PROVE  Backed(<<>>, sendWindow[s], srvWindow[s])
  <2>1. InitialWindows \subseteq Int
    BY UploadAssumption
  <2>2. sendWindow[s] \in Int /\ srvWindow[s] = sendWindow[s]
    BY <2>1 DEF Init
  <2>3. sendWindow[s] <= srvWindow[s]
    BY <2>2
  <2> QED
    BY <2>2, <2>3, BackedEmpty
<1>4. ConnWorths(s2c) = <<>> /\ \A s \in Streams : StreamWorths(s2c, s) = <<>>
  BY <1>1, ConnWorthFacts, StreamWorthFacts
<1> QED
  BY <1>2, <1>3, <1>4 DEF CreditBacked

\* Steps that move no window and no frame.
LEMMA CreditFrame ==
  ASSUME CreditBacked, UNCHANGED <<sendWindow, connWindow, s2c, srvWindow, srvConn>>,
         \A s \in Streams : closed[s] => closed'[s]
  PROVE  CreditBacked'
PROOF
<1>1. Backed(ConnWorths(s2c'), connWindow', srvConn')
  BY DEF CreditBacked
<1>2. \A s \in Streams : ~closed'[s] => Backed(StreamWorths(s2c', s), sendWindow'[s], srvWindow'[s])
  BY DEF CreditBacked
<1> QED
  BY <1>1, <1>2 DEF CreditBacked

\* _sendBody debits the two windows it draws from as the server does.
LEMMA CreditSend ==
  ASSUME UploadInv, CreditBacked, NEW s \in Streams, SendChunk(s), Slice(s) \in Nat
  PROVE  CreditBacked'
PROOF
<1> DEFINE n == Slice(s)
<1>1. /\ sendWindow' = [sendWindow EXCEPT ![s] = @ - n]
      /\ connWindow' = connWindow - n
      /\ srvWindow' = [srvWindow EXCEPT ![s] = @ - n]
      /\ srvConn' = srvConn - n
      /\ s2c' = s2c /\ closed' = closed
  BY DEF SendChunk, streamVars
<1>2. n \in Nat
  OBVIOUS
<1> HIDE DEF n
<1>3. /\ s2c \in Seq(Frames) /\ connWindow \in Int /\ srvConn \in Int
      /\ sendWindow \in [Streams -> Int] /\ srvWindow \in [Streams -> Int]
  BY DEF UploadInv, TypeOK
<1>4. -n \in Int /\ connWindow' = connWindow + (-n) /\ srvConn' = srvConn + (-n)
  BY <1>1, <1>2, <1>3
<1>5. Backed(ConnWorths(s2c'), connWindow', srvConn')
  <2>1. ConnWorths(s2c) \in Seq(Nat)
    BY <1>3, ConnWorthFacts
  <2>2. Backed(ConnWorths(s2c), connWindow, srvConn)
    BY DEF CreditBacked
  <2>3. Backed(ConnWorths(s2c), connWindow + (-n), srvConn + (-n))
    BY <1>3, <1>4, <2>1, <2>2, BackedShift
  <2> QED
    BY <1>1, <1>4, <2>3
<1>6. ASSUME NEW t \in Streams, ~closed'[t]
      PROVE  Backed(StreamWorths(s2c', t), sendWindow'[t], srvWindow'[t])
  <2>1. StreamWorths(s2c, t) \in Seq(Nat)
    BY <1>3, StreamWorthFacts
  <2>2. Backed(StreamWorths(s2c, t), sendWindow[t], srvWindow[t])
    BY <1>1, <1>6 DEF CreditBacked
  <2>3. CASE t = s
    <3>1. sendWindow'[t] = sendWindow[t] + (-n) /\ srvWindow'[t] = srvWindow[t] + (-n)
      BY <1>1, <1>2, <1>3, <2>3
    <3>2. sendWindow[t] \in Int /\ srvWindow[t] \in Int
      BY <1>3
    <3>3. Backed(StreamWorths(s2c, t), sendWindow[t] + (-n), srvWindow[t] + (-n))
      BY <1>4, <2>1, <2>2, <3>2, BackedShift
    <3> QED
      BY <1>1, <3>1, <3>3
  <2>4. CASE t # s
    <3>1. sendWindow'[t] = sendWindow[t] /\ srvWindow'[t] = srvWindow[t]
      BY <1>1, <1>3, <2>4
    <3> QED
      BY <1>1, <2>2, <3>1
  <2> QED
    BY <2>3, <2>4
<1> QED
  BY <1>5, <1>6 DEF CreditBacked

\* A frame is dispatched: an update is added to the window it is for, and new
\* SETTINGS move both ends of every live stream.
LEMMA CreditDispatch ==
  ASSUME UploadInv, CreditBacked, s2c # <<>>, s2c' = Tail(s2c),
         connWindow' = connWindow + ConnWorth(Head(s2c)), srvConn' = srvConn,
         NEW d \in Int,
         \A s \in Streams : ~closed'[s] =>
           /\ ~closed[s]
           /\ sendWindow'[s] = sendWindow[s] + StreamWorth(Head(s2c), s) + d
           /\ srvWindow'[s] = srvWindow[s] + d
  PROVE  CreditBacked'
PROOF
<1>1. /\ s2c \in Seq(Frames) /\ connWindow \in Int /\ srvConn \in Int
      /\ sendWindow \in [Streams -> Int] /\ srvWindow \in [Streams -> Int]
  BY DEF UploadInv, TypeOK
<1>2. Backed(ConnWorths(s2c'), connWindow', srvConn')
  <2>1. /\ ConnWorths(s2c) \in Seq(Nat) /\ ConnWorths(s2c) # <<>>
        /\ Head(ConnWorths(s2c)) = ConnWorth(Head(s2c))
        /\ Tail(ConnWorths(s2c)) = ConnWorths(Tail(s2c))
    BY <1>1, ConnWorthFacts
  <2>2. Backed(ConnWorths(s2c), connWindow, srvConn)
    BY DEF CreditBacked
  <2>3. Backed(Tail(ConnWorths(s2c)), connWindow + Head(ConnWorths(s2c)), srvConn)
    BY <1>1, <2>1, <2>2, BackedTail
  <2> QED
    BY <2>1, <2>3
<1>3. ASSUME NEW s \in Streams, ~closed'[s]
      PROVE  Backed(StreamWorths(s2c', s), sendWindow'[s], srvWindow'[s])
  <2> DEFINE w == StreamWorths(s2c, s)
  <2>1. /\ w \in Seq(Nat) /\ w # <<>>
        /\ Head(w) = StreamWorth(Head(s2c), s)
        /\ Tail(w) = StreamWorths(Tail(s2c), s)
    BY <1>1, StreamWorthFacts
  <2>2. sendWindow[s] \in Int /\ srvWindow[s] \in Int
    BY <1>1
  <2>3. Backed(w, sendWindow[s], srvWindow[s])
    BY <1>3 DEF CreditBacked
  <2> HIDE DEF w
  <2>4. Head(w) \in Nat /\ Tail(w) \in Seq(Nat)
    BY <2>1
  <2>5. sendWindow[s] + Head(w) \in Int
    BY <2>2, <2>4
  <2>6. Backed(Tail(w), sendWindow[s] + Head(w), srvWindow[s])
    BY <2>1, <2>2, <2>3, BackedTail
  <2>7. Backed(Tail(w), sendWindow[s] + Head(w) + d, srvWindow[s] + d)
    BY <2>2, <2>4, <2>5, <2>6, BackedShift
  <2> QED
    BY <1>3, <2>1, <2>7
<1> QED
  BY <1>2, <1>3 DEF CreditBacked

\* The server writes a frame and counts the credit it extends with it.
LEMMA CreditWrite ==
  ASSUME UploadInv, CreditBacked, NEW frame \in Frames, Write(frame),
         UNCHANGED <<sendWindow, connWindow, closed>>,
         srvConn' = srvConn + ConnWorth(frame),
         \A s \in Streams : srvWindow'[s] = srvWindow[s] + StreamWorth(frame, s)
  PROVE  CreditBacked'
PROOF
<1>1. /\ s2c \in Seq(Frames) /\ connWindow \in Int /\ srvConn \in Int
      /\ sendWindow \in [Streams -> Int] /\ srvWindow \in [Streams -> Int]
      /\ s2c' = Append(s2c, frame)
  BY DEF UploadInv, TypeOK, Write
<1>2. Backed(ConnWorths(s2c'), connWindow', srvConn')
  <2>1. /\ ConnWorths(s2c) \in Seq(Nat) /\ ConnWorth(frame) \in Nat
        /\ ConnWorths(Append(s2c, frame)) = Append(ConnWorths(s2c), ConnWorth(frame))
    BY <1>1, ConnWorthFacts
  <2>2. Backed(ConnWorths(s2c), connWindow, srvConn)
    BY DEF CreditBacked
  <2>3. Backed(Append(ConnWorths(s2c), ConnWorth(frame)), connWindow, srvConn + ConnWorth(frame))
    BY <1>1, <2>1, <2>2, BackedAppend
  <2> QED
    BY <1>1, <2>1, <2>3
<1>3. ASSUME NEW s \in Streams, ~closed'[s]
      PROVE  Backed(StreamWorths(s2c', s), sendWindow'[s], srvWindow'[s])
  <2>1. /\ StreamWorths(s2c, s) \in Seq(Nat) /\ StreamWorth(frame, s) \in Nat
        /\ StreamWorths(Append(s2c, frame), s) = Append(StreamWorths(s2c, s), StreamWorth(frame, s))
    BY <1>1, StreamWorthFacts
  <2>2. Backed(StreamWorths(s2c, s), sendWindow[s], srvWindow[s])
    BY <1>3 DEF CreditBacked
  <2>3. sendWindow[s] \in Int /\ srvWindow[s] \in Int
    BY <1>1
  <2>4. Backed(Append(StreamWorths(s2c, s), StreamWorth(frame, s)), sendWindow[s],
               srvWindow[s] + StreamWorth(frame, s))
    BY <2>1, <2>2, <2>3, BackedAppend
  <2> QED
    BY <1>1, <2>1, <2>4
<1> QED
  BY <1>2, <1>3 DEF CreditBacked

\* The chunk is within both windows: a slice is at most the room, and the room
\* is the smaller of the two.
LEMMA SliceFacts ==
  ASSUME UploadInv, NEW s \in Streams, SendChunk(s)
  PROVE  Slice(s) \in Nat /\ Slice(s) <= sendWindow[s] /\ Slice(s) <= connWindow
PROOF
<1>1. sendWindow[s] \in Int /\ connWindow \in Int /\ left[s] \in Nat /\ MaxFrame \in Nat
  BY UploadAssumption DEF UploadInv, TypeOK
<1>2. Room(s) \in Int /\ Room(s) <= sendWindow[s] /\ Room(s) <= connWindow
  BY <1>1, MinOfTwo DEF Room
<1>3. Room(s) > 0
  BY DEF SendChunk
<1>4. Slice(s) \in {Room(s), MaxFrame, left[s]} /\ Slice(s) <= Room(s)
  <2>1. left[s] \in Int /\ MaxFrame \in Int
    BY <1>1
  <2> QED
    BY <1>2, <2>1, MinOfThree, Zenon DEF Slice
<1>5. Slice(s) \in Nat
  BY <1>1, <1>2, <1>3, <1>4
<1> QED
  BY <1>1, <1>2, <1>4, <1>5

\* The stretches of _sendBody and an abandoned request.
LEMMA CreditCaller ==
  ASSUME UploadInv, CreditBacked, NEW s \in Streams, SendBody(s) \/ Abandon(s)
  PROVE  CreditBacked'
PROOF
<1>1. CASE SendChunk(s)
  BY <1>1, SliceFacts, CreditSend
<1>2. CASE StopUpload(s) \/ AwaitSendWindow(s)
  BY <1>2, CreditFrame DEF StopUpload, AwaitSendWindow, windowVars, streamVars, serverVars
<1>3. CASE ChunkWritten(s)
  <2>1. UNCHANGED <<sendWindow, connWindow, s2c, srvWindow, srvConn>>
    BY <1>3 DEF ChunkWritten, windowVars, serverVars
  <2>2. \A t \in Streams : closed[t] => closed'[t]
    <3>1. CASE left[s] = 0
      <4>1. closed' = [closed EXCEPT ![s] = @ \/ ClosesAfterUpload(s)]
        BY <1>3, <3>1 DEF ChunkWritten
      <4> QED
        BY <4>1 DEF UploadInv, TypeOK
    <3>2. CASE left[s] # 0
      BY <1>3, <3>2 DEF ChunkWritten
    <3> QED
      BY <3>1, <3>2
  <2> QED
    BY <2>1, <2>2, CreditFrame
<1>4. CASE Abandon(s)
  <2>1. UNCHANGED <<sendWindow, connWindow, s2c, srvWindow, srvConn>>
    BY <1>4 DEF Abandon, windowVars, serverVars
  <2>2. \A t \in Streams : closed[t] => closed'[t]
    BY <1>4 DEF Abandon, CloseStream, UploadInv, TypeOK
  <2> QED
    BY <2>1, <2>2, CreditFrame
<1> QED
  BY <1>1, <1>2, <1>3, <1>4 DEF SendBody

\* A WINDOW_UPDATE of a stream: _onWindowUpdate adds its increment to the window
\* of that stream, unless the stream has left the map.
LEMMA CreditStreamUpdate ==
  ASSUME UploadInv, CreditBacked, OnStreamWindowUpdate
  PROVE  CreditBacked'
PROOF
<1>1. PICK s : s = Head(s2c).stream
  OBVIOUS
<1>2. PICK grown : grown = sendWindow[s] + Head(s2c).inc
  OBVIOUS
<1>3. /\ s \in Streams /\ Head(s2c).inc \in Nat /\ Head(s2c).type = "window"
      /\ s2c # <<>> /\ s2c' = Tail(s2c)
  BY <1>1, FrameFacts DEF OnStreamWindowUpdate, UploadInv, Receives
<1>4. sendWindow \in [Streams -> Int] /\ srvWindow \in [Streams -> Int] /\ connWindow \in Int
  BY DEF UploadInv, TypeOK
<1>5. ConnWorth(Head(s2c)) = 0
  BY <1>3 DEF ConnWorth
<1>6. \A t \in Streams : StreamWorth(Head(s2c), t) = IF t = s THEN Head(s2c).inc ELSE 0
  BY <1>1, <1>3 DEF StreamWorth
<1>7. srvConn' = srvConn /\ srvWindow' = srvWindow /\ connWindow' = connWindow
  BY DEF OnStreamWindowUpdate, windowVars, serverVars
<1>8. ASSUME NEW t \in Streams, ~closed'[t]
      PROVE  /\ ~closed[t]
             /\ sendWindow'[t] = sendWindow[t] + StreamWorth(Head(s2c), t) + 0
             /\ srvWindow'[t] = srvWindow[t] + 0
  <2>1. CASE closed[s] /\ UNCHANGED <<windowVars, streamVars>>
    <3>1. ~closed[t] /\ sendWindow'[t] = sendWindow[t]
      BY <1>8, <2>1 DEF windowVars, streamVars
    <3>2. t # s
      BY <2>1, <3>1
    <3> QED
      BY <1>4, <1>6, <1>7, <3>1, <3>2
  <2>2. CASE ~closed[s] /\ sendWindow' = [sendWindow EXCEPT ![s] = grown]
               /\ \E over \in BOOLEAN : closed' = [closed EXCEPT ![s] = over]
    <3>1. ~closed[t]
      BY <1>8, <2>2 DEF UploadInv, TypeOK
    <3>2. sendWindow'[t] = IF t = s THEN grown ELSE sendWindow[t]
      BY <1>4, <2>2
    <3> QED
      BY <1>2, <1>3, <1>4, <1>6, <1>7, <3>1, <3>2
  <2>3. \/ closed[s] /\ UNCHANGED <<windowVars, streamVars>>
        \/ ~closed[s] /\ sendWindow' = [sendWindow EXCEPT ![s] = grown]
             /\ closed' = [closed EXCEPT ![s] = grown > MaxWindow]
    BY <1>1, <1>2 DEF OnStreamWindowUpdate
  <2>4. (grown > MaxWindow) \in BOOLEAN
    OBVIOUS
  <2> QED
    BY <2>1, <2>2, <2>3, <2>4
<1>9. connWindow' = connWindow + ConnWorth(Head(s2c))
  BY <1>4, <1>5, <1>7
<1> QED
  BY <1>3, <1>7, <1>8, <1>9, 0 \in Int, CreditDispatch

\* A WINDOW_UPDATE of the connection; when it overflows, what was in flight is
\* lost with the connection, and the window is still within its credit.
LEMMA CreditConnUpdate ==
  ASSUME UploadInv, CreditBacked, OnConnWindowUpdate
  PROVE  CreditBacked'
PROOF
<1>1. /\ Head(s2c).inc \in Nat /\ Head(s2c).type = "connWindow" /\ s2c # <<>>
      /\ s2c \in Seq(Frames) /\ Tail(s2c) \in Seq(Frames)
  BY FrameFacts DEF OnConnWindowUpdate, UploadInv, Receives
<1>2. /\ connWindow' = connWindow + Head(s2c).inc
      /\ sendWindow' = sendWindow /\ srvWindow' = srvWindow /\ srvConn' = srvConn
      /\ IF connWindow' > MaxWindow
         THEN closed' = [s \in Streams |-> TRUE] /\ s2c' = <<>>
         ELSE UNCHANGED closed /\ s2c' = Tail(s2c)
  BY DEF OnConnWindowUpdate, serverVars
<1>3. /\ sendWindow \in [Streams -> Int] /\ srvWindow \in [Streams -> Int]
      /\ connWindow \in Int /\ srvConn \in Int
  BY DEF UploadInv, TypeOK
<1>4. ConnWorth(Head(s2c)) = Head(s2c).inc
  BY <1>1 DEF ConnWorth
<1>5. CASE closed' = closed /\ s2c' = Tail(s2c)
  <2>1. \A s \in Streams : StreamWorth(Head(s2c), s) = 0
    BY <1>1 DEF StreamWorth
  <2>2. \A s \in Streams : ~closed'[s] =>
          /\ ~closed[s]
          /\ sendWindow'[s] = sendWindow[s] + StreamWorth(Head(s2c), s) + 0
          /\ srvWindow'[s] = srvWindow[s] + 0
    BY <1>2, <1>3, <1>5, <2>1
  <2> QED
    BY <1>1, <1>2, <1>4, <1>5, <2>2, 0 \in Int, CreditDispatch
<1>6. CASE closed' = [s \in Streams |-> TRUE] /\ s2c' = <<>>
  <2>1. /\ ConnWorths(s2c) \in Seq(Nat) /\ ConnWorths(s2c) # <<>>
        /\ Head(ConnWorths(s2c)) = Head(s2c).inc
    BY <1>1, <1>4, ConnWorthFacts
  <2>2. Backed(ConnWorths(s2c), connWindow, srvConn)
    BY DEF CreditBacked
  <2>3. Backed(Tail(ConnWorths(s2c)), connWindow', srvConn)
    BY <1>2, <1>3, <2>1, <2>2, BackedTail
  <2>4. Tail(ConnWorths(s2c)) \in Seq(Nat) /\ connWindow' \in Int
    BY <1>1, <1>2, <1>3, <2>1
  <2>5. connWindow' <= srvConn
    BY <1>3, <2>3, <2>4, BackedBound
  <2>6. Backed(<<>>, connWindow', srvConn')
    BY <1>2, <1>3, <2>4, <2>5, BackedEmpty
  <2>7. ConnWorths(s2c') = <<>>
    BY <1>6, ConnWorthFacts, <<>> \in Seq(Frames)
  <2>8. \A s \in Streams : closed'[s]
    BY <1>6
  <2> QED
    BY <2>6, <2>7, <2>8 DEF CreditBacked
<1> QED
  BY <1>2, <1>5, <1>6

\* New SETTINGS move the window of every live stream by the difference, and the
\* server's credit with it.
LEMMA CreditInitialWindow ==
  ASSUME UploadInv, CreditBacked, OnInitialWindow
  PROVE  CreditBacked'
PROOF
<1>1. PICK d : d = Head(s2c).value - peerInitial
  OBVIOUS
<1>2. /\ Head(s2c).type = "settings" /\ s2c # <<>> /\ s2c' = Tail(s2c)
      /\ Head(s2c).value \in InitialWindows
  BY FrameFacts DEF OnInitialWindow, UploadInv, Receives
<1>3. d \in Int
  <2>1. InitialWindows \subseteq Int /\ peerInitial \in InitialWindows
    BY UploadAssumption DEF UploadInv, TypeOK
  <2>2. Head(s2c).value \in Int /\ peerInitial \in Int
    BY <1>2, <2>1
  <2> QED
    BY <1>1, <2>2
<1>4. /\ sendWindow' = [s \in Streams |-> IF closed[s] THEN sendWindow[s] ELSE sendWindow[s] + d]
      /\ srvWindow' = [s \in Streams |-> IF closed[s] THEN srvWindow[s] ELSE srvWindow[s] + d]
      /\ connWindow' = connWindow /\ srvConn' = srvConn /\ closed' = closed
  BY <1>1 DEF OnInitialWindow, streamVars
<1>5. ConnWorth(Head(s2c)) = 0 /\ \A s \in Streams : StreamWorth(Head(s2c), s) = 0
  BY <1>2 DEF ConnWorth, StreamWorth
<1>6. sendWindow \in [Streams -> Int] /\ srvWindow \in [Streams -> Int] /\ connWindow \in Int
  BY DEF UploadInv, TypeOK
<1>7. \A s \in Streams : ~closed'[s] =>
        /\ ~closed[s]
        /\ sendWindow'[s] = sendWindow[s] + StreamWorth(Head(s2c), s) + d
        /\ srvWindow'[s] = srvWindow[s] + d
  BY <1>3, <1>4, <1>5, <1>6
<1>8. connWindow' = connWindow + ConnWorth(Head(s2c))
  BY <1>4, <1>5, <1>6
<1> QED
  BY <1>2, <1>3, <1>4, <1>7, <1>8, CreditDispatch

\* Frames that carry no credit.
LEMMA CreditEnding ==
  ASSUME UploadInv, CreditBacked, OnResponseEnd \/ OnRst
  PROVE  CreditBacked'
PROOF
<1>1. s2c # <<>> /\ s2c' = Tail(s2c) /\ Head(s2c).type \in {"end", "rst"}
  BY DEF OnResponseEnd, OnRst, Receives
<1>2. /\ sendWindow' = sendWindow /\ srvWindow' = srvWindow
      /\ connWindow' = connWindow /\ srvConn' = srvConn
  BY DEF OnResponseEnd, OnRst, windowVars, serverVars
<1>3. \A s \in Streams : ~closed'[s] => ~closed[s]
  BY DEF OnResponseEnd, OnRst, CloseStream, UploadInv, TypeOK
<1>4. ConnWorth(Head(s2c)) = 0 /\ \A s \in Streams : StreamWorth(Head(s2c), s) = 0
  BY <1>1 DEF ConnWorth, StreamWorth
<1>5. sendWindow \in [Streams -> Int] /\ srvWindow \in [Streams -> Int] /\ connWindow \in Int
  BY DEF UploadInv, TypeOK
<1>6. \A s \in Streams : ~closed'[s] =>
        /\ ~closed[s]
        /\ sendWindow'[s] = sendWindow[s] + StreamWorth(Head(s2c), s) + 0
        /\ srvWindow'[s] = srvWindow[s] + 0
  BY <1>2, <1>3, <1>4, <1>5
<1>7. connWindow' = connWindow + ConnWorth(Head(s2c))
  BY <1>2, <1>4, <1>5
<1> QED
  BY <1>1, <1>2, <1>6, <1>7, 0 \in Int, CreditDispatch

\* What the server writes: an update is counted where it is for.
LEMMA CreditServer ==
  ASSUME UploadInv, CreditBacked,
         \/ \E s \in Streams : SrvGrantStream(s) \/ SrvEnd(s) \/ SrvRst(s)
         \/ SrvGrantConn \/ SrvSettings
  PROVE  CreditBacked'
PROOF
<1>1. MaxGrant \in Nat /\ srvWindow \in [Streams -> Int] /\ srvConn \in Int
  BY UploadAssumption DEF UploadInv, TypeOK
<1>2. ASSUME NEW s \in Streams, SrvGrantStream(s)
      PROVE  CreditBacked'
  <2>1. PICK n \in 1..MaxGrant :
          /\ Write([type |-> "window", stream |-> s, inc |-> n])
          /\ srvWindow' = [srvWindow EXCEPT ![s] = @ + n]
          /\ UNCHANGED <<windowVars, streamVars, srvConn>>
    BY <1>2 DEF SrvGrantStream
  <2>2. PICK frame : frame = [type |-> "window", stream |-> s, inc |-> n]
    OBVIOUS
  <2>3. frame \in Frames
    BY <1>1, <2>2 DEF Frames
  <2>4. ConnWorth(frame) = 0 /\ \A t \in Streams : StreamWorth(frame, t) = IF t = s THEN n ELSE 0
    BY <2>2 DEF ConnWorth, StreamWorth
  <2>5. \A t \in Streams : srvWindow'[t] = srvWindow[t] + StreamWorth(frame, t)
    BY <1>1, <2>1, <2>4
  <2>6. srvConn' = srvConn + ConnWorth(frame)
    BY <1>1, <2>1, <2>4
  <2> QED
    BY <2>1, <2>2, <2>3, <2>5, <2>6, CreditWrite DEF windowVars, streamVars
<1>3. CASE SrvGrantConn
  <2>1. PICK n \in 1..MaxGrant :
          /\ Write([type |-> "connWindow", inc |-> n])
          /\ srvConn' = srvConn + n
          /\ UNCHANGED <<windowVars, streamVars, srvWindow>>
    BY <1>3 DEF SrvGrantConn
  <2>2. PICK frame : frame = [type |-> "connWindow", inc |-> n]
    OBVIOUS
  <2>3. frame \in Frames
    BY <1>1, <2>2 DEF Frames
  <2>4. ConnWorth(frame) = n /\ \A t \in Streams : StreamWorth(frame, t) = 0
    BY <2>2 DEF ConnWorth, StreamWorth
  <2>5. \A t \in Streams : srvWindow'[t] = srvWindow[t] + StreamWorth(frame, t)
    BY <1>1, <2>1, <2>4
  <2> QED
    BY <2>1, <2>2, <2>3, <2>4, <2>5, CreditWrite DEF windowVars, streamVars
<1>4. ASSUME NEW frame \in Frames, frame.type \in {"settings", "end", "rst"}, Write(frame),
             UNCHANGED <<windowVars, streamVars, serverVars>>
      PROVE  CreditBacked'
  <2>1. ConnWorth(frame) = 0 /\ \A t \in Streams : StreamWorth(frame, t) = 0
    BY <1>4 DEF ConnWorth, StreamWorth
  <2>2. \A t \in Streams : srvWindow'[t] = srvWindow[t] + StreamWorth(frame, t)
    BY <1>1, <1>4, <2>1 DEF serverVars
  <2>3. srvConn' = srvConn + ConnWorth(frame)
    BY <1>1, <1>4, <2>1 DEF serverVars
  <2> QED
    BY <1>4, <2>2, <2>3, CreditWrite DEF windowVars, streamVars
<1>5. CASE SrvSettings
  <2>1. PICK value \in InitialWindows :
          /\ Write([type |-> "settings", value |-> value])
          /\ UNCHANGED <<windowVars, streamVars, serverVars>>
    BY <1>5 DEF SrvSettings
  <2>2. [type |-> "settings", value |-> value] \in Frames
    BY DEF Frames
  <2> QED
    BY <1>4, <2>1, <2>2
<1>6. ASSUME NEW s \in Streams, SrvEnd(s) \/ SrvRst(s)
      PROVE  CreditBacked'
  <2>1. PICK type \in {"end", "rst"} :
          /\ Write([type |-> type, stream |-> s])
          /\ UNCHANGED <<windowVars, streamVars, serverVars>>
    BY <1>6 DEF SrvEnd, SrvRst
  <2>2. [type |-> type, stream |-> s] \in Frames
    BY DEF Frames
  <2> QED
    BY <1>4, <2>1, <2>2
<1> QED
  BY <1>2, <1>3, <1>5, <1>6

\* No step of the uploads spends credit that is not there.
LEMMA CreditNext ==
  ASSUME UploadInv, CreditBacked, [Next]_vars
  PROVE  CreditBacked'
PROOF
<1>1. CASE UNCHANGED vars
  BY <1>1, CreditFrame DEF vars, windowVars, streamVars, serverVars
<1>2. CASE \E s \in Streams : SendBody(s) \/ Abandon(s)
  BY <1>2, CreditCaller
<1>3. CASE OnFrame
  BY <1>3, CreditStreamUpdate, CreditConnUpdate, CreditInitialWindow, CreditEnding DEF OnFrame
<1>4. CASE \/ \E s \in Streams : SrvGrantStream(s) \/ SrvEnd(s) \/ SrvRst(s)
           \/ SrvGrantConn \/ SrvSettings
  BY <1>4, CreditServer
<1> QED
  BY <1>1, <1>2, <1>3, <1>4 DEF Next

\* The credit is backed in every reachable state.
LEMMA CreditHolds == Spec => []CreditBacked
PROOF
<1>1. UploadInv /\ UploadInv' /\ CreditBacked /\ [Next]_vars => CreditBacked'
  BY CreditNext
<1> QED
  BY <1>1, CreditInit, UploadInvHolds, PTL DEF Spec

-----------------------------------------------------------------------------
(***************************************************************************)
(* The results.                                                            *)
(***************************************************************************)

\* Every variable of the send side keeps its type, whatever the server sends.
THEOREM UploadTypeOK == Spec => []TypeOK
PROOF
<1>1. UploadInv => TypeOK
  BY DEF UploadInv
<1> QED
  BY <1>1, UploadInvHolds, PTL

\* No lost wake-up in _awaitSendWindow: an upload that sleeps has a waiter that
\* some later WINDOW_UPDATE, SETTINGS or teardown resolves, its stream is live,
\* and one of its two windows really is exhausted.
THEOREM UploadNoSleepWithRoom == Spec => []NoSleepWithRoom
PROOF
<1>1. UploadInv => NoSleepWithRoom
  BY RoomIsSmaller DEF UploadInv, SleepersParked, NoSleepWithRoom
<1> QED
  BY <1>1, UploadInvHolds, PTL

\* _maybeCloseStream is reached whichever half ends last, so a stream whose
\* request and response are both over has left the map.
THEOREM UploadBothHalvesClose == Spec => []BothHalvesClose
PROOF
<1>1. UploadInv => BothHalvesClose
  BY DEF UploadInv
<1> QED
  BY <1>1, UploadInvHolds, PTL

\* _sendBody debits both windows before it writes and sends no more than the
\* smaller one, and neither window ever runs ahead of the server's credit: no
\* DATA beyond it, however the server's updates are delayed.
THEOREM UploadWithinCredit == Spec => WithinCredit
PROOF
<1>1. ASSUME UploadInv, CreditBacked, NEW s \in Streams, SendChunk(s)
      PROVE  /\ srvConn' >= 0
             /\ \A t \in Streams : left'[t] < left[t] => srvWindow'[t] >= 0
  <2>1. Slice(s) \in Nat /\ Slice(s) <= sendWindow[s] /\ Slice(s) <= connWindow
    BY <1>1, SliceFacts
  <2>2. /\ s2c \in Seq(Frames) /\ connWindow \in Int /\ srvConn \in Int
        /\ sendWindow \in [Streams -> Int] /\ srvWindow \in [Streams -> Int]
        /\ left \in [Streams -> 0..BodyLength] /\ BodyLength \in Nat
    BY <1>1, UploadAssumption DEF UploadInv, TypeOK
  <2>3. connWindow <= srvConn
    BY <1>1, <2>2, ConnWorthFacts, BackedBound DEF CreditBacked
  <2>4. sendWindow[s] <= srvWindow[s]
    <3>1. Backed(StreamWorths(s2c, s), sendWindow[s], srvWindow[s])
      BY <1>1 DEF CreditBacked, SendChunk, Sends
    <3>2. sendWindow[s] \in Int /\ srvWindow[s] \in Int
      BY <2>2
    <3> QED
      BY <2>2, <3>1, <3>2, StreamWorthFacts, BackedBound
  <2>5. /\ srvConn' = srvConn - Slice(s)
        /\ srvWindow' = [srvWindow EXCEPT ![s] = @ - Slice(s)]
        /\ left' = [left EXCEPT ![s] = @ - Slice(s)]
    BY <1>1 DEF SendChunk
  <2>6. srvConn' >= 0
    BY <2>1, <2>2, <2>3, <2>5
  <2>7. srvWindow'[s] >= 0
    BY <2>1, <2>2, <2>4, <2>5
  <2>8. ASSUME NEW t \in Streams, left'[t] < left[t]
        PROVE  t = s
    <3>1. CASE t # s
      <4>1. left'[t] = left[t] /\ left[t] \in Int
        BY <2>2, <2>5, <3>1
      <4> QED
        BY <2>8, <4>1
    <3> QED
      BY <3>1
  <2> QED
    BY <2>6, <2>7, <2>8
<1>2. ASSUME UploadInv, [Next]_vars, ~\E s \in Streams : SendChunk(s)
      PROVE  left' = left /\ \E n \in Nat : srvConn' = srvConn + n
  <2>1. left' = left
    BY <1>2 DEF Next, vars, SendBody, StopUpload, AwaitSendWindow, ChunkWritten, Abandon,
                OnFrame, OnStreamWindowUpdate, OnConnWindowUpdate, OnInitialWindow,
                OnResponseEnd, OnRst, SrvGrantStream, SrvGrantConn, SrvSettings, SrvEnd, SrvRst
  <2>2. srvConn \in Int /\ MaxGrant \in Nat
    BY <1>2, UploadAssumption DEF UploadInv, TypeOK
  <2>3. CASE SrvGrantConn
    <3>1. PICK n \in 1..MaxGrant : srvConn' = srvConn + n
      BY <2>3 DEF SrvGrantConn
    <3> QED
      BY <2>1, <2>2, <3>1
  <2>4. CASE ~SrvGrantConn
    <3>1. srvConn' = srvConn
      BY <1>2, <2>4 DEF Next, vars, serverVars, SendBody, StopUpload, AwaitSendWindow,
                ChunkWritten, Abandon, OnFrame, OnStreamWindowUpdate, OnConnWindowUpdate,
                OnInitialWindow, OnResponseEnd, OnRst, SrvGrantStream, SrvSettings, SrvEnd, SrvRst
    <3> QED
      BY <2>1, <2>2, <3>1
  <2> QED
    BY <2>3, <2>4
<1>3. UploadInv /\ CreditBacked /\ [Next]_vars
        => [/\ srvConn' < srvConn => srvConn' >= 0
            /\ \A s \in Streams : left'[s] < left[s] => srvWindow'[s] >= 0]_vars
  <2> SUFFICES ASSUME UploadInv, CreditBacked, [Next]_vars
               PROVE  /\ srvConn' < srvConn => srvConn' >= 0
                      /\ \A s \in Streams : left'[s] < left[s] => srvWindow'[s] >= 0
    OBVIOUS
  <2>1. CASE \E s \in Streams : SendChunk(s)
    BY <1>1, <2>1
  <2>2. CASE ~\E s \in Streams : SendChunk(s)
    <3>1. srvConn \in Int /\ \A s \in Streams : left[s] \in Int
      BY UploadAssumption DEF UploadInv, TypeOK
    <3>2. left' = left /\ \E n \in Nat : srvConn' = srvConn + n
      BY <1>2, <2>2
    <3>3. ~(srvConn' < srvConn)
      BY <3>1, <3>2
    <3> QED
      BY <3>1, <3>2, <3>3
  <2> QED
    BY <2>1, <2>2
<1> QED
  BY <1>3, CreditHolds, UploadInvHolds, PTL DEF Spec, WithinCredit
=============================================================================
