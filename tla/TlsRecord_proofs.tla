-------------------------- MODULE TlsRecord_proofs --------------------------
(***************************************************************************)
(* Proofs about TlsRecord, for every limit, any number of calls of close() *)
(* and abort(), and however the peer and the transport behave.             *)
(***************************************************************************)
EXTENDS TlsRecord, SequenceTheorems, FiniteSetTheorems, TLAPS

Numbers == [epoch : Nat, seq : Nat]
Words == {"data", "keyUpdate", "alert"}
Tasks == [records : Seq(Words), after : {"nothing", "rotate", "fin"}, tries : BOOLEAN,
          by : Callers \union {"nobody"}]
Written == [epoch : Nat, seq : Nat, kind : Words]
Records == [epoch : Nat, seq : Nat, kind : Kinds, corrupted : BOOLEAN, value : Nat]
Peers == [epoch : Nat, seq : Nat, state : {"open", "notified", "gone"},
          corrupted : BOOLEAN, sent : Nat]

(***************************************************************************)
(* The read side.  What is in flight is a chain: its first record is       *)
(* numbered as the receive keys expect and carries the datum that follows  *)
(* those given to the reader, each record leads to the next, and the last  *)
(* one leads to the peer's keys and to the datum it would send next.       *)
(***************************************************************************)
Rotating(r) == r.kind \in {"keyUpdate", "keyUpdateRequested", "coalescedUpdate"}
EpochAfter(r) == IF Rotating(r) THEN r.epoch + 1 ELSE r.epoch
SeqAfter(r) == IF Rotating(r) THEN 0 ELSE r.seq + 1
ValueAfter(r) == IF r.kind = "data" THEN r.value + 1 ELSE r.value
At(r, e, s, v) == r.epoch = e /\ r.seq = s /\ r.value = v

Chain(q, e, s, v) ==
  /\ q # <<>> => At(q[1], e, s, v)
  /\ \A i \in 1..(Len(q) - 1) : At(q[i + 1], EpochAfter(q[i]), SeqAfter(q[i]), ValueAfter(q[i]))
Leads(q, e, s, v, f, t, w) ==
  IF q = <<>> THEN e = f /\ s = t /\ v = w
  ELSE /\ EpochAfter(q[Len(q)]) = f
       /\ SeqAfter(q[Len(q)]) = t
       /\ ValueAfter(q[Len(q)]) = w

\* A record in flight: what its peer has said about it.
Honest(r) ==
  /\ r.seq < MaxSeq
  /\ r.corrupted => peer.corrupted
  /\ r.kind = "data" => r.value <= Len(sent)
  /\ r.kind = "closeNotify" => r.value = Len(sent) + 1 /\ peer.state # "open"
Counted(s) == \A i \in 1..Len(s) : s[i] = i

RTypeOK ==
  /\ recv \in Numbers /\ peer \in Peers /\ inbox \in Seq(Records)
  /\ got \in Seq(Nat) /\ sent \in Seq(Nat)
InFlight ==
  ended = "no" =>
    /\ Chain(inbox, recv.epoch, recv.seq, Len(got) + 1)
    /\ peer.state # "gone" =>
         Leads(inbox, recv.epoch, recv.seq, Len(got) + 1, peer.epoch, peer.seq, Len(sent) + 1)
Ended ==
  /\ reading => ended = "no"
  /\ ended = "clean" => got = sent /\ peer.state # "open"
  /\ fatal = "mac" => peer.corrupted
RInv ==
  /\ RTypeOK
  /\ Counted(sent) /\ Counted(got) /\ Len(got) <= Len(sent)
  /\ \A i \in 1..Len(inbox) : Honest(inbox[i])
  /\ InFlight
  /\ Ended

-----------------------------------------------------------------------------
(***************************************************************************)
(* Chains.                                                                 *)
(***************************************************************************)
\* A record is numbered with naturals, and what follows it too.
LEMMA AfterTyped ==
  ASSUME NEW r \in Records
  PROVE  EpochAfter(r) \in Nat /\ SeqAfter(r) \in Nat /\ ValueAfter(r) \in Nat
PROOF
BY DEF Records, EpochAfter, SeqAfter, ValueAfter

\* The tail of a chain is the chain that starts after its head
\* (what the read loop leaves in the transport).
LEMMA TailChain ==
  ASSUME NEW q \in Seq(Records), q # <<>>, NEW e, NEW s, NEW v, Chain(q, e, s, v)
  PROVE  /\ At(q[1], e, s, v)
         /\ Chain(Tail(q), EpochAfter(q[1]), SeqAfter(q[1]), ValueAfter(q[1]))
         /\ \A f, t, w : Leads(q, e, s, v, f, t, w) =>
              Leads(Tail(q), EpochAfter(q[1]), SeqAfter(q[1]), ValueAfter(q[1]), f, t, w)
PROOF
<1> DEFINE p == Tail(q)
<1>1. /\ Len(q) \in Nat /\ Len(q) > 0
      /\ p \in Seq(Records) /\ Len(p) = Len(q) - 1
      /\ \A i \in 1..Len(p) : p[i] = q[i + 1]
  BY HeadTailProperties, LenProperties, EmptySeq
<1> HIDE DEF p
<1>2. p = <<>> <=> Len(p) = 0
  BY <1>1, EmptySeq
<1>3. \A i \in 1..(Len(q) - 1) : At(q[i + 1], EpochAfter(q[i]), SeqAfter(q[i]), ValueAfter(q[i]))
  BY DEF Chain
<1>4. p # <<>> => At(p[1], EpochAfter(q[1]), SeqAfter(q[1]), ValueAfter(q[1]))
  <2> SUFFICES ASSUME p # <<>>
               PROVE  At(p[1], EpochAfter(q[1]), SeqAfter(q[1]), ValueAfter(q[1]))
    OBVIOUS
  <2>1. 1 \in 1..Len(p) /\ 1 \in 1..(Len(q) - 1)
    BY <1>1, <1>2
  <2>2. p[1] = q[1 + 1]
    BY <1>1, <2>1
  <2> QED
    BY <1>3, <2>1, <2>2
<1>5. \A i \in 1..(Len(p) - 1) : At(p[i + 1], EpochAfter(p[i]), SeqAfter(p[i]), ValueAfter(p[i]))
  <2> SUFFICES ASSUME NEW i \in 1..(Len(p) - 1)
               PROVE  At(p[i + 1], EpochAfter(p[i]), SeqAfter(p[i]), ValueAfter(p[i]))
    OBVIOUS
  <2>1. i \in 1..Len(p) /\ i + 1 \in 1..Len(p) /\ i + 1 \in 1..(Len(q) - 1)
    BY <1>1
  <2>2. p[i] = q[i + 1] /\ p[i + 1] = q[i + 1 + 1]
    BY <1>1, <2>1
  <2> QED
    BY <1>3, <2>1, <2>2
<1>6. ASSUME NEW f, NEW t, NEW w, Leads(q, e, s, v, f, t, w)
      PROVE  Leads(p, EpochAfter(q[1]), SeqAfter(q[1]), ValueAfter(q[1]), f, t, w)
  <2>1. /\ EpochAfter(q[Len(q)]) = f
        /\ SeqAfter(q[Len(q)]) = t
        /\ ValueAfter(q[Len(q)]) = w
    BY <1>6 DEF Leads
  <2>2. CASE p = <<>>
    <3>1. Len(q) = 1
      BY <1>1, <1>2, <2>2
    <3> QED
      BY <2>1, <2>2, <3>1 DEF Leads
  <2>3. CASE p # <<>>
    <3>1. Len(p) \in 1..Len(p) /\ Len(p) + 1 = Len(q)
      BY <1>1, <1>2, <2>3
    <3>2. p[Len(p)] = q[Len(q)]
      BY <1>1, <3>1
    <3> QED
      BY <2>1, <2>3, <3>2 DEF Leads
  <2> QED
    BY <2>2, <2>3
<1>7. At(q[1], e, s, v)
  BY DEF Chain
<1> QED
  BY <1>4, <1>5, <1>6, <1>7 DEF Chain, p

\* The next datum keeps what was given or sent without a gap.
LEMMA CountedAppend ==
  ASSUME NEW s \in Seq(Nat), Counted(s)
  PROVE  /\ Append(s, Len(s) + 1) \in Seq(Nat) /\ Len(Append(s, Len(s) + 1)) = Len(s) + 1
         /\ Counted(Append(s, Len(s) + 1))
PROOF
<1> DEFINE t == Append(s, Len(s) + 1)
<1>1. /\ Len(s) \in Nat /\ t \in Seq(Nat) /\ Len(t) = Len(s) + 1
      /\ \A i \in 1..Len(s) : t[i] = s[i]
      /\ t[Len(s) + 1] = Len(s) + 1
  BY AppendProperties, LenProperties
<1> HIDE DEF t
<1>2. \A i \in 1..Len(t) : i \in 1..Len(s) \/ i = Len(s) + 1
  BY <1>1
<1>3. Counted(t)
  BY <1>1, <1>2 DEF Counted
<1> QED
  BY <1>1, <1>3 DEF t

\* A record that is numbered where a chain leads extends it (what the peer sends).
LEMMA AppendChain ==
  ASSUME NEW q \in Seq(Records), NEW r \in Records, NEW e, NEW s, NEW v,
         NEW f, NEW t, NEW w,
         Chain(q, e, s, v), Leads(q, e, s, v, f, t, w), At(r, f, t, w)
  PROVE  /\ Chain(Append(q, r), e, s, v)
         /\ Leads(Append(q, r), e, s, v, EpochAfter(r), SeqAfter(r), ValueAfter(r))
PROOF
<1> DEFINE p == Append(q, r)
<1>1. /\ Len(q) \in Nat
      /\ p \in Seq(Records) /\ p # <<>> /\ Len(p) = Len(q) + 1
      /\ \A i \in 1..Len(q) : p[i] = q[i]
      /\ p[Len(q) + 1] = r
  BY AppendProperties, LenProperties
<1> HIDE DEF p
<1>2. q = <<>> <=> Len(q) = 0
  BY <1>1, EmptySeq
<1>3. At(p[1], e, s, v)
  <2>1. CASE q = <<>>
    <3>1. p[1] = r
      BY <1>1, <1>2, <2>1
    <3> QED
      BY <2>1, <3>1 DEF Leads, At
  <2>2. CASE q # <<>>
    <3>1. 1 \in 1..Len(q)
      BY <1>1, <1>2, <2>2
    <3>2. p[1] = q[1]
      BY <1>1, <3>1
    <3> QED
      BY <2>2, <3>2 DEF Chain
  <2> QED
    BY <2>1, <2>2
<1>4. ASSUME NEW i \in 1..(Len(p) - 1)
      PROVE  At(p[i + 1], EpochAfter(p[i]), SeqAfter(p[i]), ValueAfter(p[i]))
  <2>1. i \in 1..Len(q) /\ p[i] = q[i]
    BY <1>1
  <2>2. CASE i = Len(q)
    <3>1. p[i + 1] = r
      BY <1>1, <2>2
    <3>2. q # <<>>
      BY <1>2, <2>1, <1>1
    <3> QED
      BY <2>1, <2>2, <3>1, <3>2 DEF Leads, At
  <2>3. CASE i # Len(q)
    <3>1. i \in 1..(Len(q) - 1) /\ i + 1 \in 1..Len(q)
      BY <1>1, <2>1, <2>3
    <3>2. p[i + 1] = q[i + 1]
      BY <1>1, <3>1
    <3> QED
      BY <2>1, <3>1, <3>2 DEF Chain
  <2> QED
    BY <2>2, <2>3
<1>5. p[Len(p)] = r
  BY <1>1
<1> QED
  BY <1>1, <1>3, <1>4, <1>5 DEF Chain, Leads, p

\* What is left of a chain when the transport loses its end is a chain.
LEMMA CutChain ==
  ASSUME NEW q \in Seq(Records), NEW n \in 0..Len(q), NEW e, NEW s, NEW v, Chain(q, e, s, v)
  PROVE  /\ SubSeq(q, 1, n) \in Seq(Records)
         /\ Len(SubSeq(q, 1, n)) = n
         /\ \A i \in 1..n : SubSeq(q, 1, n)[i] = q[i]
         /\ Chain(SubSeq(q, 1, n), e, s, v)
PROOF
<1> DEFINE p == SubSeq(q, 1, n)
<1>1. Len(q) \in Nat /\ \A i \in 1..n : q[i] \in Records
  BY LenProperties
<1>2. /\ p \in Seq(Records) /\ Len(p) = IF 1 <= n THEN n - 1 + 1 ELSE 0
      /\ \A i \in 1..(n - 1 + 1) : p[i] = q[1 + i - 1]
  BY <1>1, SubSeqProperties
<1> HIDE DEF p
<1>3. Len(p) = n /\ \A i \in 1..n : p[i] = q[i]
  BY <1>1, <1>2
<1>4. p # <<>> => At(p[1], e, s, v)
  <2> SUFFICES ASSUME p # <<>> PROVE At(p[1], e, s, v)
    OBVIOUS
  <2>1. 1 \in 1..n
    BY <1>1, <1>2, <1>3, EmptySeq
  <2>2. q # <<>>
    BY <1>1, <2>1, EmptySeq
  <2> QED
    BY <1>3, <2>1, <2>2 DEF Chain
<1>5. ASSUME NEW i \in 1..(n - 1)
      PROVE  At(p[i + 1], EpochAfter(p[i]), SeqAfter(p[i]), ValueAfter(p[i]))
  <2>1. i \in 1..n /\ i + 1 \in 1..n /\ i \in 1..(Len(q) - 1)
    BY <1>1
  <2> QED
    BY <1>3, <2>1 DEF Chain
<1> QED
  BY <1>2, <1>3, <1>4, <1>5 DEF Chain, p

-----------------------------------------------------------------------------
(***************************************************************************)
(* The steps of the read side.                                             *)
(***************************************************************************)
\* What the read loop knows of the record it gets, and of what it leaves in flight.
LEMMA HeadInFlight ==
  ASSUME RInv, reading, inbox # <<>>
  PROVE  /\ Head(inbox) \in Records /\ Honest(Head(inbox))
         /\ At(Head(inbox), recv.epoch, recv.seq, Len(got) + 1)
         /\ Tail(inbox) \in Seq(Records)
         /\ \A i \in 1..Len(Tail(inbox)) : Honest(Tail(inbox)[i])
PROOF
<1>1. inbox \in Seq(Records)
  BY DEF RInv, RTypeOK
<1>2. /\ Len(inbox) \in Nat /\ Len(inbox) > 0
      /\ Head(inbox) = inbox[1]
      /\ Head(inbox) \in Records
      /\ Tail(inbox) \in Seq(Records) /\ Len(Tail(inbox)) = Len(inbox) - 1
      /\ \A i \in 1..Len(Tail(inbox)) : Tail(inbox)[i] = inbox[i + 1]
  BY <1>1, HeadTailProperties, LenProperties, EmptySeq
<1>3. \A i \in 1..Len(inbox) : Honest(inbox[i])
  BY DEF RInv
<1>4. At(inbox[1], recv.epoch, recv.seq, Len(got) + 1)
  BY <1>1, TailChain DEF RInv, Ended, InFlight
<1>5. \A i \in 1..Len(Tail(inbox)) : i + 1 \in 1..Len(inbox)
  BY <1>2
<1>6. 1 \in 1..Len(inbox)
  BY <1>2
<1> QED
  BY <1>2, <1>3, <1>4, <1>5, <1>6

\* Reading a record keeps what is left in flight in order, when the read goes on only
\* with the keys and the data that follow this record.
LEMMA ReadingOn ==
  ASSUME RInv, reading, inbox # <<>>, inbox' = Tail(inbox), UNCHANGED <<peer, sent>>,
         ended' = "no" => At([epoch |-> EpochAfter(Head(inbox)), seq |-> SeqAfter(Head(inbox)),
                              value |-> ValueAfter(Head(inbox))],
                             recv'.epoch, recv'.seq, Len(got') + 1)
  PROVE  InFlight' /\ (\A i \in 1..Len(inbox) : Honest(inbox[i]))'
PROOF
<1>1. (\A i \in 1..Len(inbox) : Honest(inbox[i]))'
  BY HeadInFlight DEF Honest
<1>2. ASSUME ended' = "no"
      PROVE  /\ Chain(inbox', recv'.epoch, recv'.seq, Len(got') + 1)
             /\ peer'.state # "gone" =>
                  Leads(inbox', recv'.epoch, recv'.seq, Len(got') + 1,
                        peer'.epoch, peer'.seq, Len(sent') + 1)
  <2>1. /\ inbox \in Seq(Records)
        /\ Chain(inbox, recv.epoch, recv.seq, Len(got) + 1)
        /\ peer.state # "gone" => Leads(inbox, recv.epoch, recv.seq, Len(got) + 1,
                                        peer.epoch, peer.seq, Len(sent) + 1)
    BY DEF RInv, RTypeOK, Ended, InFlight
  <2>2. /\ recv'.epoch = EpochAfter(inbox[1])
        /\ recv'.seq = SeqAfter(inbox[1])
        /\ Len(got') + 1 = ValueAfter(inbox[1])
    <3>1. Head(inbox) = inbox[1]
      BY <2>1
    <3> QED
      BY <1>2, <3>1 DEF At
  <2>3. /\ Chain(Tail(inbox), EpochAfter(inbox[1]), SeqAfter(inbox[1]), ValueAfter(inbox[1]))
        /\ \A f, t, w : Leads(inbox, recv.epoch, recv.seq, Len(got) + 1, f, t, w) =>
             Leads(Tail(inbox), EpochAfter(inbox[1]), SeqAfter(inbox[1]), ValueAfter(inbox[1]),
                   f, t, w)
    BY <2>1, TailChain
  <2> QED
    BY <2>1, <2>2, <2>3
<1> QED
  BY <1>1, <1>2 DEF InFlight

\* What ends the read needs no chain any more.
LEMMA ReadingEnds ==
  ASSUME RInv, reading, inbox # <<>>, inbox' = Tail(inbox),
         UNCHANGED <<peer, sent, got>>, recv' \in Numbers,
         ~reading', ended' \in {"clean", "error"},
         ended' = "clean" => Head(inbox).kind = "closeNotify",
         fatal' = "mac" => fatal = "mac" \/ Head(inbox).corrupted
  PROVE  RInv'
PROOF
<1>1. /\ Head(inbox) \in Records /\ Honest(Head(inbox))
      /\ At(Head(inbox), recv.epoch, recv.seq, Len(got) + 1)
      /\ inbox' \in Seq(Records)
  BY HeadInFlight
<1>2. InFlight' /\ (\A i \in 1..Len(inbox) : Honest(inbox[i]))'
  BY ReadingOn
<1>3. Len(got) \in Nat /\ Len(sent) \in Nat /\ got \in Seq(Nat) /\ sent \in Seq(Nat)
  BY LenProperties DEF RInv, RTypeOK
<1>4. ASSUME ended' = "clean"
      PROVE  got' = sent' /\ peer'.state # "open"
  <2>1. Len(got) + 1 = Len(sent) + 1 /\ peer.state # "open"
    BY <1>1, <1>4 DEF Honest, At
  <2>2. Len(got) = Len(sent)
    BY <1>3, <2>1
  <2>3. \A i \in 1..Len(got) : got[i] = sent[i]
    BY <2>2 DEF RInv, Counted
  <2> QED
    BY <1>3, <2>1, <2>2, <2>3, SeqEqual
<1>5. Ended'
  BY <1>1, <1>4 DEF Ended, Honest, RInv
<1>6. RTypeOK'
  BY <1>1 DEF RInv, RTypeOK
<1> QED
  BY <1>2, <1>5, <1>6 DEF RInv, Counted

\* A record that only moves the receive keys on.
LEMMA ReadingPasses ==
  ASSUME RInv, reading, inbox # <<>>, inbox' = Tail(inbox),
         UNCHANGED <<peer, sent, got, reading, ended, fatal>>,
         Head(inbox).kind # "data", recv' \in Numbers,
         recv'.epoch = EpochAfter(Head(inbox)), recv'.seq = SeqAfter(Head(inbox))
  PROVE  RInv'
PROOF
<1>1. /\ Head(inbox) \in Records
      /\ At(Head(inbox), recv.epoch, recv.seq, Len(got) + 1)
      /\ inbox' \in Seq(Records)
  BY HeadInFlight
<1>2. InFlight' /\ (\A i \in 1..Len(inbox) : Honest(inbox[i]))'
  <2>1. ValueAfter(Head(inbox)) = Len(got') + 1
    BY <1>1 DEF ValueAfter, At
  <2>2. At([epoch |-> EpochAfter(Head(inbox)), seq |-> SeqAfter(Head(inbox)),
            value |-> ValueAfter(Head(inbox))], recv'.epoch, recv'.seq, Len(got') + 1)
    BY <2>1 DEF At
  <2> QED
    BY <2>2, ReadingOn
<1> QED
  BY <1>1, <1>2 DEF RInv, RTypeOK, Ended, Counted

\* A data record is given to the reader.
LEMMA OnDataKeeps == ASSUME RInv, OnData PROVE RInv'
PROOF
<1> DEFINE h == Head(inbox)
<1>1. /\ reading /\ inbox # <<>> /\ inbox' = Tail(inbox) /\ h.kind = "data"
      /\ recv' = [recv EXCEPT !.seq = @ + 1] /\ got' = Append(got, h.value) /\ ~reading'
      /\ UNCHANGED <<ended, fatal, peer, sent>>
  BY DEF OnData, Arrives, Following
<1>2. /\ h \in Records /\ Honest(h) /\ At(h, recv.epoch, recv.seq, Len(got) + 1)
      /\ inbox' \in Seq(Records)
  BY <1>1, HeadInFlight
<1> HIDE DEF h
<1>3. h.value \in Nat /\ h.value = Len(got) + 1 /\ h.value <= Len(sent)
  BY <1>1, <1>2 DEF Records, At, Honest
<1>4. /\ Len(got) \in Nat
      /\ got' \in Seq(Nat) /\ Len(got') = Len(got) + 1 /\ Counted(got')
  <2>1. got \in Seq(Nat) /\ Counted(got)
    BY DEF RInv, RTypeOK
  <2> QED
    BY <1>1, <1>3, <2>1, CountedAppend, LenProperties
<1>5. recv' \in Numbers /\ recv'.epoch = recv.epoch /\ recv'.seq = recv.seq + 1
  BY <1>1 DEF RInv, RTypeOK, Numbers
<1>6. InFlight' /\ (\A i \in 1..Len(inbox) : Honest(inbox[i]))'
  <2>1. /\ EpochAfter(h) = recv'.epoch /\ SeqAfter(h) = recv'.seq
        /\ ValueAfter(h) = Len(got') + 1
    BY <1>1, <1>2, <1>3, <1>4, <1>5 DEF EpochAfter, SeqAfter, ValueAfter, Rotating, At
  <2>2. At([epoch |-> EpochAfter(h), seq |-> SeqAfter(h), value |-> ValueAfter(h)],
           recv'.epoch, recv'.seq, Len(got') + 1)
    BY <2>1 DEF At
  <2> QED
    BY <1>1, <2>2, ReadingOn DEF h
<1>7. Len(got') <= Len(sent')
  BY <1>1, <1>3, <1>4
<1>8. Ended'
  BY <1>1 DEF RInv, Ended
<1> QED
  BY <1>1, <1>2, <1>4, <1>5, <1>6, <1>7, <1>8 DEF RInv, RTypeOK, Counted

\* Everything else the read loop does.
LEMMA ReceiveKeeps == ASSUME RInv, Receive PROVE RInv'
PROOF
<1>1. recv \in Numbers
  BY DEF RInv, RTypeOK
<1>2. /\ Following(recv) \in Numbers /\ Rotated(recv) \in Numbers
      /\ Following(recv).epoch = recv.epoch /\ Following(recv).seq = recv.seq + 1
      /\ Rotated(recv).epoch = recv.epoch + 1 /\ Rotated(recv).seq = 0
  BY <1>1 DEF Following, Rotated, Numbers
<1>3. ASSUME NEW kinds, Arrives(kinds)
      PROVE  /\ reading /\ inbox # <<>> /\ inbox' = Tail(inbox)
             /\ Head(inbox).kind \in kinds
             /\ Head(inbox).epoch = recv.epoch /\ Head(inbox).seq = recv.seq
  BY <1>3 DEF Arrives, Opens
<1>4. CASE OnData
  BY <1>4, OnDataKeeps
<1>5. ASSUME NEW kinds, Arrives(kinds), recv' = Following(recv),
             kinds \in {{"empty"}, {"warning"}, {"ticket"}},
             UNCHANGED <<peer, sent, got, reading, ended, fatal>>
      PROVE  RInv'
  <2>1. Head(inbox).kind \in {"empty", "warning", "ticket"}
    BY <1>3, <1>5
  <2>2. recv'.epoch = EpochAfter(Head(inbox)) /\ recv'.seq = SeqAfter(Head(inbox))
    BY <1>2, <1>3, <1>5, <2>1 DEF EpochAfter, SeqAfter, Rotating
  <2> QED
    BY <1>2, <1>3, <1>5, <2>1, <2>2, ReadingPasses
<1>6. CASE OnEmpty \/ OnWarning \/ OnTicket
  BY <1>5, <1>6 DEF OnEmpty, OnWarning, OnTicket
<1>7. CASE OnBadTicket
  BY <1>2, <1>3, <1>7, ReadingEnds DEF OnBadTicket
<1>8. CASE OnKeyUpdate
  <2>1. recv'.epoch = EpochAfter(Head(inbox)) /\ recv'.seq = SeqAfter(Head(inbox))
    BY <1>2, <1>3, <1>8 DEF OnKeyUpdate, ReceiveKeysRotated, EpochAfter, SeqAfter, Rotating
  <2>2. recv' \in Numbers /\ Head(inbox).kind # "data"
    BY <1>2, <1>3, <1>8 DEF OnKeyUpdate, ReceiveKeysRotated
  <2>3. UNCHANGED <<peer, sent, got, reading, ended, fatal>>
    BY <1>8 DEF OnKeyUpdate
  <2>4. reading /\ inbox # <<>> /\ inbox' = Tail(inbox)
    BY <1>3, <1>8 DEF OnKeyUpdate
  <2> QED
    BY <2>1, <2>2, <2>3, <2>4, ReadingPasses
<1>9. CASE OnCloseNotify
  BY <1>2, <1>3, <1>9, ReadingEnds DEF OnCloseNotify
<1>10. CASE OnFatalAlert \/ OnIllegal
  <2>1. /\ reading /\ inbox # <<>> /\ inbox' = Tail(inbox)
        /\ UNCHANGED <<peer, sent, got, recv>> /\ ~reading' /\ ended' = "error"
        /\ fatal' \in {"peerAlert", "protocol"}
    BY <1>3, <1>10 DEF OnFatalAlert, OnIllegal, Fail
  <2> QED
    BY <1>1, <2>1, ReadingEnds
<1>11. CASE OnUnopenable
  <2>1. /\ reading /\ inbox # <<>> /\ inbox' = Tail(inbox) /\ ~Opens(Head(inbox))
        /\ UNCHANGED <<peer, sent, got, recv>> /\ ~reading' /\ ended' = "error"
    BY <1>11 DEF OnUnopenable, Fail
  <2>2. Head(inbox).corrupted
    BY <2>1, HeadInFlight DEF Opens, Honest, At
  <2> QED
    BY <1>1, <2>1, <2>2, ReadingEnds
<1>12. CASE OnEof
  <2>1. /\ ended' = "error" /\ ~reading' /\ fatal' = "truncated"
        /\ UNCHANGED <<peer, sent, got, recv, inbox>>
    BY <1>12 DEF OnEof, EndOfInput, Fail
  <2> QED
    BY <2>1 DEF RInv, RTypeOK, InFlight, Ended, Counted, Honest
<1> QED
  BY <1>4, <1>6, <1>7, <1>8, <1>9, <1>10, <1>11, <1>12 DEF Receive

\* What the peer sends is numbered as its keys say.
LEMMA PeerSendKeeps ==
  ASSUME RInv, RecordAssumption, NEW kind \in Kinds, NEW corrupted \in BOOLEAN,
         PeerSend(kind, corrupted)
  PROVE  RInv'
PROOF
<1> DEFINE r == [epoch |-> peer.epoch, seq |-> peer.seq, kind |-> kind,
                 corrupted |-> corrupted, value |-> Len(sent) + 1]
<1>1. /\ peer.state = "open" /\ peer.seq < MaxSeq
      /\ inbox' = Append(inbox, r)
      /\ UNCHANGED <<recv, reading, got, ended, fatal>>
  BY DEF PeerSend, readVars
<1>2. /\ peer.epoch \in Nat /\ peer.seq \in Nat /\ peer.corrupted \in BOOLEAN /\ peer.sent \in Nat
      /\ sent \in Seq(Nat) /\ Len(sent) \in Nat /\ got \in Seq(Nat) /\ Len(got) \in Nat
      /\ inbox \in Seq(Records) /\ Len(inbox) \in Nat
  BY LenProperties DEF RInv, RTypeOK, Peers
<1>3. r \in Records
  BY <1>2 DEF Records
<1>4. /\ r.epoch = peer.epoch /\ r.seq = peer.seq /\ r.kind = kind /\ r.corrupted = corrupted
      /\ r.value = Len(sent) + 1
  OBVIOUS
<1> HIDE DEF r
<1>5. /\ peer'.epoch = EpochAfter(r) /\ peer'.seq = SeqAfter(r)
      /\ peer'.state = (IF kind = "closeNotify" THEN "notified" ELSE "open")
      /\ (peer.corrupted \/ corrupted => peer'.corrupted)
      /\ peer' \in Peers
  <2> DEFINE keys == IF kind \in {"keyUpdate", "keyUpdateRequested", "coalescedUpdate"}
                     THEN Rotated(peer) ELSE Following(peer)
  <2>1. peer' = [epoch |-> keys.epoch, seq |-> keys.seq,
                 state |-> IF kind = "closeNotify" THEN "notified" ELSE "open",
                 corrupted |-> peer.corrupted \/ corrupted, sent |-> peer.sent + 1]
    BY DEF PeerSend
  <2>2. Following(peer).epoch = peer.epoch /\ Following(peer).seq = peer.seq + 1
    BY DEF Following, RInv, RTypeOK, Peers
  <2>3. keys.epoch = EpochAfter(r) /\ keys.seq = SeqAfter(r)
    BY <1>4, <2>2 DEF EpochAfter, SeqAfter, Rotating, Rotated
  <2>4. keys.epoch \in Nat /\ keys.seq \in Nat
    BY <1>3, <2>3 DEF Records, EpochAfter, SeqAfter
  <2> HIDE DEF keys
  <2> QED
    BY <1>2, <2>1, <2>3, <2>4, SMTT(30) DEF Peers
<1>6. /\ sent' \in Seq(Nat) /\ Len(sent') \in Nat /\ Len(sent) <= Len(sent')
      /\ Len(sent') + 1 = ValueAfter(r)
      /\ Counted(sent')
      /\ kind = "data" => Len(sent') = Len(sent) + 1
      /\ kind # "data" => sent' = sent
  <2>1. CASE kind = "data"
    <3>1. sent' = Append(sent, Len(sent) + 1)
      BY <2>1 DEF PeerSend
    <3>2. Counted(sent)
      BY DEF RInv
    <3>3. sent' \in Seq(Nat) /\ Len(sent') = Len(sent) + 1 /\ Counted(sent')
      BY <1>2, <3>1, <3>2, CountedAppend
    <3> QED
      BY <1>2, <1>4, <2>1, <3>3 DEF ValueAfter
  <2>2. CASE kind # "data"
    <3>1. sent' = sent
      BY <2>2 DEF PeerSend
    <3> QED
      BY <1>2, <1>4, <2>2, <3>1 DEF ValueAfter, RInv
  <2> QED
    BY <2>1, <2>2
<1>7. /\ inbox' \in Seq(Records) /\ Len(inbox') = Len(inbox) + 1
      /\ \A i \in 1..Len(inbox) : inbox'[i] = inbox[i]
      /\ inbox'[Len(inbox) + 1] = r
  BY <1>1, <1>2, <1>3, AppendProperties
<1>8. (\A i \in 1..Len(inbox) : Honest(inbox[i]))'
  <2> SUFFICES ASSUME NEW i \in 1..Len(inbox') PROVE Honest(inbox[i])'
    OBVIOUS
  <2>1. CASE i \in 1..Len(inbox)
    <3>1. Honest(inbox[i]) /\ inbox'[i] = inbox[i] /\ inbox[i] \in Records
      BY <1>2, <1>7, <2>1 DEF RInv
    <3>2. inbox[i].value \in Nat
      BY <3>1 DEF Records
    <3> QED
      BY <1>1, <1>2, <1>5, <1>6, <3>1, <3>2, SMTT(30) DEF Honest
  <2>2. CASE i = Len(inbox) + 1
    BY <1>1, <1>4, <1>5, <1>6, <1>7, <2>2 DEF Honest
  <2> QED
    BY <1>2, <1>7, <2>1, <2>2
<1>9. InFlight'
  <2> SUFFICES ASSUME ended = "no"
               PROVE  /\ Chain(inbox', recv.epoch, recv.seq, Len(got) + 1)
                      /\ Leads(inbox', recv.epoch, recv.seq, Len(got) + 1,
                               peer'.epoch, peer'.seq, Len(sent') + 1)
    BY <1>1 DEF InFlight
  <2>1. /\ Chain(inbox, recv.epoch, recv.seq, Len(got) + 1)
        /\ Leads(inbox, recv.epoch, recv.seq, Len(got) + 1, peer.epoch, peer.seq, Len(sent) + 1)
    BY <1>1 DEF RInv, InFlight
  <2>2. At(r, peer.epoch, peer.seq, Len(sent) + 1)
    BY <1>4 DEF At
  <2> QED
    BY <1>1, <1>2, <1>3, <1>5, <1>6, <2>1, <2>2, AppendChain
<1>10. Ended'
  BY <1>1, <1>5 DEF RInv, Ended
<1>11. Len(got') <= Len(sent') /\ Counted(got')
  BY <1>1, <1>2, <1>6 DEF RInv
<1>12. recv' \in Numbers /\ got' \in Seq(Nat)
  BY <1>1 DEF RInv, RTypeOK
<1> QED
  BY <1>5, <1>6, <1>7, <1>8, <1>9, <1>10, <1>11, <1>12 DEF RInv, RTypeOK

\* A peer that leaves may take with it the end of what it sent.
LEMMA PeerLeavesKeeps == ASSUME RInv, PeerLeaves PROVE RInv'
PROOF
<1>1. PICK n \in 0..Len(inbox) : inbox' = SubSeq(inbox, 1, n)
  BY DEF PeerLeaves
<1>2. /\ peer' = [peer EXCEPT !.state = "gone"]
      /\ UNCHANGED <<recv, reading, got, ended, fatal, sent>>
  BY DEF PeerLeaves, readVars
<1>3. inbox \in Seq(Records) /\ Len(inbox) \in Nat
  BY LenProperties DEF RInv, RTypeOK
<1>4. /\ inbox' \in Seq(Records) /\ Len(inbox') = n
      /\ \A i \in 1..n : inbox'[i] = inbox[i]
      /\ \A e, s, v : Chain(inbox, e, s, v) => Chain(inbox', e, s, v)
  BY <1>1, <1>3, CutChain
<1>5. peer' \in Peers /\ peer'.state = "gone" /\ peer'.corrupted = peer.corrupted
  BY <1>2 DEF RInv, RTypeOK, Peers
<1>6. (\A i \in 1..Len(inbox) : Honest(inbox[i]))'
  <2>1. \A i \in 1..n : i \in 1..Len(inbox)
    BY <1>3
  <2> QED
    BY <1>2, <1>4, <1>5, <2>1 DEF RInv, Honest
<1>7. InFlight'
  BY <1>2, <1>4, <1>5 DEF RInv, InFlight
<1> QED
  BY <1>2, <1>4, <1>5, <1>6, <1>7 DEF RInv, RTypeOK, Ended, Counted

\* Every step keeps the read side's invariant; those of the write side do not touch it.
LEMMA ReadStep == ASSUME RecordAssumption, RInv, [Step]_vars PROVE RInv'
PROOF
<1>1. CASE UNCHANGED <<readVars, peerVars>>
  BY <1>1 DEF readVars, peerVars, RInv, RTypeOK, InFlight, Ended, Counted, Honest
<1>2. CASE Receive
  BY <1>2, ReceiveKeeps
<1>3. CASE Pull \/ Cancel
  <2>1. /\ UNCHANGED <<recv, got, peerVars>>
        /\ reading' => ended' = "no"
        /\ ended' = "no" => ended = "no"
        /\ ended' # "clean"
        /\ fatal' = "mac" => fatal = "mac"
    BY <1>3 DEF Pull, Cancel
  <2> QED
    BY <2>1 DEF peerVars, RInv, RTypeOK, InFlight, Ended, Counted, Honest
<1>4. ASSUME NEW kind \in Kinds, NEW corrupted \in BOOLEAN, PeerSend(kind, corrupted)
      PROVE  RInv'
  BY <1>4, PeerSendKeeps
<1>5. CASE PeerLeaves
  BY <1>5, PeerLeavesKeeps
<1>6. CASE Emit \/ Conclude \/ UpdateKeys \/ PeerStopsReading \/ UNCHANGED vars
  BY <1>1, <1>6 DEF Emit, Conclude, UpdateKeys, PeerStopsReading, vars
<1>7. CASE (\E c \in Callers : GraceExpires(c) \/ Close(c)) \/ \E n \in 1..MaxParts : Write(n)
  BY <1>1, <1>7 DEF GraceExpires, Close, Write
<1> QED
  BY <1>2, <1>3, <1>4, <1>5, <1>6, <1>7 DEF Step, Local, Environment

\* Nothing is in flight when the handshake hands the connection over.
LEMMA ReadInit == ASSUME Init PROVE RInv
PROOF
<1>1. Len(<<>>) = 0 /\ <<>> \in Seq(Nat) /\ <<>> \in Seq(Records)
  OBVIOUS
<1>2. RTypeOK
  BY <1>1 DEF Init, Fresh, RTypeOK, Numbers, Peers
<1>3. InFlight
  BY <1>1 DEF Init, Fresh, InFlight, Chain, Leads
<1> QED
  BY <1>1, <1>2, <1>3 DEF Init, RInv, Counted, Ended

(***************************************************************************)
(* The reader is given the peer's data in order, and its stream ends       *)
(* cleanly only after the peer's close_notify, with all the data that came *)
(* before it (_nextPlaintextRecord, readAppData).                          *)
(***************************************************************************)
THEOREM RecordEndIsHonest == Spec => []EndIsHonest
PROOF
<1>1. Init => RInv
  BY ReadInit
<1>2. RInv /\ [Step]_vars => RInv'
  BY ReadStep, RecordAssumption
<1>3. RInv => EndIsHonest
  <2> SUFFICES ASSUME RInv PROVE EndIsHonest
    OBVIOUS
  <2>1. /\ got \in Seq(Nat) /\ sent \in Seq(Nat) /\ Len(got) \in Nat /\ Len(sent) \in Nat
        /\ Len(got) <= Len(sent)
        /\ \A i \in 1..Len(got) : got[i] = sent[i] /\ got[i] \in Nat /\ sent[i] \in Nat
    BY LenProperties DEF RInv, RTypeOK, Counted
  <2> DEFINE a == SubSeq(got, 1, Len(got))
             b == SubSeq(sent, 1, Len(got))
  <2>2. /\ a \in Seq(Nat) /\ b \in Seq(Nat)
        /\ Len(a) = (IF 1 <= Len(got) THEN Len(got) - 1 + 1 ELSE 0)
        /\ Len(b) = (IF 1 <= Len(got) THEN Len(got) - 1 + 1 ELSE 0)
        /\ \A i \in 1..(Len(got) - 1 + 1) : a[i] = got[1 + i - 1] /\ b[i] = sent[1 + i - 1]
    BY <2>1, SubSeqProperties
  <2> HIDE DEF a, b
  <2>3. Len(a) = Len(b) /\ Len(a) = Len(got) /\ \A i \in 1..Len(a) : a[i] = b[i]
    BY <2>1, <2>2
  <2>4. a = b
    BY <2>2, <2>3, SeqEqual
  <2> QED
    BY <2>1, <2>4 DEF EndIsHonest, IsPrefix, RInv, Ended, a, b
<1> QED
  BY <1>1, <1>2, <1>3, PTL DEF Spec

-----------------------------------------------------------------------------
(***************************************************************************)
(* The write side.  While the writer is open, the send keys are those that *)
(* the records on the wire call for, except between a KeyUpdate and the    *)
(* rotation that ends its task; an alert is the last record, and its task  *)
(* has nothing left to do but close the writer.                            *)
(***************************************************************************)
Allowed(t) ==
  \/ t.after = "rotate" /\ t.records \in {<<>>, <<"keyUpdate">>} /\ ~t.tries
  \/ t.after = "fin" /\ t.records \in {<<>>, <<"alert">>}
  \/ t.after = "nothing" /\ t.records \in Seq({"data"})
Waits(t) == t.after = "rotate" => t.records = <<"keyUpdate">>
Queued(q) ==
  /\ \A i \in 1..Len(q) : Allowed(q[i])
  /\ \A i \in 2..Len(q) : Waits(q[i])
Done(q, after) == q # <<>> /\ q[1].after = after /\ q[1].records = <<>>

\* Numbered as record i of a wire must be: this is Readable without the CHOOSE of Max.
UpdatesIn(w, i) == {j \in 1..(i - 1) : w[j].kind = "keyUpdate"}
Keyed(w, keys, i) ==
  /\ keys.epoch = Cardinality(UpdatesIn(w, i))
  /\ \E m \in {0} \union UpdatesIn(w, i) :
       /\ \A j \in UpdatesIn(w, i) : j <= m
       /\ keys.seq = i - 1 - m

WTypeOK ==
  /\ send \in Numbers /\ queue \in Seq(Tasks) /\ wire \in Seq(Written)
  /\ closedLocally \in BOOLEAN /\ finished \in BOOLEAN
WInv ==
  /\ WTypeOK
  /\ Queued(queue)
  /\ \A i \in 1..Len(wire) : Keyed(wire, wire[i], i) /\ wire[i].seq < MaxSeq
  /\ \A i \in 1..Len(wire) :
       wire[i].kind = "alert" => i = Len(wire) /\ (finished \/ Done(queue, "fin"))
  /\ ~finished /\ Done(queue, "rotate") =>
       /\ Len(wire) > 0
       /\ wire[Len(wire)].kind = "keyUpdate" /\ send.epoch = wire[Len(wire)].epoch
  /\ ~finished /\ ~Done(queue, "rotate") => Keyed(wire, send, Len(wire) + 1)

-----------------------------------------------------------------------------
(***************************************************************************)
(* The numbers of the records on the wire.                                 *)
(***************************************************************************)
\* The largest of a set of naturals is the one no other exceeds.
LEMMA MaxIs ==
  ASSUME NEW S \in SUBSET Nat, NEW m \in S, \A j \in S : j <= m
  PROVE  Max(S) = m
PROOF
<1>1. \A j \in S : m >= j
  OBVIOUS
<1>2. Max(S) \in S /\ \A j \in S : Max(S) >= j
  BY <1>1 DEF Max
<1>3. Max(S) \in Nat /\ m \in Nat /\ Max(S) >= m /\ Max(S) <= m
  BY <1>2
<1> QED
  BY <1>3

\* The positions of the KeyUpdates before a record: finitely many naturals.
LEMMA UpdatesFinite ==
  ASSUME NEW w, NEW i \in Nat
  PROVE  /\ UpdatesIn(w, i) \in SUBSET Nat
         /\ IsFiniteSet(UpdatesIn(w, i)) /\ Cardinality(UpdatesIn(w, i)) \in Nat
PROOF
<1>1. IsFiniteSet(1..(i - 1))
  BY FS_Interval
<1>2. UpdatesIn(w, i) \subseteq 1..(i - 1)
  BY DEF UpdatesIn
<1>3. IsFiniteSet(UpdatesIn(w, i))
  BY <1>1, <1>2, FS_Subset
<1> QED
  BY <1>2, <1>3, FS_CardinalityType

\* One more record changes nothing before it (_emit).
LEMMA UpdatesKept ==
  ASSUME NEW w \in Seq(Written), NEW r \in Written, NEW i \in 1..(Len(w) + 1)
  PROVE  UpdatesIn(Append(w, r), i) = UpdatesIn(w, i)
PROOF
<1>1. Len(w) \in Nat /\ \A j \in 1..Len(w) : Append(w, r)[j] = w[j]
  BY AppendProperties, LenProperties
<1>2. \A j \in 1..(i - 1) : j \in 1..Len(w)
  BY <1>1
<1> QED
  BY <1>1, <1>2 DEF UpdatesIn

\* What the records that follow are counted from, after one more record.
LEMMA UpdatesNext ==
  ASSUME NEW w \in Seq(Written), NEW n \in Nat, Len(w) = n, n > 0
  PROVE  UpdatesIn(w, n + 1) =
           UpdatesIn(w, n) \union (IF w[n].kind = "keyUpdate" THEN {n} ELSE {})
PROOF
<1>1. \A j \in 1..((n + 1) - 1) : j \in 1..(n - 1) \/ j = n
  OBVIOUS
<1>2. n \in 1..((n + 1) - 1) /\ \A j \in 1..(n - 1) : j \in 1..((n + 1) - 1)
  OBVIOUS
<1> QED
  BY <1>1, <1>2 DEF UpdatesIn

\* A record takes the next number under the same keys.
LEMMA NextNumber ==
  ASSUME NEW w \in Seq(Written), NEW r \in Written, NEW keys \in Numbers,
         Keyed(w, r, Len(w) + 1), r.kind # "keyUpdate",
         keys.epoch = r.epoch, keys.seq = r.seq + 1
  PROVE  Keyed(Append(w, r), keys, Len(w) + 2)
PROOF
<1> DEFINE v == Append(w, r)
           n == Len(w) + 1
<1>1. /\ Len(w) \in Nat /\ v \in Seq(Written) /\ Len(v) = n /\ v[n] = r
  BY AppendProperties, LenProperties
<1>2. UpdatesIn(v, n) = UpdatesIn(w, n)
  <2>1. n \in 1..(Len(w) + 1)
    BY <1>1
  <2> QED
    BY <2>1, UpdatesKept
<1>3. UpdatesIn(v, n + 1) = UpdatesIn(w, n)
  <2>1. n \in Nat /\ n > 0
    BY <1>1
  <2> HIDE DEF v, n
  <2>2. UpdatesIn(v, n + 1) = UpdatesIn(v, n) \union {}
    BY <1>1, <2>1, UpdatesNext
  <2> QED
    BY <1>2, <2>2
<1>4. n + 1 = Len(w) + 2
  BY <1>1
<1>5. UpdatesIn(w, n) \in SUBSET Nat
  BY <1>1, UpdatesFinite
<1>6. PICK m \in {0} \union UpdatesIn(w, n) :
        /\ \A j \in UpdatesIn(w, n) : j <= m
        /\ r.seq = n - 1 - m
  BY DEF Keyed
<1>7. keys.seq = (n + 1) - 1 - m
  BY <1>1, <1>5, <1>6
<1>8. keys.epoch = Cardinality(UpdatesIn(w, n))
  BY DEF Keyed
<1> HIDE DEF v, n
<1>9. Keyed(v, keys, n + 1)
  BY <1>3, <1>6, <1>7, <1>8 DEF Keyed
<1> QED
  BY <1>4, <1>9 DEF v

\* After a KeyUpdate and the rotation, a new epoch starts at number 0 (_rotateSend).
LEMMA NextEpoch ==
  ASSUME NEW w \in Seq(Written), Len(w) > 0, w[Len(w)].kind = "keyUpdate",
         Keyed(w, w[Len(w)], Len(w)),
         NEW keys \in Numbers, keys.epoch = w[Len(w)].epoch + 1, keys.seq = 0
  PROVE  Keyed(w, keys, Len(w) + 1)
PROOF
<1> DEFINE n == Len(w)
<1>1. n \in Nat /\ n > 0
  BY LenProperties
<1> HIDE DEF n
<1>2. UpdatesIn(w, n + 1) = UpdatesIn(w, n) \union {n}
  BY <1>1, UpdatesNext DEF n
<1>3. n \notin UpdatesIn(w, n) /\ \A j \in UpdatesIn(w, n) : j <= n
  BY <1>1 DEF UpdatesIn
<1>4. Cardinality(UpdatesIn(w, n + 1)) = Cardinality(UpdatesIn(w, n)) + 1
  BY <1>1, <1>2, <1>3, UpdatesFinite, FS_AddElement
<1>5. keys.epoch = Cardinality(UpdatesIn(w, n + 1))
  BY <1>4 DEF Keyed, n
<1>6. \A j \in UpdatesIn(w, n + 1) : j <= n
  BY <1>1, <1>2, <1>3
<1>7. keys.seq = (n + 1) - 1 - n
  BY <1>1
<1> QED
  BY <1>2, <1>5, <1>6, <1>7 DEF Keyed, n

-----------------------------------------------------------------------------
(***************************************************************************)
(* The queue.                                                              *)
(***************************************************************************)
\* A task that joins the queue goes to its end, and none joins half done (_enqueueWrite).
LEMMA Enqueue ==
  ASSUME NEW q \in Seq(Tasks), NEW t \in Tasks, Queued(q), Allowed(t), Waits(t)
  PROVE  /\ Append(q, t) \in Seq(Tasks) /\ Queued(Append(q, t))
         /\ \A a : Done(q, a) => Done(Append(q, t), a)
         /\ Done(Append(q, t), "rotate") => Done(q, "rotate")
PROOF
<1> DEFINE p == Append(q, t)
<1>1. /\ Len(q) \in Nat /\ p \in Seq(Tasks) /\ p # <<>> /\ Len(p) = Len(q) + 1
      /\ \A i \in 1..Len(q) : p[i] = q[i]
      /\ p[Len(q) + 1] = t
  BY AppendProperties, LenProperties
<1>2. q = <<>> <=> Len(q) = 0
  BY <1>1, EmptySeq
<1> HIDE DEF p
<1>3. \A i \in 1..Len(p) : i \in 1..Len(q) \/ i = Len(q) + 1
  BY <1>1
<1>4. \A i \in 2..Len(p) : i \in 2..Len(q) \/ i = Len(q) + 1
  BY <1>1
<1>5. \A i \in 2..Len(q) : i \in 1..Len(q)
  BY <1>1
<1>6. Queued(p)
  BY <1>1, <1>3, <1>4, <1>5 DEF Queued
<1>7. q # <<>> => p[1] = q[1]
  <2>1. q # <<>> => 1 \in 1..Len(q)
    BY <1>1, <1>2
  <2> QED
    BY <1>1, <2>1
<1>8. q = <<>> => p[1] = t
  BY <1>1, <1>2
<1>9. \A a : Done(q, a) => Done(p, a)
  BY <1>1, <1>7 DEF Done
<1>10. Done(p, "rotate") => Done(q, "rotate")
  <2>1. <<"keyUpdate">> # <<>>
    OBVIOUS
  <2> QED
    BY <1>7, <1>8, <2>1 DEF Done, Waits
<1> QED
  BY <1>1, <1>6, <1>9, <1>10 DEF p

\* What is left when the first task leaves the queue has nothing half done.
LEMMA Dequeue ==
  ASSUME NEW q \in Seq(Tasks), q # <<>>, Queued(q)
  PROVE  /\ q[1] \in Tasks /\ Allowed(q[1]) /\ Head(q) = q[1]
         /\ Tail(q) \in Seq(Tasks) /\ Queued(Tail(q))
         /\ \A i \in 1..Len(Tail(q)) : Waits(Tail(q)[i])
         /\ ~Done(Tail(q), "rotate")
PROOF
<1> DEFINE p == Tail(q)
<1>1. /\ Len(q) \in Nat /\ Len(q) > 0
      /\ q[1] \in Tasks /\ Head(q) = q[1]
      /\ p \in Seq(Tasks) /\ Len(p) = Len(q) - 1
      /\ \A i \in 1..Len(p) : p[i] = q[i + 1]
  BY HeadTailProperties, LenProperties, EmptySeq
<1>2. p = <<>> <=> Len(p) = 0
  BY <1>1, EmptySeq
<1> HIDE DEF p
<1>3. \A i \in 1..Len(p) : i + 1 \in 1..Len(q) /\ i + 1 \in 2..Len(q)
  BY <1>1
<1>4. \A i \in 2..Len(p) : i \in 1..Len(p)
  BY <1>1
<1>5. \A i \in 1..Len(p) : Allowed(p[i]) /\ Waits(p[i])
  BY <1>1, <1>3 DEF Queued
<1>6. Queued(p)
  BY <1>4, <1>5 DEF Queued
<1>7. 1 \in 1..Len(q) /\ (p # <<>> => 1 \in 1..Len(p))
  BY <1>1, <1>2
<1>8. ~Done(p, "rotate")
  <2>1. <<"keyUpdate">> # <<>>
    OBVIOUS
  <2> QED
    BY <1>5, <1>7, <2>1 DEF Done, Waits
<1> QED
  BY <1>1, <1>5, <1>6, <1>7, <1>8 DEF p, Queued

\* The first task, some of whose records have been emitted, stays in front.
LEMMA Replace ==
  ASSUME NEW q \in Seq(Tasks), q # <<>>, Queued(q), NEW t \in Tasks, Allowed(t)
  PROVE  /\ <<t>> \o Tail(q) \in Seq(Tasks) /\ Queued(<<t>> \o Tail(q))
         /\ <<t>> \o Tail(q) # <<>> /\ (<<t>> \o Tail(q))[1] = t
PROOF
<1> DEFINE r == Tail(q)
           p == <<t>> \o r
<1>1. /\ r \in Seq(Tasks) /\ Len(r) \in Nat /\ Queued(r)
      /\ \A i \in 1..Len(r) : Waits(r[i])
  BY Dequeue, LenProperties
<1> HIDE DEF r
<1>2. <<t>> \in Seq(Tasks) /\ Len(<<t>>) = 1 /\ <<t>>[1] = t
  OBVIOUS
<1>3. /\ p \in Seq(Tasks) /\ Len(p) = 1 + Len(r)
      /\ \A i \in 1..(1 + Len(r)) : p[i] = IF i <= 1 THEN <<t>>[i] ELSE r[i - 1]
  BY <1>1, <1>2, ConcatProperties
<1> HIDE DEF p
<1>4. p[1] = t
  BY <1>1, <1>2, <1>3
<1>5. \A i \in 2..Len(p) : i - 1 \in 1..Len(r) /\ p[i] = r[i - 1]
  BY <1>1, <1>3
<1>6. \A i \in 1..Len(p) : i = 1 \/ i \in 2..Len(p)
  BY <1>1, <1>3
<1>7. Queued(p)
  BY <1>1, <1>4, <1>5, <1>6 DEF Queued
<1>8. p # <<>>
  BY <1>1, <1>3, EmptySeq
<1> QED
  BY <1>3, <1>4, <1>7, <1>8 DEF p, r

\* The tasks of the record layer.
LEMMA TasksTyped ==
  /\ \A n \in Nat : Data(n) \in Tasks /\ Allowed(Data(n)) /\ Waits(Data(n))
  /\ KeyUpdate \in Tasks /\ Allowed(KeyUpdate) /\ Waits(KeyUpdate)
  /\ FatalAlert \in Tasks /\ Allowed(FatalAlert) /\ Waits(FatalAlert)
  /\ \A c \in Callers : Shutdown(c) \in Tasks /\ Allowed(Shutdown(c)) /\ Waits(Shutdown(c))
PROOF
<1>1. <<>> \in Seq(Words) /\ <<"keyUpdate">> \in Seq(Words) /\ <<"alert">> \in Seq(Words)
  BY DEF Words
<1>2. ASSUME NEW n \in Nat
      PROVE  Data(n) \in Tasks /\ Allowed(Data(n)) /\ Waits(Data(n))
  <2> DEFINE d == [i \in 1..n |-> "data"]
  <2>1. d \in Seq({"data"}) /\ d \in Seq(Words)
    BY DEF Words
  <2> HIDE DEF d
  <2>2. Data(n) = [records |-> d, after |-> "nothing", tries |-> FALSE, by |-> "nobody"]
    BY DEF Data, Task, d
  <2> QED
    BY <2>1, <2>2 DEF Tasks, Allowed, Waits
<1>3. KeyUpdate \in Tasks /\ Allowed(KeyUpdate) /\ Waits(KeyUpdate)
  BY <1>1 DEF KeyUpdate, Task, Tasks, Allowed, Waits
<1>4. FatalAlert \in Tasks /\ Allowed(FatalAlert) /\ Waits(FatalAlert)
  BY <1>1 DEF FatalAlert, Task, Tasks, Allowed, Waits
<1>5. ASSUME NEW c \in Callers
      PROVE  Shutdown(c) \in Tasks /\ Allowed(Shutdown(c)) /\ Waits(Shutdown(c))
  BY <1>1 DEF Shutdown, Task, Tasks, Allowed, Waits
<1> QED
  BY <1>2, <1>3, <1>4, <1>5

\* Whatever is enqueued, whenever it is, keeps the write side's invariant.
LEMMA EnqueueKeeps ==
  ASSUME WInv, NEW t \in Tasks, Allowed(t), Waits(t),
         queue' = Append(queue, t), UNCHANGED <<send, wire, finished>>, closedLocally' \in BOOLEAN
  PROVE  WInv'
PROOF
<1>1. queue \in Seq(Tasks) /\ Queued(queue)
  BY DEF WInv, WTypeOK
<1>2. /\ queue' \in Seq(Tasks) /\ Queued(queue')
      /\ \A a : Done(queue, a) => Done(queue', a)
      /\ Done(queue', "rotate") => Done(queue, "rotate")
  BY <1>1, Enqueue
<1> QED
  BY <1>2 DEF WInv, WTypeOK

-----------------------------------------------------------------------------
(***************************************************************************)
(* The steps of the write side.                                            *)
(***************************************************************************)
\* What a task emits next, and what it is left with.
LEMMA TaskFacts ==
  ASSUME NEW t \in Tasks, Allowed(t), t.records # <<>>
  PROVE  LET k == Head(t.records)
             u == [t EXCEPT !.records = Tail(t.records)]
         IN /\ u \in Tasks /\ Allowed(u) /\ u.after = t.after /\ k \in Words
            /\ t.after = "rotate" => k = "keyUpdate" /\ u.records = <<>> /\ ~t.tries
            /\ t.after = "fin" => k = "alert" /\ u.records = <<>>
            /\ t.after = "nothing" => k = "data"
            /\ t.after \in {"nothing", "rotate", "fin"}
PROOF
<1> DEFINE k == Head(t.records)
           u == [t EXCEPT !.records = Tail(t.records)]
<1>1. t.records \in Seq(Words) /\ t.after \in {"nothing", "rotate", "fin"}
  BY DEF Tasks
<1>2. k \in Words /\ Tail(t.records) \in Seq(Words)
  BY <1>1, HeadTailProperties
<1>3. /\ u \in Tasks /\ u.records = Tail(t.records) /\ u.after = t.after /\ u.tries = t.tries
  BY <1>2 DEF Tasks
<1>4. CASE t.after = "rotate"
  <2>1. t.records = <<"keyUpdate">> /\ ~t.tries
    BY <1>4 DEF Allowed
  <2>2. k = "keyUpdate" /\ Tail(t.records) = <<>>
    BY <2>1
  <2> HIDE DEF k, u
  <2> QED
    BY <1>2, <1>3, <1>4, <2>1, <2>2 DEF Allowed, k, u
<1>5. CASE t.after = "fin"
  <2>1. t.records = <<"alert">>
    BY <1>5 DEF Allowed
  <2>2. k = "alert" /\ Tail(t.records) = <<>>
    BY <2>1
  <2> HIDE DEF k, u
  <2> QED
    BY <1>2, <1>3, <1>5, <2>1, <2>2 DEF Allowed, k, u
<1>6. CASE t.after = "nothing"
  <2>1. t.records \in Seq({"data"})
    BY <1>6 DEF Allowed
  <2>2. k = "data" /\ Tail(t.records) \in Seq({"data"})
    BY <2>1, HeadTailProperties
  <2> HIDE DEF k, u
  <2> QED
    BY <1>2, <1>3, <1>6, <2>2 DEF Allowed, k, u
<1> QED
  BY <1>1, <1>4, <1>5, <1>6

\* A record goes out under the keys and the number that the wire calls for (_emit).
LEMMA EmitKeeps == ASSUME RecordAssumption, WInv, Emit PROVE WInv'
PROOF
<1> DEFINE task == queue[1]
           k == Head(task.records)
           u == [task EXCEPT !.records = Tail(task.records)]
           r == Protected(k)
           n == Len(wire)
<1>1. /\ queue \in Seq(Tasks) /\ queue # <<>> /\ Queued(queue)
      /\ wire \in Seq(Written) /\ send \in Numbers /\ MaxSeq \in Nat
  BY DEF WInv, WTypeOK, Emit, RecordAssumption
<1>2. /\ task \in Tasks /\ Allowed(task) /\ Head(queue) = task
      /\ Tail(queue) \in Seq(Tasks) /\ Queued(Tail(queue)) /\ ~Done(Tail(queue), "rotate")
  BY <1>1, Dequeue
<1>3. task.records # <<>> /\ UNCHANGED <<finished, closedLocally>>
  BY <1>2 DEF Emit
<1>4. /\ u \in Tasks /\ Allowed(u) /\ u.after = task.after /\ k \in Words
      /\ task.after = "rotate" => k = "keyUpdate" /\ u.records = <<>> /\ ~task.tries
      /\ task.after = "fin" => k = "alert" /\ u.records = <<>>
      /\ task.after = "nothing" => k = "data"
      /\ task.after \in {"nothing", "rotate", "fin"}
  <2> HIDE DEF task
  <2> QED
    BY <1>2, <1>3, TaskFacts
<1>5. /\ <<u>> \o Tail(queue) \in Seq(Tasks) /\ Queued(<<u>> \o Tail(queue))
      /\ <<u>> \o Tail(queue) # <<>> /\ (<<u>> \o Tail(queue))[1] = u
  <2> HIDE DEF u
  <2> QED
    BY <1>1, <1>4, Replace
<1>6. /\ send' = [send EXCEPT !.seq = IF send.seq < MaxSeq THEN send.seq + 1 ELSE send.seq]
      /\ wire' = IF send.seq < MaxSeq /\ ~finished THEN Append(wire, r) ELSE wire
      /\ queue' = IF (send.seq < MaxSeq /\ ~finished) \/ task.tries
                  THEN <<u>> \o Tail(queue) ELSE Tail(queue)
  BY <1>2 DEF Emit
<1>7. \A a : ~Done(queue, a)
  BY <1>3 DEF Done
<1>8. n \in Nat /\ send.epoch \in Nat /\ send.seq \in Nat
  BY <1>1, LenProperties DEF Numbers
<1>9. r \in Written /\ r.epoch = send.epoch /\ r.seq = send.seq /\ r.kind = k
  BY <1>4, <1>8 DEF Protected, Written
<1>10. send' \in Numbers /\ send'.epoch = send.epoch
  BY <1>1, <1>6, <1>8, SMTT(30) DEF Numbers
<1> HIDE DEF task, k, u, r, n
<1>11. CASE send.seq < MaxSeq /\ ~finished
  <2>1. /\ wire' = Append(wire, r) /\ queue' = <<u>> \o Tail(queue)
        /\ send'.seq = r.seq + 1
    BY <1>1, <1>6, <1>9, <1>11 DEF Numbers
  <2>2. /\ wire' \in Seq(Written) /\ Len(wire') = n + 1
        /\ \A i \in 1..n : wire'[i] = wire[i]
        /\ wire'[n + 1] = r
    BY <1>1, <1>9, <2>1, AppendProperties DEF n
  <2>3. queue' \in Seq(Tasks) /\ Queued(queue') /\ queue' # <<>> /\ queue'[1] = u
    BY <1>5, <2>1
  <2>4. Keyed(wire, r, n + 1)
    <3>1. Keyed(wire, send, n + 1)
      BY <1>7, <1>11 DEF WInv, n
    <3> QED
      BY <1>9, <3>1 DEF Keyed
  <2>5. ASSUME NEW i \in 1..(n + 1)
        PROVE  Keyed(wire', wire'[i], i) /\ wire'[i].seq < MaxSeq
    <3>1. UpdatesIn(wire', i) = UpdatesIn(wire, i)
      BY <1>1, <1>9, <2>1, UpdatesKept DEF n
    <3>2. CASE i \in 1..n
      <4>1. Keyed(wire, wire[i], i) /\ wire[i].seq < MaxSeq /\ wire'[i] = wire[i]
        BY <2>2, <3>2 DEF WInv, n
      <4> QED
        BY <3>1, <4>1 DEF Keyed
    <3>3. CASE i = n + 1
      <4>1. wire'[i] = r
        BY <2>2, <3>3
      <4> QED
        BY <1>9, <1>11, <2>4, <3>1, <3>3, <4>1 DEF Keyed
    <3> QED
      BY <1>8, <3>2, <3>3
  <2>6. \A i \in 1..n : wire[i].kind # "alert"
    BY <1>7, <1>11 DEF WInv, n
  <2>7. ASSUME NEW i \in 1..(n + 1), wire'[i].kind = "alert"
        PROVE  i = n + 1 /\ Done(queue', "fin")
    <3>1. i = n + 1
      BY <1>8, <2>2, <2>6, <2>7
    <3>2. k = "alert"
      BY <1>9, <2>2, <2>7, <3>1
    <3> QED
      BY <1>4, <2>3, <3>1, <3>2 DEF Done
  <2>8. Done(queue', "rotate") => wire'[n + 1].kind = "keyUpdate" /\ send'.epoch = wire'[n + 1].epoch
    BY <1>4, <1>9, <1>10, <2>2, <2>3 DEF Done
  <2>9. ~Done(queue', "rotate") => Keyed(wire', send', n + 2)
    <3> SUFFICES ASSUME ~Done(queue', "rotate") PROVE Keyed(wire', send', n + 2)
      OBVIOUS
    <3>1. k # "keyUpdate"
      BY <1>4, <2>3 DEF Done
    <3> QED
      BY <1>1, <1>9, <1>10, <2>1, <2>4, <3>1, NextNumber DEF n
  <2>10. n + 1 > 0 /\ (n + 1) + 1 = n + 2
    BY <1>8
  <2>11. WTypeOK'
    BY <1>3, <1>10, <2>2, <2>3 DEF WInv, WTypeOK
  <2> QED
    BY <1>3, <1>11, <2>2, <2>3, <2>5, <2>7, <2>8, <2>9, <2>10, <2>11 DEF WInv
<1>12. CASE ~(send.seq < MaxSeq /\ ~finished)
  <2>1. wire' = wire /\ (queue' = Tail(queue) \/ (task.tries /\ queue' = <<u>> \o Tail(queue)))
    BY <1>6, <1>12
  <2>2. queue' \in Seq(Tasks) /\ Queued(queue') /\ ~Done(queue', "rotate")
    BY <1>2, <1>4, <1>5, <2>1 DEF Done
  <2>3. ~finished => send'.seq = send.seq
    BY <1>1, <1>6, <1>12 DEF Numbers
  <2>4. ~finished => Keyed(wire', send', Len(wire') + 1)
    BY <1>7, <1>10, <2>1, <2>3 DEF WInv, Keyed
  <2>5. WTypeOK'
    BY <1>3, <1>10, <2>1, <2>2 DEF WInv, WTypeOK
  <2> QED
    BY <1>3, <1>7, <2>1, <2>2, <2>4, <2>5 DEF WInv
<1> QED
  BY <1>11, <1>12

\* A task ends: the keys are rotated after the KeyUpdate and before anything else is
\* written, and the writer is closed after the alert.
LEMMA ConcludeKeeps == ASSUME WInv, Conclude PROVE WInv'
PROOF
<1> DEFINE task == queue[1]
<1>1. /\ queue \in Seq(Tasks) /\ queue # <<>> /\ Queued(queue)
      /\ wire \in Seq(Written) /\ send \in Numbers
  BY DEF WInv, WTypeOK, Conclude
<1>2. /\ task \in Tasks /\ Allowed(task) /\ Head(queue) = task
      /\ Tail(queue) \in Seq(Tasks) /\ Queued(Tail(queue)) /\ ~Done(Tail(queue), "rotate")
  BY <1>1, Dequeue
<1>3. /\ task.records = <<>>
      /\ send' = IF task.after = "rotate" THEN Rotated(send) ELSE send
      /\ (finished' <=> (finished \/ task.after = "fin"))
      /\ finished' \in BOOLEAN
      /\ queue' = Tail(queue)
      /\ UNCHANGED <<wire, closedLocally>>
  BY <1>2 DEF Conclude, WInv, WTypeOK
<1>4. \A a : Done(queue, a) <=> task.after = a
  BY <1>1, <1>3 DEF Done
<1>5. send' \in Numbers
  BY <1>1, <1>3 DEF Rotated, Numbers
<1> HIDE DEF task
<1>6. WTypeOK'
  BY <1>2, <1>3, <1>5 DEF WInv, WTypeOK
<1>7. ASSUME ~finished'
      PROVE  Keyed(wire', send', Len(wire') + 1)
  <2>1. ~finished /\ task.after # "fin"
    BY <1>3, <1>7
  <2>2. CASE task.after = "rotate"
    <3>1. /\ Len(wire) > 0 /\ wire[Len(wire)].kind = "keyUpdate"
          /\ send.epoch = wire[Len(wire)].epoch
      BY <1>4, <2>1, <2>2 DEF WInv
    <3>2. Keyed(wire, wire[Len(wire)], Len(wire))
      <4>1. Len(wire) \in 1..Len(wire)
        BY <1>1, <3>1, LenProperties
      <4> QED
        BY <4>1 DEF WInv
    <3>3. send'.epoch = wire[Len(wire)].epoch + 1 /\ send'.seq = 0
      BY <1>3, <2>2, <3>1 DEF Rotated
    <3> QED
      BY <1>1, <1>3, <1>5, <3>1, <3>2, <3>3, NextEpoch
  <2>3. CASE task.after # "rotate"
    BY <1>3, <1>4, <2>1, <2>3 DEF WInv
  <2> QED
    BY <2>2, <2>3
<1>8. ASSUME NEW i \in 1..Len(wire), wire[i].kind = "alert"
      PROVE  i = Len(wire) /\ finished'
  BY <1>3, <1>4, <1>8 DEF WInv
<1> QED
  BY <1>2, <1>3, <1>6, <1>7, <1>8 DEF WInv

\* Every step keeps the write side's invariant: the application, the answers to the
\* peer's KeyUpdates, the shutdowns and the alerts of failed reads only enqueue.
LEMMA WriteStep == ASSUME RecordAssumption, WInv, [Step]_vars PROVE WInv'
PROOF
<1>1. closedLocally \in BOOLEAN
  BY DEF WInv, WTypeOK
<1>2. CASE UNCHANGED writeVars
  BY <1>2 DEF writeVars, WInv, WTypeOK
<1>3. CASE UNCHANGED <<send, queue, wire, finished>> /\ closedLocally' \in BOOLEAN
  BY <1>3 DEF WInv, WTypeOK
<1>4. ASSUME NEW n \in 1..MaxParts, Write(n) PROVE WInv'
  <2>1. n \in Nat
    BY DEF RecordAssumption
  <2>2. Data(n) \in Tasks /\ Allowed(Data(n)) /\ Waits(Data(n))
    BY <2>1, TasksTyped
  <2>3. /\ queue' = Append(queue, Data(n)) /\ UNCHANGED <<send, wire, finished>>
        /\ closedLocally' \in BOOLEAN
    BY <1>1, <1>4 DEF Write
  <2> QED
    BY <2>2, <2>3, EnqueueKeeps
<1>5. CASE UpdateKeys
  BY <1>1, <1>5, TasksTyped, EnqueueKeeps DEF UpdateKeys
<1>6. ASSUME NEW c \in Callers, Close(c) PROVE WInv'
  BY <1>6, TasksTyped, EnqueueKeeps DEF Close
<1>7. CASE Emit
  BY <1>7, EmitKeeps
<1>8. CASE Conclude
  BY <1>8, ConcludeKeeps
<1>9. ASSUME NEW why, NEW alerting \in BOOLEAN, Fail(why, alerting) PROVE WInv'
  <2>1. /\ queue' = (IF alerting /\ ~closedLocally THEN Append(queue, FatalAlert) ELSE queue)
        /\ UNCHANGED <<send, wire, finished>> /\ closedLocally' \in BOOLEAN
    BY <1>1, <1>9 DEF Fail
  <2> QED
    BY <1>3, <2>1, TasksTyped, EnqueueKeeps
<1>10. CASE OnKeyUpdate
  <2>1. /\ queue' = Append(queue, KeyUpdate) \/ queue' = queue
        /\ UNCHANGED <<send, wire, finished, closedLocally>>
    BY <1>10 DEF OnKeyUpdate
  <2> QED
    BY <1>1, <1>3, <2>1, TasksTyped, EnqueueKeeps
<1>11. CASE OnData \/ OnEmpty \/ OnWarning \/ OnTicket \/ OnBadTicket \/ OnCloseNotify
  BY <1>2, <1>11 DEF OnData, OnEmpty, OnWarning, OnTicket, OnBadTicket, OnCloseNotify
<1>12. CASE OnFatalAlert \/ OnIllegal \/ OnUnopenable \/ OnEof
  BY <1>9, <1>12 DEF OnFatalAlert, OnIllegal, OnUnopenable, OnEof, EndOfInput
<1>13. CASE Pull \/ Cancel \/ PeerLeaves \/ PeerStopsReading \/ UNCHANGED vars
  BY <1>1, <1>2, <1>3, <1>13 DEF Pull, Cancel, PeerLeaves, PeerStopsReading, vars
<1>14. ASSUME NEW k \in Kinds, NEW b \in BOOLEAN, PeerSend(k, b) PROVE WInv'
  BY <1>2, <1>14 DEF PeerSend
<1>15. ASSUME NEW c \in Callers, GraceExpires(c) PROVE WInv'
  BY <1>1, <1>3, <1>15 DEF GraceExpires
<1> QED
  BY <1>4, <1>5, <1>6, <1>7, <1>8, <1>10, <1>11, <1>12, <1>13, <1>14, <1>15
     DEF Step, Local, Environment, Receive

\* The first record has number 0 of epoch 0.
LEMMA WriteInit == ASSUME Init PROVE WInv
PROOF
<1>1. Len(<<>>) = 0 /\ <<>> \in Seq(Tasks) /\ <<>> \in Seq(Written)
  OBVIOUS
<1>2. UpdatesIn(wire, 1) = {}
  BY DEF UpdatesIn
<1>3. Keyed(wire, send, 1)
  <2>1. send.epoch = 0 /\ send.seq = 0 /\ 0 = 1 - 1 - 0
    BY DEF Init, Fresh
  <2>2. Cardinality(UpdatesIn(wire, 1)) = 0
    BY <1>2, FS_EmptySet
  <2> QED
    BY <1>2, <2>1, <2>2 DEF Keyed
<1>4. WTypeOK
  BY <1>1 DEF Init, Fresh, WTypeOK, Numbers
<1> QED
  BY <1>1, <1>3, <1>4 DEF Init, WInv, Queued, Done

(***************************************************************************)
(* The peer can open every record we write: epochs follow our KeyUpdates,  *)
(* numbers follow one another, never reach the limit and start again with  *)
(* each epoch, and nothing comes after an alert, in whatever order writes, *)
(* key updates, answers and shutdowns are queued; and a record of the peer *)
(* fails to open only if the transport corrupted one (src/tls/record.js).  *)
(***************************************************************************)
THEOREM RecordKeysInStep == Spec => []KeysInStep
PROOF
<1>1. Init => RInv /\ WInv
  BY ReadInit, WriteInit
<1>2. RInv /\ WInv /\ [Step]_vars => RInv' /\ WInv'
  BY ReadStep, WriteStep, RecordAssumption
<1>3. RInv /\ WInv => KeysInStep
  <2> SUFFICES ASSUME RInv, WInv PROVE KeysInStep
    OBVIOUS
  <2>1. wire \in Seq(Written) /\ Len(wire) \in Nat /\ DOMAIN wire = 1..Len(wire)
    BY LenProperties DEF WInv, WTypeOK
  <2>2. ASSUME NEW i \in 1..Len(wire)
        PROVE  /\ wire[i].epoch = Cardinality(UpdatesBefore(i))
               /\ wire[i].seq = i - 1 - Max({0} \union UpdatesBefore(i))
               /\ wire[i].seq < MaxSeq
               /\ wire[i].kind = "alert" => i = Len(wire)
    <3>1. UpdatesBefore(i) = UpdatesIn(wire, i)
      BY DEF UpdatesBefore, UpdatesIn
    <3>2. Keyed(wire, wire[i], i) /\ wire[i].seq < MaxSeq
      BY DEF WInv
    <3>3. PICK m \in {0} \union UpdatesIn(wire, i) :
            /\ \A j \in UpdatesIn(wire, i) : j <= m
            /\ wire[i].seq = i - 1 - m
      BY <3>2 DEF Keyed
    <3>4. UpdatesIn(wire, i) \in SUBSET Nat
      BY <2>1, UpdatesFinite
    <3>5. /\ {0} \union UpdatesIn(wire, i) \in SUBSET Nat
          /\ \A j \in {0} \union UpdatesIn(wire, i) : j <= m
      BY <3>3, <3>4
    <3>6. Max({0} \union UpdatesIn(wire, i)) = m
      BY <3>5, MaxIs
    <3>7. wire[i].epoch = Cardinality(UpdatesIn(wire, i))
      BY <3>2 DEF Keyed
    <3>8. wire[i].kind = "alert" => i = Len(wire)
      BY DEF WInv
    <3> QED
      BY <3>1, <3>2, <3>3, <3>6, <3>7, <3>8
  <2>3. Readable
    BY <2>1, <2>2 DEF Readable
  <2> QED
    BY <2>3 DEF KeysInStep, RInv, Ended
<1> QED
  BY <1>1, <1>2, <1>3, PTL DEF Spec
=============================================================================
