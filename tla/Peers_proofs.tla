---------------------------- MODULE Peers_proofs ----------------------------
(***************************************************************************)
(* Whom the client connects to (Dial), whom it believes (Trust) and where  *)
(* it goes next and what it tells them there (Browsing).  The three        *)
(* specifications share nothing but their proof module: each part below is *)
(* about one of them.                                                      *)
(***************************************************************************)
EXTENDS Dial, Trust, Browsing, SequenceTheorems, FiniteSetTheorems, WellFoundedInduction, TLAPS

-----------------------------------------------------------------------------
(***************************************************************************)
(* Dial, for every set of calls, timers and events, and however many bytes *)
(* the far side sends.                                                     *)
(***************************************************************************)

(***************************************************************************)
(* The strengthening.  A socket exists once the dialer has called          *)
(* connect(); a dialer that is done never acts again, so whoever took the  *)
(* tunnel from it alone closes it; and a call fails while its dialer runs  *)
(* only together with it.                                                  *)
(***************************************************************************)
Ended == {"done", "failed"}
Shut == {"none", "closed"}

DInv ==
  /\ dialer = "start" => socket = "none"
  /\ dialer = "failed" => socket \in Shut
  /\ owner = "failed" => socket \in Shut /\ dialer \in Ended
  /\ owner \in {"handshaking", "returned"} => dialer = "done"

\* The dialer fails: it closes its socket, and so does the call that awaits it.
LEMMA DialerFailsKeeps ==
  ASSUME DInv, dialer \notin Ended, DialerFails
  PROVE  DInv'
PROOF
  BY DEF DInv, DialerFails, Refused, Ended, Shut

\* The dialer succeeds: no call that failed had been waiting for it.
LEMMA DialerDoneKeeps ==
  ASSUME DInv, dialer \notin Ended, dialer' = "done", Connected
  PROVE  DInv'
PROOF
  BY DEF DInv, Connected, Ended, Shut

\* Every step of openTunnel.
LEMMA DialerStepKeeps ==
  ASSUME DInv, DialerStep
  PROVE  DInv'
PROOF
<1>1. CASE Open
  BY <1>1 DEF Open, Refused, DInv, Ended, Shut
<1>2. CASE Opened
  <2>1. dialer \notin Ended
    BY <1>2 DEF Opened, Ended
  <2>2. CASE dialer' = "done" /\ Connected
    BY <2>1, <2>2, DialerDoneKeeps
  <2>3. CASE DialerFails
    BY <2>1, <2>3, DialerFailsKeeps
  <2>4. CASE dialer' \in {"reply", "greet"} /\ UNCHANGED owner
    BY <2>1, <2>4 DEF DInv, Ended
  <2> QED
    BY <1>2, <2>2, <2>3, <2>4 DEF Opened
<1>3. CASE Fill
  BY <1>3 DEF Fill, DInv
<1>4. CASE Answered
  <2> DEFINE place == Dialogue(dialer, Head(buffer)[1])
  <2>1. dialer \notin Ended
    BY <1>4 DEF Answered, Waiting, Ended
  <2>2. place \in {"done", "failed", "request", "auth", "address", "refused"}
    BY DEF Dialogue
  <2>3. CASE place = "done"
    <3>1. DialerDone
      BY <1>4, <2>3 DEF Answered
    <3> QED
      BY <2>1, <3>1, DialerDoneKeeps DEF DialerDone
  <2>4. CASE place = "failed"
    <3>1. DialerFails
      BY <1>4, <2>4 DEF Answered
    <3> QED
      BY <2>1, <3>1, DialerFailsKeeps
  <2>5. CASE place \notin Ended
    <3>1. dialer' = place /\ owner' = owner /\ socket' = socket
      BY <1>4, <2>5 DEF Answered, Ended
    <3> HIDE DEF place
    <3> QED
      BY <2>1, <2>2, <2>5, <3>1 DEF DInv, Ended
  <2> QED
    BY <2>3, <2>4, <2>5 DEF Ended
<1>5. CASE CutOff
  <2>1. dialer \notin Ended
    BY <1>5 DEF CutOff, Waiting, Ended
  <2> QED
    BY <1>5, <2>1, DialerFailsKeeps DEF CutOff
<1> QED
  BY <1>1, <1>2, <1>3, <1>4, <1>5 DEF DialerStep

\* The deadlines and the handshake close a tunnel only when they own it.
LEMMA OwnerStepKeeps ==
  ASSUME DInv, Abort \/ Handshake
  PROVE  DInv'
PROOF
<1>1. CASE Abort
  BY <1>1 DEF Abort, DInv, Ended, Shut
<1>2. CASE Handshake
  BY <1>2 DEF Handshake, DInv, Ended, Shut
<1> QED
  BY <1>1, <1>2

-----------------------------------------------------------------------------
\* A dial that fails holds no socket (openConnection in transport.js, and the catch of
\* every dialer in proxy/).
THEOREM DialFailureCloses == DialSpec => []FailureCloses
PROOF
<1>1. DialInit => DInv
  BY DEF DialInit, DInv
<1>2. DInv /\ [DialNext]_dialVars => DInv'
  <2> SUFFICES ASSUME DInv, [DialNext]_dialVars PROVE DInv'
    OBVIOUS
  <2>1. CASE DialerStep
    BY <2>1, DialerStepKeeps
  <2>2. CASE (\E timer \in Timers : Fire(timer)) \/ AbortFromOuter \/ Handshake
    BY <2>2, OwnerStepKeeps DEF Fire, AbortFromOuter
  <2>3. CASE ReadTunnel \/ Far
    BY <2>3 DEF ReadTunnel, Far, FarAnswers, FarSends, FarHangsUp, DInv
  <2>4. CASE UNCHANGED dialVars
    BY <2>4 DEF dialVars, controllerVars, farVars, readVars, DInv
  <2> QED
    BY <2>1, <2>2, <2>3, <2>4 DEF DialNext
<1>3. DInv => FailureCloses
  BY DEF DInv, FailureCloses, Shut
<1> QED
  BY <1>1, <1>2, <1>3, PTL DEF DialSpec

-----------------------------------------------------------------------------
(***************************************************************************)
(* The tunnel's bytes.  What was sent and not yet read, in the reader or   *)
(* before it, is at every place of the dialogue the rest of one answer     *)
(* followed by the first bytes of the tunnel.  An answer is owed only      *)
(* while nothing is pending, so bytes can precede no answer; and the       *)
(* socket is read directly only when the reader holds nothing.             *)
(***************************************************************************)
Words == {"ok", "refused", "none", "userpass", "bad", "address", "data"}
Token == Words \X Nat
Tokens == Seq(Token)
Data(n) == [i \in 1..n |-> <<"data", i>>]
Word(w) == <<<<w, 0>>>>
Pending == buffer \o inbound

TInv ==
  /\ sent \in Nat /\ buffer \in Tokens /\ inbound \in Tokens /\ received \in Tokens
  /\ dialer # "done" => received = <<>>
  /\ dialer = "done" => ~asked /\ received \o Pending = Data(sent)
  /\ asked =>
       \/ dialer \in {"reply", "greet", "auth", "request"} /\ Pending = <<>> /\ sent = 0
       \/ dialer = "failed" /\ hungUp
  /\ dialer \in {"start", "opening"} => Pending = <<>> /\ sent = 0
  /\ dialer = "reply" =>
       \/ Pending = <<>> /\ sent = 0
       \/ Pending \in {Word(w) \o Data(sent) : w \in {"ok", "refused"}}
  /\ dialer \in {"greet", "auth"} =>
       sent = 0 /\ (Pending = <<>> \/ Pending \in {Word(w) : w \in Words})
  /\ dialer = "request" =>
       \/ Pending = <<>> /\ sent = 0
       \/ Pending = Word("bad")
       \/ Pending \in {Word(w) \o (Word("address") \o Data(sent)) : w \in {"ok", "refused"}}
  /\ dialer = "address" => Pending = Word("address") \o Data(sent)
  /\ mode.proxy = "direct" => buffer = <<>> /\ ~Waiting
  /\ promoted => dialer = "done" /\ buffer = <<>>

\* The bytes of the tunnel are tokens, and one more extends them.
LEMMA DataFacts ==
  ASSUME NEW n \in Nat
  PROVE  /\ Data(n) \in Tokens
         /\ <<"data", n + 1>> \in Token
         /\ Append(Data(n), <<"data", n + 1>>) = Data(n + 1)
         /\ Data(0) = <<>>
PROOF
<1>1. \A i \in Nat : <<"data", i>> \in Token
  BY DEF Token, Words
<1>2. ASSUME NEW m \in Nat
      PROVE  Data(m) \in Tokens /\ Len(Data(m)) = m /\ \A i \in 1..m : Data(m)[i] = <<"data", i>>
  <2>1. Data(m) \in [1..m -> Token]
    BY <1>1 DEF Data
  <2>2. Data(m) \in Seq(Token)
    BY <2>1, SeqDef
  <2>3. DOMAIN Data(m) = 1..m /\ \A i \in 1..m : Data(m)[i] = <<"data", i>>
    BY DEF Data
  <2> QED
    BY <2>2, <2>3, LenProperties DEF Tokens
<1>3. Append(Data(n), <<"data", n + 1>>) = Data(n + 1)
  <2> DEFINE s == Data(n)
             t == Data(n + 1)
             x == <<"data", n + 1>>
  <2>1. s \in Seq(Token) /\ t \in Seq(Token) /\ Len(s) = n /\ Len(t) = n + 1
    BY <1>2 DEF Tokens
  <2>2. x \in Token /\ t[n + 1] = x /\ \A i \in 1..n : t[i] = s[i]
    BY <1>1, <1>2
  <2> HIDE DEF s, t, x
  <2>3. /\ Append(s, x) \in Seq(Token) /\ Len(Append(s, x)) = n + 1
        /\ \A i \in 1..(n + 1) : Append(s, x)[i] = t[i]
    BY <2>1, <2>2
  <2>4. Append(s, x) = t
    BY <2>1, <2>3, SeqEqual
  <2> QED
    BY <2>4 DEF s, t, x
<1>4. Data(0) = <<>>
  BY DEF Data
<1> QED
  BY <1>1, <1>2, <1>3, <1>4

\* Reading a prefix moves it, and changes nothing of the whole (Fill, ReadTunnel).
LEMMA SplitFacts ==
  ASSUME NEW S, NEW s \in Seq(S), NEW n \in 1..Len(s)
  PROVE  /\ SubSeq(s, 1, n) \in Seq(S) /\ SubSeq(s, n + 1, Len(s)) \in Seq(S)
         /\ SubSeq(s, 1, n) \o SubSeq(s, n + 1, Len(s)) = s
PROOF
<1> DEFINE front == SubSeq(s, 1, n)
           back == SubSeq(s, n + 1, Len(s))
<1>0. Len(s) \in Nat /\ \A i \in 1..Len(s) : s[i] \in S
  OBVIOUS
<1>1. /\ front \in Seq(S) /\ Len(front) = n
      /\ \A i \in 1..n : front[i] = s[i]
  <2>1. n \in Int /\ 1 <= n /\ \A i \in 1..n : s[i] \in S
    BY <1>0
  <2>2. /\ front \in Seq(S) /\ Len(front) = IF 1 <= n THEN n - 1 + 1 ELSE 0
        /\ \A i \in 1..(n - 1 + 1) : front[i] = s[1 + i - 1]
    BY <2>1, SubSeqProperties
  <2> QED
    BY <2>1, <2>2
<1>2. /\ back \in Seq(S) /\ Len(back) = Len(s) - n
      /\ \A i \in 1..(Len(s) - n) : back[i] = s[n + i]
  <2>1. /\ n + 1 \in Int /\ Len(s) \in Int /\ n <= Len(s)
        /\ \A i \in (n + 1)..Len(s) : s[i] \in S
    BY <1>0
  <2>2. /\ back \in Seq(S) /\ Len(back) = IF n + 1 <= Len(s) THEN Len(s) - (n + 1) + 1 ELSE 0
        /\ \A i \in 1..(Len(s) - (n + 1) + 1) : back[i] = s[(n + 1) + i - 1]
    BY <2>1, SubSeqProperties
  <2> QED
    BY <1>0, <2>1, <2>2
<1> HIDE DEF front, back
<1>3. /\ front \o back \in Seq(S) /\ Len(front \o back) = Len(s)
      /\ \A i \in 1..Len(s) : (front \o back)[i] = s[i]
  <2>1. /\ front \o back \in Seq(S)
        /\ Len(front \o back) = Len(front) + Len(back)
        /\ \A i \in 1..(Len(front) + Len(back)) :
             (front \o back)[i] = IF i <= Len(front) THEN front[i] ELSE back[i - Len(front)]
    BY <1>1, <1>2, ConcatProperties
  <2>2. Len(front) + Len(back) = Len(s)
    BY <1>0, <1>1, <1>2
  <2>3. ASSUME NEW i \in 1..Len(s) PROVE (front \o back)[i] = s[i]
    <3>0. (front \o back)[i] = IF i <= n THEN front[i] ELSE back[i - n]
      BY <1>1, <2>1, <2>2
    <3>1. CASE i <= n
      BY <1>0, <1>1, <3>0, <3>1
    <3>2. CASE ~(i <= n)
      <4>1. i - n \in 1..(Len(s) - n) /\ n + (i - n) = i
        BY <1>0, <3>2
      <4>2. back[i - n] = s[n + (i - n)]
        BY <1>2, <4>1
      <4> QED
        BY <3>0, <3>2, <4>1, <4>2
    <3> QED
      BY <3>1, <3>2
  <2> QED
    BY <2>1, <2>2, <2>3
<1>4. front \o back = s
  BY <1>3, SeqEqual
<1> QED
  BY <1>1, <1>2, <1>4 DEF front, back

\* Taking the first token of the reader takes it from what is pending (Answered).
LEMMA TakeFirst ==
  ASSUME NEW S, NEW s \in Seq(S), NEW t \in Seq(S), s # <<>>
  PROVE  /\ Tail(s) \in Seq(S) /\ Tail(s) \o t = Tail(s \o t) /\ Head(s) = Head(s \o t)
         /\ s \o t # <<>>
PROOF
  OBVIOUS

\* The first word of an answer, and what follows it.
LEMMA WordFacts ==
  ASSUME NEW w \in Words, NEW s \in Tokens
  PROVE  /\ Word(w) \in Tokens /\ Word(w) # <<>>
         /\ Head(Word(w)) = <<w, 0>> /\ Tail(Word(w)) = <<>>
         /\ Word(w) \o s \in Tokens
         /\ Head(Word(w) \o s) = <<w, 0>> /\ Tail(Word(w) \o s) = s
PROOF
<1> DEFINE x == <<w, 0>>
<1>1. x \in Token
  BY DEF Token
<1> HIDE DEF x
<1>2. /\ <<x>> \in Tokens /\ <<x>> # <<>> /\ Head(<<x>>) = x /\ Tail(<<x>>) = <<>>
      /\ <<x>> \o s \in Tokens /\ Head(<<x>> \o s) = x
  BY <1>1 DEF Tokens
<1>3. Tail(<<x>> \o s) = s
  BY <1>1 DEF Tokens
<1> QED
  BY <1>2, <1>3 DEF x, Word

\* Joining tokens, in the two forms that the steps use.
LEMMA Regroup ==
  ASSUME NEW s \in Tokens, NEW t \in Tokens, NEW u \in Tokens
  PROVE  (s \o t) \o u = s \o (t \o u) /\ t \o u \in Tokens
PROOF
  BY ConcatAssociative, ConcatProperties DEF Tokens

\* To append to the second of two joined parts is to append to the whole.
LEMMA AppendAtEnd ==
  ASSUME NEW s \in Tokens, NEW t \in Tokens, NEW x \in Token
  PROVE  s \o Append(t, x) = Append(s \o t, x)
PROOF
  BY DEF Tokens

\* What concerns the tunnel's bytes.
byteVars == <<mode, dialer, asked, hungUp, inbound, sent, buffer, received, promoted>>

\* A step that leaves the bytes in flight alone keeps the facts about them.
LEMMA BytesUntouched ==
  ASSUME TInv, UNCHANGED byteVars
  PROVE  TInv'
PROOF
  BY DEF TInv, byteVars, Pending, Waiting

\* A dialer that fails has delivered nothing.
LEMMA FailedDeliversNothing ==
  ASSUME TInv, dialer # "done", dialer' = "failed", asked => hungUp,
         UNCHANGED <<mode, asked, hungUp, sent, inbound, received, promoted>>,
         buffer' \in Tokens, mode.proxy = "direct" => buffer' = <<>>
  PROVE  TInv'
PROOF
  BY DEF TInv, Waiting

\* connect() and what becomes of it: nothing is pending yet.
LEMMA OpenBytes ==
  ASSUME TInv, Open \/ Opened
  PROVE  TInv'
PROOF
<1>1. /\ dialer \in {"start", "opening"} /\ Pending = <<>> /\ sent = 0 /\ received = <<>>
      /\ ~asked /\ ~promoted
      /\ buffer \in Tokens /\ inbound \in Tokens /\ (mode.proxy = "direct" => buffer = <<>>)
  BY DEF TInv, Open, Opened
<1>2. UNCHANGED <<mode, hungUp, sent, inbound, received, promoted, buffer>> /\ Pending' = Pending
  BY DEF Open, Opened, farVars, readVars, Pending
<1>3. CASE Open
  <2>1. dialer' \in {"opening", "failed"} /\ asked' = asked
    BY <1>3 DEF Open, farVars
  <2> QED
    BY <1>1, <1>2, <2>1 DEF TInv, Waiting
<1>4. CASE Opened
  <2>1. CASE mode.proxy = "direct" /\ dialer' = "done" /\ asked' = asked
    <3>1. received' \o Pending' = Data(sent')
      BY <1>1, <1>2, DataFacts, ConcatEmptySeq, EmptySeq
    <3> QED
      BY <1>1, <1>2, <2>1, <3>1 DEF TInv, Waiting
  <2>2. CASE mode.proxy # "direct" /\ dialer' \in {"reply", "greet"} /\ asked'
    BY <1>1, <1>2, <2>2 DEF TInv, Waiting
  <2>3. CASE dialer' = "failed" /\ asked' = asked
    BY <1>1, <1>2, <2>3, FailedDeliversNothing
  <2> QED
    BY <1>4, <2>1, <2>2, <2>3 DEF Opened, DialerFails
<1> QED
  BY <1>3, <1>4

\* Filling the reader moves bytes from one side of it to the other.
LEMMA FillBytes ==
  ASSUME TInv, Fill
  PROVE  TInv'
PROOF
<1>1. PICK n \in 1..Len(inbound) :
        /\ buffer' = SubSeq(inbound, 1, n)
        /\ inbound' = SubSeq(inbound, n + 1, Len(inbound))
  BY DEF Fill
<1>2. /\ Waiting /\ buffer = <<>> /\ inbound \in Tokens
      /\ UNCHANGED <<mode, dialer, asked, hungUp, sent, received, promoted>>
  BY DEF Fill, TInv
<1>3. buffer' \in Tokens /\ inbound' \in Tokens /\ buffer' \o inbound' = inbound
  BY <1>1, <1>2, SplitFacts DEF Tokens
<1>4. Pending' = Pending
  BY <1>2, <1>3, ConcatEmptySeq DEF Pending, Tokens
<1>5. mode.proxy # "direct" /\ dialer # "done"
  BY <1>2 DEF TInv, Waiting
<1>6. Waiting' = Waiting
  BY <1>2 DEF Waiting
<1> QED
  BY <1>2, <1>3, <1>4, <1>5, <1>6 DEF TInv

\* The dialer reads one token and goes to the place that Dialogue names.
LEMMA AnsweredBytes ==
  ASSUME TInv, Answered
  PROVE  TInv'
PROOF
<1> DEFINE word == Head(buffer)[1]
           place == Dialogue(dialer, word)
<1>1. /\ Waiting /\ buffer # <<>> /\ buffer' = Tail(buffer)
      /\ UNCHANGED <<mode, inbound, hungUp, sent, promoted, received>>
  BY DEF Answered
<1>2. /\ buffer \in Tokens /\ inbound \in Tokens /\ sent \in Nat
      /\ dialer # "done" /\ received = <<>> /\ ~promoted /\ mode.proxy # "direct"
  BY <1>1 DEF TInv, Waiting
<1>3. /\ buffer' \in Tokens /\ Pending' = Tail(Pending)
      /\ Pending # <<>> /\ word = Head(Pending)[1]
  BY <1>1, <1>2, TakeFirst DEF Tokens, Pending
<1>4. ~asked
  BY <1>1, <1>3 DEF TInv, Waiting
<1>5. place \in {"done", "failed", "request", "auth", "address", "refused"}
  BY DEF Dialogue
<1>6. CASE place = "done"
  <2>1. /\ dialer' = "done" /\ asked' = asked
        /\ \/ dialer = "reply" /\ word = "ok"
           \/ dialer = "address" /\ word = "address"
    BY <1>1, <1>6 DEF Answered, DialerDone, Dialogue, Waiting
  <2>2. PICK w \in Words : Pending = Word(w) \o Data(sent)
    BY <1>3, <2>1 DEF TInv, Words
  <2>3. Pending' = Data(sent) /\ Data(sent) \in Tokens
    BY <1>2, <1>3, <2>2, WordFacts, DataFacts
  <2>4. received' \o Pending' = Data(sent')
    BY <1>1, <1>2, <2>3, ConcatEmptySeq DEF Tokens
  <2>5. received' \in Tokens
    BY <1>1 DEF TInv
  <2> QED
    BY <1>1, <1>2, <1>3, <1>4, <2>1, <2>4, <2>5 DEF TInv, Waiting
<1>7. CASE place = "failed"
  <2>1. dialer' = "failed" /\ asked' = asked
    BY <1>7 DEF Answered, DialerFails
  <2> QED
    BY <1>1, <1>2, <1>3, <1>4, <2>1, FailedDeliversNothing
<1>8. CASE place \in {"auth", "request"}
  <2>1. dialer' = place /\ asked' = TRUE /\ dialer \in {"greet", "auth"}
    BY <1>1, <1>8 DEF Answered, Dialogue, Waiting
  <2>2. sent = 0 /\ \E w \in Words : Pending = Word(w)
    BY <1>3, <2>1 DEF TInv
  <2>3. Pending' = <<>>
    BY <1>3, <2>2, WordFacts, EmptySeq DEF Tokens
  <2> QED
    BY <1>1, <1>2, <1>3, <1>8, <2>1, <2>2, <2>3 DEF TInv, Waiting
<1>9. CASE place = "address"
  <2>1. dialer' = "address" /\ ~asked' /\ dialer = "request" /\ word = "ok"
    BY <1>1, <1>9 DEF Answered, Dialogue, Waiting
  <2>2. Word("address") \o Data(sent) \in Tokens
    BY <1>2, DataFacts, WordFacts DEF Words
  <2>3. Pending # Word("bad")
    <3>1. Head(Word("bad")) = <<"bad", 0>>
      BY <2>2, WordFacts DEF Words
    <3> QED
      BY <1>3, <2>1, <3>1
  <2>4. PICK w \in Words : Pending = Word(w) \o (Word("address") \o Data(sent))
    BY <1>3, <2>1, <2>3 DEF TInv, Words
  <2>5. Pending' = Word("address") \o Data(sent')
    BY <1>1, <1>3, <2>2, <2>4, WordFacts
  <2> QED
    BY <1>1, <1>2, <1>3, <2>1, <2>5 DEF TInv, Waiting
<1>10. CASE place = "refused"
  <2>1. dialer' = "refused" /\ ~asked'
    BY <1>10 DEF Answered
  <2> QED
    BY <1>1, <1>2, <1>3, <2>1 DEF TInv, Waiting
<1> QED
  BY <1>5, <1>6, <1>7, <1>8, <1>9, <1>10

\* The far side hangs up in the middle of the dialogue.
LEMMA CutOffBytes ==
  ASSUME TInv, CutOff
  PROVE  TInv'
PROOF
<1>1. /\ Waiting /\ hungUp /\ dialer' = "failed"
      /\ UNCHANGED <<mode, asked, hungUp, inbound, sent, buffer, received, promoted>>
  BY DEF CutOff, DialerFails, farVars, readVars
<1>2. dialer # "done" /\ buffer' \in Tokens /\ (mode.proxy = "direct" => buffer' = <<>>)
  BY <1>1 DEF TInv, Waiting
<1> QED
  BY <1>1, <1>2, FailedDeliversNothing

\* Reading the tunnel moves its bytes to the reader of the connection.
LEMMA ReadTunnelBytes ==
  ASSUME TInv, DInv, ReadTunnel
  PROVE  TInv'
PROOF
<1>1. /\ dialer = "done"
      /\ UNCHANGED <<mode, dialer, asked, hungUp, sent>>
  BY DEF ReadTunnel, DInv
<1>2. /\ buffer \in Tokens /\ inbound \in Tokens /\ received \in Tokens /\ sent \in Nat
      /\ ~asked /\ received \o (buffer \o inbound) = Data(sent)
  BY <1>1 DEF TInv, Pending
<1>3. CASE Promote /\ \E n \in 1..Len(inbound) :
              /\ received' = received \o SubSeq(inbound, 1, n)
              /\ inbound' = SubSeq(inbound, n + 1, Len(inbound))
              /\ promoted' = (mode.proxy # "direct") /\ buffer' = buffer
  <2>1. PICK n \in 1..Len(inbound) :
          /\ received' = received \o SubSeq(inbound, 1, n)
          /\ inbound' = SubSeq(inbound, n + 1, Len(inbound))
    BY <1>3
  <2>2. buffer = <<>> /\ buffer' = <<>>
    BY <1>3 DEF Promote, TInv
  <2> DEFINE front == SubSeq(inbound, 1, n)
             back == SubSeq(inbound, n + 1, Len(inbound))
  <2>3. front \in Tokens /\ back \in Tokens /\ front \o back = inbound
    BY <1>2, SplitFacts DEF Tokens
  <2>4. received' = received \o front /\ inbound' = back
    BY <2>1
  <2> HIDE DEF front, back
  <2>5. received' \in Tokens /\ inbound' \in Tokens
    BY <1>2, <2>3, <2>4 DEF Tokens
  <2>6. (received \o front) \o back = received \o inbound
    BY <1>2, <2>3, Regroup
  <2>7. received' \o Pending' = Data(sent')
    BY <1>1, <1>2, <2>2, <2>3, <2>4, <2>6, ConcatEmptySeq DEF Pending, Tokens
  <2> QED
    BY <1>1, <1>2, <2>2, <2>5, <2>7 DEF TInv, Waiting
<1>4. CASE ~Promote /\ UNCHANGED <<inbound, promoted>> /\ \E n \in 1..Len(buffer) :
              /\ received' = received \o SubSeq(buffer, 1, n)
              /\ buffer' = SubSeq(buffer, n + 1, Len(buffer))
  <2>1. PICK n \in 1..Len(buffer) :
          /\ received' = received \o SubSeq(buffer, 1, n)
          /\ buffer' = SubSeq(buffer, n + 1, Len(buffer))
    BY <1>4
  <2>2. mode.proxy # "direct" /\ ~promoted /\ ~promoted' /\ inbound' = inbound
    BY <1>4 DEF Promote
  <2> DEFINE front == SubSeq(buffer, 1, n)
             back == SubSeq(buffer, n + 1, Len(buffer))
  <2>3. front \in Tokens /\ back \in Tokens /\ front \o back = buffer
    BY <1>2, SplitFacts DEF Tokens
  <2>4. received' = received \o front /\ buffer' = back
    BY <2>1
  <2> HIDE DEF front, back
  <2>5. received' \in Tokens /\ buffer' \in Tokens
    BY <1>2, <2>3, <2>4 DEF Tokens
  <2>6. (received \o front) \o (back \o inbound) = received \o ((front \o back) \o inbound)
    <3>1. back \o inbound \in Tokens /\ (front \o back) \o inbound = front \o (back \o inbound)
      <4>1. front \in Tokens /\ back \in Tokens /\ inbound \in Tokens
        BY <1>2, <2>3
      <4> QED
        BY <4>1, Regroup
    <3>2. (received \o front) \o (back \o inbound) = received \o (front \o (back \o inbound))
      BY <1>2, <2>3, <3>1, Regroup
    <3> QED
      BY <3>1, <3>2
  <2>7. received' \o Pending' = Data(sent')
    BY <1>1, <1>2, <2>2, <2>3, <2>4, <2>6 DEF Pending
  <2> QED
    BY <1>1, <1>2, <2>2, <2>5, <2>7 DEF TInv, Waiting
<1> QED
  BY <1>3, <1>4 DEF ReadTunnel

\* A proxy's answer, which may bring the tunnel's first bytes with it.
LEMMA FarAnswersBytes ==
  ASSUME TInv, FarAnswers
  PROVE  TInv'
PROOF
<1>1. /\ asked /\ ~hungUp /\ ~asked'
      /\ UNCHANGED <<mode, dialer, hungUp, buffer, received, promoted>>
  BY DEF FarAnswers, readVars
<1>2. /\ dialer \in {"reply", "greet", "auth", "request"} /\ Pending = <<>>
      /\ buffer \in Tokens /\ inbound \in Tokens /\ received = <<>> /\ ~promoted
      /\ mode.proxy # "direct"
  BY <1>1 DEF TInv, Waiting
<1>3. buffer = <<>>
  BY <1>2, ConcatEqualIffEmpty DEF Pending, Tokens
<1>4. PICK answer \in Replies[dialer] : \E n \in 0..(IF answer = "ok" /\ dialer # "auth" THEN Bytes ELSE 0) :
        /\ sent' = n
        /\ inbound' = <<<<answer, 0>>>>
             \o (IF dialer = "request" /\ answer # "bad" THEN <<<<"address", 0>>>> ELSE <<>>)
             \o [i \in 1..n |-> <<"data", i>>]
  BY DEF FarAnswers
<1>5. PICK n \in 0..(IF answer = "ok" /\ dialer # "auth" THEN Bytes ELSE 0) :
        /\ sent' = n
        /\ inbound' = <<<<answer, 0>>>>
             \o (IF dialer = "request" /\ answer # "bad" THEN <<<<"address", 0>>>> ELSE <<>>)
             \o [i \in 1..n |-> <<"data", i>>]
  BY <1>4
<1>6. n \in Nat
  BY <1>5, DialAssumption DEF DialAssumption
<1>7. answer \in Words
  BY <1>2, <1>4 DEF Replies, Words
<1> DEFINE address == IF dialer = "request" /\ answer # "bad" THEN Word("address") ELSE <<>>
<1>8. inbound' = (Word(answer) \o address) \o Data(n)
  BY <1>5 DEF Word, Data
<1>9. /\ Word(answer) \in Tokens /\ Word("address") \in Tokens /\ Data(n) \in Tokens
      /\ <<>> \in Tokens /\ Data(0) = <<>>
  BY <1>6, <1>7, WordFacts, DataFacts, EmptySeq DEF Words, Tokens
<1>10. address \in Tokens
  BY <1>9
<1>11. inbound' = Word(answer) \o (address \o Data(n))
  <2> HIDE DEF address
  <2> QED
    BY <1>8, <1>9, <1>10, ConcatAssociative DEF Tokens
<1>12. inbound' \in Tokens /\ Pending' = inbound'
  <2>1. address \o Data(n) \in Tokens
    BY <1>9, <1>10 DEF Tokens
  <2>2. inbound' \in Tokens
    BY <1>9, <1>11, <2>1 DEF Tokens
  <2>3. Pending' = <<>> \o inbound'
    BY <1>1, <1>3 DEF Pending
  <2> QED
    BY <2>2, <2>3, ConcatEmptySeq DEF Tokens
<1>13. dialer = "reply" => Pending' \in {Word(w) \o Data(sent') : w \in {"ok", "refused"}}
  <2> SUFFICES ASSUME dialer = "reply" PROVE Pending' \in {Word(w) \o Data(sent') : w \in {"ok", "refused"}}
    OBVIOUS
  <2>1. address \o Data(n) = Data(n)
    BY <1>9, ConcatEmptySeq DEF Tokens
  <2>2. answer \in {"ok", "refused"}
    BY <1>4 DEF Replies
  <2> QED
    BY <1>5, <1>11, <1>12, <2>1, <2>2
<1>14. dialer \in {"greet", "auth"} => sent' = 0 /\ Pending' \in {Word(w) : w \in Words}
  <2> SUFFICES ASSUME dialer \in {"greet", "auth"} PROVE sent' = 0 /\ Pending' \in {Word(w) : w \in Words}
    OBVIOUS
  <2>1. n = 0
    BY <1>4, <1>5 DEF Replies
  <2>2. address \o Data(n) = <<>>
    BY <1>9, <2>1, ConcatEmptySeq DEF Tokens
  <2>3. Word(answer) \o <<>> = Word(answer)
    BY <1>9, ConcatEmptySeq DEF Tokens
  <2> QED
    BY <1>5, <1>7, <1>11, <1>12, <2>1, <2>2, <2>3
<1>15. dialer = "request" =>
         \/ Pending' = Word("bad")
         \/ Pending' \in {Word(w) \o (Word("address") \o Data(sent')) : w \in {"ok", "refused"}}
  <2>1. CASE dialer = "request" /\ answer = "bad"
    <3>1. n = 0
      BY <1>5, <2>1
    <3>2. address \o Data(n) = <<>>
      BY <1>9, <2>1, <3>1, ConcatEmptySeq DEF Tokens
    <3>3. Word(answer) \o <<>> = Word(answer)
      BY <1>9, ConcatEmptySeq DEF Tokens
    <3> QED
      BY <1>11, <1>12, <2>1, <3>2, <3>3
  <2>2. CASE dialer = "request" /\ answer # "bad"
    <3>1. answer \in {"ok", "refused"}
      BY <1>4, <2>2 DEF Replies
    <3> QED
      BY <1>5, <1>11, <1>12, <2>2, <3>1
  <2> QED
    BY <2>1, <2>2
<1> HIDE DEF address
<1>16. sent' \in Nat /\ received' \in Tokens
  BY <1>1, <1>5, <1>6 DEF TInv
<1> QED
  BY <1>1, <1>2, <1>3, <1>12, <1>13, <1>14, <1>15, <1>16 DEF TInv, Waiting

\* The far side sends one more byte, or closes.
LEMMA FarSendsBytes ==
  ASSUME TInv, FarSends \/ FarHangsUp
  PROVE  TInv'
PROOF
<1>1. CASE FarHangsUp
  <2>1. ~asked' /\ UNCHANGED <<mode, dialer, inbound, sent, buffer, received, promoted>>
    BY <1>1 DEF FarHangsUp, readVars
  <2> QED
    BY <2>1 DEF TInv, Pending, Waiting
<1>2. CASE FarSends
  <2> DEFINE x == <<"data", sent + 1>>
  <2>1. /\ dialer = "done" /\ sent' = sent + 1 /\ inbound' = Append(inbound, x)
        /\ UNCHANGED <<mode, dialer, asked, hungUp, buffer, received, promoted>>
    BY <1>2 DEF FarSends, readVars
  <2>2. /\ buffer \in Tokens /\ inbound \in Tokens /\ received \in Tokens /\ sent \in Nat
        /\ ~asked /\ received \o (buffer \o inbound) = Data(sent)
    BY <2>1 DEF TInv, Pending
  <2>3. x \in Token /\ Append(Data(sent), x) = Data(sent + 1)
    BY <2>2, DataFacts
  <2> HIDE DEF x
  <2>4. inbound' \in Tokens
    BY <2>1, <2>2, <2>3 DEF Tokens
  <2>5. received \o (buffer \o Append(inbound, x)) = Append(received \o (buffer \o inbound), x)
    <3>1. buffer \o Append(inbound, x) = Append(buffer \o inbound, x)
      BY <2>2, <2>3, AppendAtEnd
    <3>2. buffer \o inbound \in Tokens
      BY <2>2, Regroup
    <3>3. received \o Append(buffer \o inbound, x) = Append(received \o (buffer \o inbound), x)
      BY <2>2, <2>3, <3>2, AppendAtEnd
    <3> QED
      BY <3>1, <3>3
  <2>6. received' \o Pending' = Data(sent')
    BY <2>1, <2>2, <2>3, <2>5 DEF Pending
  <2> QED
    BY <2>1, <2>2, <2>4, <2>6 DEF TInv, Waiting
<1> QED
  BY <1>1, <1>2

-----------------------------------------------------------------------------
\* The tunnel is exactly the bytes sent through it, whichever of them came with the
\* proxy's last reply and however the reads fall (the ByteReader of proxy/, and the
\* reader handed on as tunnelReadable).
THEOREM DialTunnelExact == DialSpec => []TunnelExact
PROOF
<1>1. DialInit => DInv /\ TInv
  <2> SUFFICES ASSUME DialInit PROVE DInv /\ TInv
    OBVIOUS
  <2>1. DInv
    BY DEF DialInit, DInv
  <2>2. /\ dialer = "start" /\ ~asked /\ sent = 0 /\ ~promoted
        /\ buffer = <<>> /\ inbound = <<>> /\ received = <<>> /\ <<>> \in Tokens
    BY EmptySeq DEF DialInit, Tokens
  <2>3. Pending = <<>>
    BY <2>2, ConcatEmptySeq DEF Pending, Tokens
  <2> QED
    BY <2>1, <2>2, <2>3 DEF TInv, Waiting
<1>2. DInv /\ TInv /\ [DialNext]_dialVars => DInv' /\ TInv'
  <2> SUFFICES ASSUME DInv, TInv, [DialNext]_dialVars PROVE DInv' /\ TInv'
    OBVIOUS
  <2>1. CASE DialerStep
    BY <2>1, DialerStepKeeps, OpenBytes, FillBytes, AnsweredBytes, CutOffBytes DEF DialerStep
  <2>2. CASE (\E timer \in Timers : Fire(timer)) \/ AbortFromOuter \/ Handshake
    <3>1. Abort \/ Handshake
      BY <2>2 DEF Fire, AbortFromOuter
    <3>2. UNCHANGED byteVars
      BY <3>1 DEF Abort, Handshake, byteVars, farVars, readVars
    <3> QED
      BY <3>1, <3>2, OwnerStepKeeps, BytesUntouched
  <2>3. CASE ReadTunnel \/ Far
    <3>1. DInv'
      BY <2>3 DEF ReadTunnel, Far, FarAnswers, FarSends, FarHangsUp, DInv
    <3>2. TInv'
      BY <2>3, ReadTunnelBytes, FarAnswersBytes, FarSendsBytes DEF Far
    <3> QED
      BY <3>1, <3>2
  <2>4. CASE UNCHANGED dialVars
    <3>1. DInv'
      BY <2>4 DEF dialVars, controllerVars, farVars, readVars, DInv
    <3>2. UNCHANGED byteVars
      BY <2>4 DEF dialVars, controllerVars, farVars, readVars, byteVars
    <3> QED
      BY <3>1, <3>2, BytesUntouched
  <2> QED
    BY <2>1, <2>2, <2>3, <2>4 DEF DialNext
<1>3. TInv => TunnelExact
  <2> SUFFICES ASSUME TInv, dialer = "done"
               PROVE  received \o buffer \o inbound = [i \in 1..sent |-> <<"data", i>>]
    BY DEF TunnelExact
  <2>1. /\ received \in Tokens /\ buffer \in Tokens /\ inbound \in Tokens
        /\ received \o (buffer \o inbound) = Data(sent)
    BY DEF TInv, Pending
  <2>2. (received \o buffer) \o inbound = received \o (buffer \o inbound)
    BY <2>1, Regroup
  <2> QED
    BY <2>1, <2>2 DEF Data
<1> QED
  BY <1>1, <1>2, <1>3, PTL DEF DialSpec

-----------------------------------------------------------------------------
(***************************************************************************)
(* Trust: a chain is accepted only if it is trusted, and a trusted chain   *)
(* without a rival is accepted, for any certificates, anchors, policies and*)
(* stapled responses.                                                      *)
(***************************************************************************)

(***************************************************************************)
(* The invariant.                                                          *)
(***************************************************************************)
Called == \E f \in DOMAIN Calls : case \in Calls[f]

\* The path starts at the leaf, repeats no certificate and follows the issuers' names.
PathOK ==
  /\ path \in Seq(DOMAIN chain) /\ path # <<>> /\ path[1] = 1
  /\ \A i, j \in 1..Len(path) : path[i] = path[j] => i = j
  /\ \A i \in 1..(Len(path) - 1) : OnPath(i).issuer = OnPath(i + 1).subject

Anchored ==
  /\ Len(path) <= MaxPathLength
  /\ anchor \in ToSet(policy.anchors)
  /\ OnPath(Len(path)).issuer = anchor.name
  /\ VerifySignedObject(OnPath(Len(path)), anchor.key)
  /\ level \in 1..Len(path)

\* The constraints in force at a place of the path are those of what is above it.
Above(n) == {anchor.nc} \union {OnPath(k).nc : k \in (n + 1)..Len(path)}
InForce ==
  /\ permitted = UNION {Layers(nc) : nc \in Above(level)}
  /\ excluded = UNION {Excluded(nc) : nc \in Above(level)}

\* What has been shown of a certificate once it is judged.
Cleared(i) ==
  /\ InDate(OnPath(i)) /\ ~OnPath(i).odd /\ LinkVerifies(i)
  /\ i > 1 => /\ OnPath(i).ca /\ OnPath(i).certSign /\ OnPath(i).server
              /\ Understood(OnPath(i).nc)
  /\ (i = 1 \/ ~SelfIssued(OnPath(i))) => \A nc \in Above(i) : Allows(nc, OnPath(i).names)

\* The slots used below certificate i, and what is left of every limit above.
Slots(i) == {k \in (level + 1)..(i - 1) : ~SelfIssued(OnPath(k))}
Counted ==
  /\ left \in Nat
  /\ \A i \in (level + 1)..Len(path) :
       OnPath(i).pathLen # NoLimit => left + Cardinality(Slots(i)) <= OnPath(i).pathLen
  /\ \/ left + Cardinality(Slots(Len(path) + 1)) = MaxPathLength
     \/ \E i \in (level + 1)..Len(path) :
          OnPath(i).pathLen # NoLimit /\ left + Cardinality(Slots(i)) = OnPath(i).pathLen

Pinned == policy.mode = "pinned" => PinMatches({OnPath(i) : i \in DOMAIN path})
Stapled == IF case.staple = NoStaple THEN policy.revocation # "require-staple"
           ELSE VerifyOcspStaple(case.staple)

Completed == at \in {"judge", "pins", "staple"} \/ (at = "accepted" /\ Validates)

TrustInv ==
  /\ Called /\ PathOK
  /\ at \in {"start", "build", "judge", "pins", "staple", "accepted", "refused"}
  /\ at \in {"build", "judge", "pins", "staple"} => Validates /\ ChainParses
  /\ at = "start" => path = <<1>>
  /\ Completed => /\ Anchored /\ InForce /\ Counted
                  /\ \A i \in (level + 1)..Len(path) : Cleared(i)
  /\ Completed /\ at # "judge" => /\ level = 1 /\ Cleared(1) /\ MayServe(Leaf)
                                  /\ AnchorUnderstood
  /\ Completed /\ at \notin {"judge", "pins"} => Pinned
  /\ Completed /\ at = "accepted" => Stapled

-----------------------------------------------------------------------------
(***************************************************************************)
(* Lemmas on data.                                                         *)
(***************************************************************************)

\* Min of a set of naturals is its least member.
LEMMA MinIs ==
  ASSUME NEW S \in SUBSET Nat, S # {}
  PROVE  Min(S) \in S /\ \A y \in S : Min(S) <= y
PROOF
<1> DEFINE R == OpToRel(<, Nat)
<1>1. PICK x \in S : \A y \in S : <<y, x>> \notin R
  <2>1. IsWellFoundedOn(R, Nat)
    BY NatLessThanWellFounded
  <2> HIDE DEF R
  <2> QED
    BY <2>1, WFMin
<1>2. \A y \in S : x <= y
  <2>1. \A y \in Nat : y < x => <<y, x>> \in R
    BY DEF OpToRel
  <2>2. \A y \in S : y \in Nat /\ x \in Nat /\ (x <= y \/ y < x)
    OBVIOUS
  <2> HIDE DEF R
  <2> QED
    BY <1>1, <2>1, <2>2
<1> QED
  BY <1>2 DEF Min

\* What the assumptions say of a call.
LEMMA CallFacts ==
  ASSUME Called
  PROVE  /\ case.chain # <<>> /\ Len(case.chain) \in Nat \ {0}
         /\ DOMAIN chain = 1..Len(case.chain) /\ Len(chain) = Len(case.chain)
         /\ \A i \in DOMAIN chain : /\ chain[i].pathLen \in Nat \union {NoLimit}
                                    /\ \A n \in chain[i].names : n.type \in {"dns", "ip"}
         /\ DOMAIN policy.anchors \subseteq Nat
         /\ NoAnchor \notin ToSet(policy.anchors)
         /\ case.staple # NoStaple =>
              \E m, n \in Nat : DOMAIN case.staple.certs = 1..m /\ DOMAIN case.staple.singles = 1..n
PROOF
<1>1. PICK f \in DOMAIN Calls : case \in Calls[f]
  BY DEF Called
<1>2. /\ case.chain \in Seq(DOMAIN Parsed) \ {<<>>}
      /\ case.policy.anchors \in Seq(ToSet(case.policy.anchors) \ {NoAnchor})
      /\ case.staple # NoStaple => /\ case.staple.certs \in Seq(ToSet(case.staple.certs))
                                   /\ case.staple.singles \in Seq(ToSet(case.staple.singles))
  BY <1>1, TrustAssumption
<1>3. Len(case.chain) \in Nat \ {0} /\ DOMAIN case.chain = 1..Len(case.chain)
      /\ \A i \in 1..Len(case.chain) : case.chain[i] \in DOMAIN Parsed
  BY <1>2
<1>4. DOMAIN chain = 1..Len(case.chain) /\ \A i \in DOMAIN chain : chain[i] = Parsed[case.chain[i]]
  BY <1>3 DEF chain
<1>5. Len(chain) = Len(case.chain)
  BY <1>3, <1>4
<1>6. \A i \in DOMAIN chain : /\ chain[i].pathLen \in Nat \union {NoLimit}
                              /\ \A n \in chain[i].names : n.type \in {"dns", "ip"}
  BY <1>3, <1>4, TrustAssumption
<1> DEFINE A == case.policy.anchors
<1>7. DOMAIN A = 1..Len(A) /\ Len(A) \in Nat /\ \A i \in DOMAIN A : A[i] # NoAnchor
  <2> DEFINE S == ToSet(A) \ {NoAnchor}
  <2>1. A \in Seq(S)
    BY <1>2
  <2>2. NoAnchor \notin S
    OBVIOUS
  <2> HIDE DEF S
  <2> QED
    BY <2>1, <2>2
<1>8. DOMAIN policy.anchors \subseteq Nat /\ NoAnchor \notin ToSet(policy.anchors)
  BY <1>7 DEF policy, ToSet
<1>9. \A x : x \in Seq(ToSet(x)) => \E m \in Nat : DOMAIN x = 1..m
  OBVIOUS
<1> QED
  BY <1>2, <1>3, <1>4, <1>5, <1>6, <1>8, <1>9

-----------------------------------------------------------------------------
(***************************************************************************)
(* The steps.                                                              *)
(***************************************************************************)

\* The call never changes.
LEMMA SameCall ==
  ASSUME case' = case
  PROVE  /\ chain' = chain /\ policy' = policy /\ Leaf' = Leaf
         /\ Called' = Called /\ Validates' = Validates /\ ChainParses' = ChainParses
         /\ \A cert : MayServe(cert)' = MayServe(cert)
PROOF
<1>1. chain' = chain /\ policy' = policy
  BY DEF chain, policy
<1>2. Leaf' = Leaf /\ Called' = Called
  BY <1>1 DEF Leaf, Called
<1>3. Validates' = Validates /\ ChainParses' = ChainParses
  BY <1>1 DEF Validates, ChainParses
<1>4. \A cert : MayServe(cert)' = MayServe(cert)
  BY DEF MayServe
<1> QED
  BY <1>1, <1>2, <1>3, <1>4

\* A step that only moves on leaves every part of the invariant as it was.
LEMMA SamePath ==
  ASSUME UNCHANGED <<case, path, anchor>>
  PROVE  /\ PathOK' = PathOK /\ AnchorUnderstood' = AnchorUnderstood
         /\ \A i : OnPath(i)' = OnPath(i) /\ LinkVerifies(i)' = LinkVerifies(i)
         /\ \A n : Above(n)' = Above(n)
         /\ \A i : Cleared(i)' = Cleared(i)
         /\ Pinned' = Pinned /\ Stapled' = Stapled
PROOF
<1>1. chain' = chain /\ policy' = policy /\ Leaf' = Leaf
  BY SameCall
<1>2. \A i : OnPath(i)' = OnPath(i)
  BY <1>1 DEF OnPath
<1>3. \A n : Above(n)' = Above(n)
  BY <1>2 DEF Above
<1>4. AnchorUnderstood' = AnchorUnderstood
  BY DEF AnchorUnderstood
<1>5. \A i : LinkVerifies(i)' = LinkVerifies(i)
  BY <1>2 DEF LinkVerifies
<1>6. \A i : Cleared(i)' = Cleared(i)
  BY <1>2, <1>3, <1>5 DEF Cleared
<1>7. Pinned' = Pinned
  BY <1>1, <1>2 DEF Pinned, PinMatches
<1>8. PathOK' = PathOK
  BY <1>1, <1>2 DEF PathOK
<1>9. Issuer' = Issuer
  BY <1>2 DEF Issuer
<1>10. \A cert : Delegated(cert)' = Delegated(cert)
  BY <1>9 DEF Delegated
<1>11. \A x : /\ Singles(x)' = Singles(x) /\ ByIssuer(x)' = ByIssuer(x)
              /\ ResponderKey(x)' = ResponderKey(x)
  BY <1>1, <1>9, <1>10 DEF Singles, ByIssuer, ResponderKey
<1>12. \A x : VerifyOcspStaple(x)' = VerifyOcspStaple(x)
  BY <1>11 DEF VerifyOcspStaple
<1>13. Stapled' = Stapled
  BY <1>1, <1>12 DEF Stapled
<1> QED
  BY <1>2, <1>3, <1>4, <1>5, <1>6, <1>7, <1>8, <1>13

\* What has been counted depends on the path and the constraints gathered, and on nothing else.
LEMMA SameJudging ==
  ASSUME UNCHANGED <<case, path, anchor, level, left, permitted, excluded>>
  PROVE  Anchored' = Anchored /\ InForce' = InForce /\ Counted' = Counted
PROOF
<1>1. policy' = policy /\ \A i : OnPath(i)' = OnPath(i)
  BY SameCall, SamePath
<1>2. \A n : Above(n)' = Above(n)
  BY SamePath
<1>3. \A i : Slots(i)' = Slots(i)
  BY <1>1 DEF Slots
<1> QED
  BY <1>1, <1>2, <1>3 DEF Anchored, InForce, Counted

\* Before the first certificate.
LEMMA InitTrust == Init => TrustInv
PROOF
<1> SUFFICES ASSUME Init PROVE TrustInv
  OBVIOUS
<1>1. Called
  BY DEF Init, Called
<1>2. 1 \in DOMAIN chain
  BY <1>1, CallFacts
<1>3. PathOK
  BY <1>2 DEF Init, PathOK
<1> QED
  BY <1>1, <1>3 DEF Init, TrustInv, Completed

\* Names within the constraints in force are allowed by every certificate above.
LEMMA WithinAllows ==
  ASSUME TrustInv, at = "judge", WithinConstraints(OnPath(level).names)
  PROVE  \A nc \in Above(level) : Allows(nc, OnPath(level).names)
PROOF
<1> DEFINE names == OnPath(level).names
<1>1. InForce /\ PathOK /\ Called /\ level \in 1..Len(path)
  BY DEF TrustInv, Completed, Anchored
<1>2. \A n \in names : n.type \in {"dns", "ip"}
  <2>1. path[level] \in DOMAIN chain
    BY <1>1 DEF PathOK
  <2> QED
    BY <1>1, <2>1, CallFacts DEF OnPath
<1> SUFFICES ASSUME NEW nc \in Above(level), NEW n \in names
             PROVE  LET mine == {t \in nc.permitted : t.type = n.type}
                    IN /\ mine # {} => \E t \in mine : Within(n, t)
                       /\ ~\E t \in nc.excluded : t.type = n.type /\ Within(n, t)
  BY DEF Allows
<1> DEFINE mine == {t \in nc.permitted : t.type = n.type}
<1>3. mine # {} => mine \in permitted
  <2>1. mine = Judged(n.type, nc.permitted)
    BY DEF Judged
  <2>2. mine # {} => mine \in Layers(nc)
    BY <1>2, <2>1 DEF Layers
  <2> QED
    BY <1>1, <2>2 DEF InForce
<1>4. mine # {} => \E t \in mine : Within(n, t)
  BY <1>3 DEF WithinConstraints
<1>5. ~\E t \in nc.excluded : t.type = n.type /\ Within(n, t)
  <2>1. \A t \in nc.excluded : t.type = n.type => t \in excluded
    BY <1>1, <1>2 DEF InForce, Excluded
  <2> QED
    BY <2>1 DEF WithinConstraints
<1> QED
  BY <1>4, <1>5

\* What JudgeIssuer and JudgeLeaf ask of a certificate clears it.
LEMMA JudgedIsCleared ==
  ASSUME TrustInv, at = "judge", AnyCertificate(level), level > 1 => MayIssue(OnPath(level))
  PROVE  Cleared(level)
PROOF
<1>1. (level = 1 \/ ~SelfIssued(OnPath(level))) =>
        \A nc \in Above(level) : Allows(nc, OnPath(level).names)
  BY WithinAllows DEF AnyCertificate
<1> QED
  BY <1>1 DEF AnyCertificate, MayIssue, Cleared

\* The steps that leave the path and its judgement alone.
LEMMA PassStep ==
  ASSUME TrustInv,
         TrustNone \/ TrustCustom \/ Validate \/ NoIssuer \/ JudgeLeaf \/ JudgeRefuses
           \/ CheckPins \/ CheckRevocation \/ UNCHANGED vars
  PROVE  TrustInv'
PROOF
<1>1. UNCHANGED <<case, path, anchor, level, left, permitted, excluded>>
  BY DEF TrustNone, TrustCustom, Validate, NoIssuer, JudgeLeaf, JudgeRefuses, CheckPins,
         CheckRevocation, Pass, Refuse, vars
<1>2. /\ Called' = Called /\ Validates' = Validates /\ ChainParses' = ChainParses
      /\ MayServe(Leaf)' = MayServe(Leaf)
  BY <1>1, SameCall
<1>3. /\ PathOK' = PathOK /\ AnchorUnderstood' = AnchorUnderstood
      /\ \A i : Cleared(i)' = Cleared(i)
      /\ Pinned' = Pinned /\ Stapled' = Stapled
  BY <1>1, SamePath
<1>4. Anchored' = Anchored /\ InForce' = InForce /\ Counted' = Counted
  BY <1>1, SameJudging
<1>5. CASE UNCHANGED vars
  BY <1>1, <1>2, <1>3, <1>4, <1>5 DEF TrustInv, Completed, vars
<1>6. CASE TrustNone \/ TrustCustom
  <2>1. at' \in {"accepted", "refused"} /\ ~Validates
    BY <1>6 DEF TrustNone, TrustCustom, Validates, Pass, Refuse
  <2> QED
    BY <1>1, <1>2, <1>3, <2>1 DEF TrustInv, Completed
<1>7. CASE Validate
  BY <1>1, <1>2, <1>3, <1>7 DEF TrustInv, Completed, Validate, Validates, Pass, Refuse
<1>8. CASE NoIssuer \/ JudgeRefuses
  <2>1. at' = "refused"
    BY <1>8 DEF NoIssuer, JudgeRefuses, Refuse
  <2> QED
    BY <1>1, <1>2, <1>3, <2>1 DEF TrustInv, Completed
<1>9. CASE CheckPins
  BY <1>1, <1>2, <1>3, <1>4, <1>9 DEF TrustInv, Completed, CheckPins, Pinned, Pass, Refuse
<1>10. CASE CheckRevocation
  BY <1>1, <1>2, <1>3, <1>4, <1>10 DEF TrustInv, Completed, CheckRevocation, Stapled, Pass, Refuse
<1>11. CASE JudgeLeaf
  <2>1. at = "judge" /\ level = 1 /\ AnchorUnderstood /\ AnyCertificate(1) /\ MayServe(Leaf)
        /\ at' = "pins" /\ level' = level
    BY <1>11 DEF JudgeLeaf, Pass
  <2>2. Cleared(1)
    BY <2>1, JudgedIsCleared
  <2> QED
    BY <1>1, <1>2, <1>3, <1>4, <2>1, <2>2 DEF TrustInv, Completed
<1> QED
  BY <1>5, <1>6, <1>7, <1>8, <1>9, <1>10, <1>11

\* A path cannot use more slots than it has certificates.
LEMMA SlotsFacts ==
  ASSUME NEW n \in Nat, NEW i \in Nat
  PROVE  LET S(a) == {k \in (a + 1)..(i - 1) : ~SelfIssued(OnPath(k))}
         IN /\ IsFiniteSet(S(n)) /\ Cardinality(S(n)) \in Nat
            /\ n + 1 < i => Cardinality(S(n)) <= i - 1 - n
            /\ i <= n + 1 => Cardinality(S(n)) = 0
            /\ n > 0 /\ n < i => Cardinality(S(n - 1)) = Cardinality(S(n)) + (IF SelfIssued(OnPath(n)) THEN 0 ELSE 1)
PROOF
<1> DEFINE S(a) == {k \in (a + 1)..(i - 1) : ~SelfIssued(OnPath(k))}
<1>1. ASSUME NEW a \in Nat
      PROVE  /\ IsFiniteSet(S(a)) /\ Cardinality(S(a)) \in Nat
             /\ a + 1 < i => Cardinality(S(a)) <= i - 1 - a
             /\ i <= a + 1 => S(a) = {}
  <2>1. S(a) \subseteq (a + 1)..(i - 1)
    OBVIOUS
  <2>2. /\ IsFiniteSet((a + 1)..(i - 1))
        /\ Cardinality((a + 1)..(i - 1)) = IF a + 1 > i - 1 THEN 0 ELSE i - 1 - (a + 1) + 1
    BY FS_Interval
  <2>3. IsFiniteSet(S(a)) /\ Cardinality(S(a)) <= Cardinality((a + 1)..(i - 1))
    BY <2>1, <2>2, FS_Subset
  <2>4. Cardinality(S(a)) \in Nat
    BY <2>3, FS_CardinalityType
  <2>5. i <= a + 1 => S(a) = {}
    OBVIOUS
  <2> HIDE DEF S
  <2> QED
    BY <2>2, <2>3, <2>4, <2>5
<1>3. n > 0 /\ n < i => S(n - 1) = IF SelfIssued(OnPath(n)) THEN S(n) ELSE S(n) \union {n}
  OBVIOUS
<1>4. n \notin S(n)
  OBVIOUS
<1>5. Cardinality({}) = 0
  BY FS_EmptySet
<1> HIDE DEF S
<1>7. n > 0 /\ n < i => Cardinality(S(n - 1)) = Cardinality(S(n)) + (IF SelfIssued(OnPath(n)) THEN 0 ELSE 1)
  <2>1. Cardinality(S(n) \union {n}) = Cardinality(S(n)) + 1
    BY <1>1, <1>4, FS_AddElement
  <2> QED
    BY <1>1, <1>3, <2>1
<1> QED
  BY <1>1, <1>5, <1>7 DEF S

\* A certificate above the leaf is judged.
LEMMA JudgeIssuerStep ==
  ASSUME TrustInv, JudgeIssuer
  PROVE  TrustInv'
PROOF
<1>1. /\ at = "judge" /\ at' = "judge" /\ level > 1 /\ level' = level - 1
      /\ UNCHANGED <<case, path, anchor>>
      /\ AnyCertificate(level) /\ MayIssue(OnPath(level))
      /\ left' = LeftAfter(OnPath(level))
      /\ permitted' = permitted \union Layers(OnPath(level).nc)
      /\ excluded' = excluded \union Excluded(OnPath(level).nc)
  BY DEF JudgeIssuer
<1>2. /\ Called /\ PathOK /\ Anchored /\ InForce /\ Counted /\ Validates /\ ChainParses
      /\ \A i \in (level + 1)..Len(path) : Cleared(i)
  BY <1>1 DEF TrustInv, Completed
<1>3. level \in Nat /\ Len(path) \in Nat /\ level \in 1..Len(path)
      /\ level - 1 \in 1..Len(path) /\ \A i \in 1..Len(path) : path[i] \in DOMAIN chain
  BY <1>1, <1>2 DEF Anchored, PathOK
<1>4. /\ Called' /\ Validates' /\ ChainParses' /\ PathOK' /\ policy' = policy
      /\ \A i : OnPath(i)' = OnPath(i) /\ Cleared(i)' = Cleared(i)
      /\ \A n : Above(n)' = Above(n)
  BY <1>1, <1>2, SameCall, SamePath
<1>5. Anchored'
  BY <1>1, <1>2, <1>3, <1>4 DEF Anchored
<1>6. Cleared(level)
  BY <1>1, JudgedIsCleared
<1>7. \A i \in (level' + 1)..Len(path') : Cleared(i)'
  BY <1>1, <1>2, <1>3, <1>4, <1>6
<1>8. InForce'
  <2>1. Above(level - 1) = Above(level) \union {OnPath(level).nc}
    <3>1. ((level - 1) + 1)..Len(path) = ((level + 1)..Len(path)) \union {level}
      BY <1>3
    <3> QED
      BY <3>1 DEF Above
  <2> QED
    BY <1>1, <1>2, <1>4, <2>1 DEF InForce
<1>9. Counted'
  <2> DEFINE S(a, i) == {k \in (a + 1)..(i - 1) : ~SelfIssued(OnPath(k))}
             cert == OnPath(level)
             used == IF SelfIssued(cert) THEN left ELSE left - 1
             one == IF SelfIssued(cert) THEN 0 ELSE 1
  <2>1. \A i : Slots(i) = S(level, i) /\ Slots(i)' = S(level - 1, i)
    BY <1>1, <1>4 DEF Slots
  <2>2. left \in Nat /\ used \in Nat /\ used + one = left
    BY <1>1, <1>2 DEF Counted, MayIssue
  <2>3. cert.pathLen \in Nat \union {NoLimit}
    BY <1>2, <1>3, CallFacts DEF OnPath
  <2>4. /\ left' \in Nat /\ left' <= used
        /\ cert.pathLen # NoLimit => left' <= cert.pathLen
        /\ left' = used \/ (cert.pathLen # NoLimit /\ left' = cert.pathLen)
    <3>1. CASE cert.pathLen = NoLimit
      BY <1>1, <2>2, <3>1 DEF LeftAfter
    <3>2. CASE cert.pathLen \in Nat
      <4>1. LET m == Min({used, cert.pathLen})
            IN m \in {used, cert.pathLen} /\ m <= used /\ m <= cert.pathLen
        BY <2>2, <3>2, MinIs
      <4>2. left' = Min({used, cert.pathLen})
        BY <1>1, <3>2, TrustAssumption DEF LeftAfter
      <4> QED
        BY <2>2, <3>2, <4>1, <4>2, TrustAssumption
    <3> QED
      BY <2>3, <3>1, <3>2
  <2>5. \A i \in (level + 1)..(Len(path) + 1) :
          /\ Cardinality(S(level, i)) \in Nat
          /\ Cardinality(S(level - 1, i)) = Cardinality(S(level, i)) + one
    <3> TAKE i \in (level + 1)..(Len(path) + 1)
    <3>1. i \in Nat /\ level > 0 /\ level < i
      BY <1>3
    <3> QED
      BY <1>3, <3>1, SlotsFacts
  <2>6. Cardinality(S(level - 1, level)) = 0
    <3>1. level - 1 \in Nat /\ level <= (level - 1) + 1
      BY <1>3
    <3> QED
      BY <1>3, <3>1, SlotsFacts
  <2>7. \A i \in (level + 1)..Len(path) : OnPath(i).pathLen \in Nat \union {NoLimit}
    BY <1>2, <1>3, CallFacts DEF OnPath
  <2> HIDE DEF S, used, one
  <2>8. \A i \in level..Len(path) :
          OnPath(i).pathLen # NoLimit => left' + Cardinality(S(level - 1, i)) <= OnPath(i).pathLen
    <3> TAKE i \in level..Len(path)
    <3>1. CASE i = level
      BY <2>3, <2>4, <2>6, <3>1
    <3>2. CASE i \in (level + 1)..Len(path)
      <4>1. OnPath(i).pathLen # NoLimit => left + Cardinality(S(level, i)) <= OnPath(i).pathLen
        BY <1>2, <2>1, <3>2 DEF Counted
      <4>2. i \in (level + 1)..(Len(path) + 1)
        BY <1>3, <3>2
      <4> QED
        BY <2>2, <2>4, <2>5, <2>7, <3>2, <4>1, <4>2 DEF one
    <3> QED
      BY <1>3, <3>1, <3>2
  <2>9. \/ left' + Cardinality(S(level - 1, Len(path) + 1)) = MaxPathLength
        \/ \E i \in level..Len(path) :
             OnPath(i).pathLen # NoLimit /\ left' + Cardinality(S(level - 1, i)) = OnPath(i).pathLen
    <3>1. CASE cert.pathLen # NoLimit /\ left' = cert.pathLen
      BY <1>3, <2>4, <2>6, <3>1
    <3>2. CASE left' = used
      <4>1. CASE left + Cardinality(S(level, Len(path) + 1)) = MaxPathLength
        <5>1. Len(path) + 1 \in (level + 1)..(Len(path) + 1)
          BY <1>3
        <5> QED
          BY <2>2, <2>5, <3>2, <4>1, <5>1 DEF one
      <4>2. ASSUME NEW i \in (level + 1)..Len(path), OnPath(i).pathLen # NoLimit,
                   left + Cardinality(S(level, i)) = OnPath(i).pathLen
            PROVE  left' + Cardinality(S(level - 1, i)) = OnPath(i).pathLen /\ i \in level..Len(path)
        <5>1. i \in (level + 1)..(Len(path) + 1) /\ i \in level..Len(path)
          BY <1>3
        <5>2. /\ Cardinality(S(level, i)) \in Nat
              /\ Cardinality(S(level - 1, i)) = Cardinality(S(level, i)) + one
          BY <2>5, <5>1
        <5>3. one \in Nat
          BY DEF one
        <5> QED
          BY <2>2, <3>2, <4>2, <5>1, <5>2, <5>3
      <4> QED
        BY <1>2, <2>1, <4>1, <4>2 DEF Counted
    <3> QED
      BY <2>4, <3>1, <3>2
  <2> QED
    <3>1. level' + 1 = level
      BY <1>1, <1>3
    <3> QED
      BY <1>1, <1>4, <2>1, <2>4, <2>8, <2>9, <3>1 DEF Counted
<1> QED
  BY <1>1, <1>4, <1>5, <1>7, <1>8, <1>9 DEF TrustInv, Completed

\* The path grows by an issuer.
LEMMA ExtendStep ==
  ASSUME TrustInv, Extend
  PROVE  TrustInv'
PROOF
<1>1. /\ at = "build" /\ at' = "build" /\ case' = case
      /\ Suitable # {} /\ path' = Append(path, Min(Suitable))
  BY DEF Extend
<1>2. Called /\ PathOK /\ Validates /\ ChainParses
  BY <1>1 DEF TrustInv
<1>3. /\ Called' /\ Validates' /\ ChainParses' /\ chain' = chain
  BY <1>1, <1>2, SameCall
<1> DEFINE next == Min(Suitable)
<1>4. Suitable \subseteq Candidates /\ Candidates \subseteq Nat
  <2>1. DOMAIN chain \subseteq Nat
    BY <1>2, CallFacts
  <2> QED
    BY <2>1 DEF Suitable, Signing, Candidates, CandidatesOf
<1>5. next \in Candidates
  BY <1>1, <1>4, MinIs
<1>6. next \in DOMAIN chain /\ next \notin ToSet(path) /\ chain[next].subject = Current.issuer
  BY <1>5 DEF Candidates, CandidatesOf
<1> HIDE DEF next
<1>7. /\ path \in Seq(DOMAIN chain) /\ path # <<>> /\ Len(path) \in Nat \ {0}
      /\ path[1] = 1 /\ DOMAIN path = 1..Len(path)
      /\ \A i, j \in 1..Len(path) : path[i] = path[j] => i = j
      /\ \A i \in 1..(Len(path) - 1) : OnPath(i).issuer = OnPath(i + 1).subject
  BY <1>2 DEF PathOK
<1>8. /\ path' \in Seq(DOMAIN chain) /\ Len(path') = Len(path) + 1
      /\ \A i \in 1..Len(path) : path'[i] = path[i]
      /\ path'[Len(path) + 1] = next
  BY <1>1, <1>6, <1>7, AppendProperties DEF next
<1>9. \A i \in 1..Len(path) : OnPath(i)' = OnPath(i) /\ path[i] # next
  BY <1>3, <1>6, <1>7, <1>8 DEF OnPath, ToSet
<1>10. /\ \A i : i = Len(path) + 1 => OnPath(i)' = chain[next]
       /\ \A i : i = Len(path) => OnPath(i)' = Current
  BY <1>3, <1>7, <1>8, <1>9 DEF OnPath, Current
<1>11. PathOK'
  <2>1. \A i, j \in 1..(Len(path) + 1) : path'[i] = path'[j] => i = j
    BY <1>7, <1>8, <1>9
  <2>2. \A i \in 1..Len(path) : OnPath(i)'.issuer = OnPath(i + 1)'.subject
    <3> TAKE i \in 1..Len(path)
    <3>1. CASE i = Len(path)
      BY <1>6, <1>10, <3>1
    <3>2. CASE i \in 1..(Len(path) - 1)
      <4>1. i + 1 \in 1..Len(path)
        BY <1>7, <3>2
      <4> QED
        BY <1>7, <1>9, <3>2, <4>1
    <3>3. i = Len(path) \/ i \in 1..(Len(path) - 1)
      <4>1. Len(path) \in Nat \ {0}
        BY <1>7
      <4> QED
        BY <4>1
    <3> QED
      BY <3>1, <3>2, <3>3
  <2>3. path' # <<>> /\ path'[1] = 1 /\ (Len(path') - 1) = Len(path)
    BY <1>7, <1>8
  <2> QED
    BY <1>3, <1>8, <2>1, <2>2, <2>3 DEF PathOK
<1> QED
  BY <1>1, <1>3, <1>11 DEF TrustInv, Completed

\* The path has reached an anchor, and is judged from the top down.
LEMMA ReachAnchorStep ==
  ASSUME TrustInv, ReachAnchor
  PROVE  TrustInv'
PROOF
<1>1. /\ at = "build" /\ at' = "judge" /\ case' = case /\ path' = path
      /\ ~TooLong /\ Anchoring # {} /\ anchor' = policy.anchors[Min(Anchoring)]
      /\ level' = Len(path) /\ left' = MaxPathLength
      /\ permitted' = Layers(anchor'.nc) /\ excluded' = Excluded(anchor'.nc)
  BY DEF ReachAnchor
<1>2. Called /\ PathOK /\ Validates /\ ChainParses
  BY <1>1 DEF TrustInv
<1>3. /\ Called' /\ Validates' /\ ChainParses' /\ chain' = chain /\ policy' = policy
  BY <1>1, <1>2, SameCall
<1>4. Len(path) \in Nat \ {0} /\ MaxPathLength \in Nat /\ ~(Len(path) > MaxPathLength)
  BY <1>1, <1>2, TrustAssumption DEF PathOK, TooLong
<1>5. \A i : OnPath(i)' = OnPath(i)
  BY <1>1, <1>3 DEF OnPath
<1>6. PathOK'
  BY <1>1, <1>2, <1>3, <1>5 DEF PathOK
<1>7. Min(Anchoring) \in Anchoring /\ Anchoring \subseteq DOMAIN policy.anchors
  <2>1. Anchoring \subseteq DOMAIN policy.anchors /\ DOMAIN policy.anchors \subseteq Nat
    BY <1>2, CallFacts DEF Anchoring, AnchorCandidates
  <2> QED
    BY <1>1, <2>1, MinIs
<1>8. /\ anchor' \in ToSet(policy.anchors)
      /\ Current.issuer = anchor'.name /\ VerifySignedObject(Current, anchor'.key)
  BY <1>1, <1>7 DEF Anchoring, AnchorCandidates, ToSet
<1>9. Anchored'
  BY <1>1, <1>3, <1>4, <1>5, <1>8 DEF Anchored, Current
<1>10. (level' + 1)..Len(path') = {}
  BY <1>1, <1>4
<1>11. InForce'
  <2>1. Above(level)' = {anchor'.nc}
    BY <1>10 DEF Above
  <2> QED
    BY <1>1, <2>1 DEF InForce
<1>12. Counted'
  <2>1. Slots(Len(path) + 1)' = {}
    BY <1>1, <1>4 DEF Slots
  <2>2. Cardinality(Slots(Len(path) + 1)') = 0
    BY <2>1, FS_EmptySet
  <2>3. left' + Cardinality(Slots(Len(path) + 1)') = MaxPathLength
    BY <1>1, <1>4, <2>2
  <2> HIDE DEF Slots
  <2> QED
    BY <1>1, <1>4, <1>10, <2>3 DEF Counted
<1> QED
  BY <1>1, <1>3, <1>6, <1>9, <1>10, <1>11, <1>12 DEF TrustInv, Completed

\* Every step keeps the invariant.
LEMMA TrustStep == TrustInv /\ [Next]_vars => TrustInv'
PROOF
<1> SUFFICES ASSUME TrustInv, [Next]_vars PROVE TrustInv'
  OBVIOUS
<1>1. CASE JudgeIssuer
  BY <1>1, JudgeIssuerStep
<1>2. CASE Extend
  BY <1>2, ExtendStep
<1>3. CASE ReachAnchor
  BY <1>3, ReachAnchorStep
<1>4. CASE \/ TrustNone \/ TrustCustom \/ Validate \/ NoIssuer \/ JudgeLeaf \/ JudgeRefuses
           \/ CheckPins \/ CheckRevocation \/ UNCHANGED vars
  BY <1>4, PassStep
<1> QED
  BY <1>1, <1>2, <1>3, <1>4 DEF Next

\* The invariant of what has been judged.
LEMMA TrustInvariant == Spec => []TrustInv
  BY InitTrust, TrustStep, PTL DEF Spec

-----------------------------------------------------------------------------
(***************************************************************************)
(* A chain that is accepted is trusted.                                    *)
(***************************************************************************)

\* A path without repetition is no longer than the chain.
LEMMA PathIsPath ==
  ASSUME TrustInv, Len(path) <= MaxPathLength
  PROVE  path \in Paths
PROOF
<1>1. /\ Called /\ path \in Seq(DOMAIN chain) /\ path # <<>> /\ path[1] = 1
      /\ \A i, j \in 1..Len(path) : path[i] = path[j] => i = j
  BY DEF TrustInv, PathOK
<1>2. DOMAIN chain = 1..Len(chain) /\ Len(chain) \in Nat
  BY <1>1, CallFacts
<1>3. /\ Len(path) \in Nat \ {0} /\ DOMAIN path = 1..Len(path)
      /\ path \in [1..Len(path) -> 1..Len(chain)]
  BY <1>1, <1>2
<1>4. Len(path) <= Len(chain)
  <2>1. /\ IsFiniteSet(1..Len(path)) /\ Cardinality(1..Len(path)) = Len(path)
        /\ IsFiniteSet(1..Len(chain)) /\ Cardinality(1..Len(chain)) = Len(chain)
    <3>1. 1 \in Int /\ Len(path) \in Int /\ Len(path) >= 1 /\ Len(chain) \in Int /\ Len(chain) >= 0
      BY <1>2, <1>3
    <3>2. /\ IsFiniteSet(1..Len(path))
          /\ Cardinality(1..Len(path)) = IF 1 > Len(path) THEN 0 ELSE Len(path) - 1 + 1
      BY <3>1, FS_Interval
    <3>3. /\ IsFiniteSet(1..Len(chain))
          /\ Cardinality(1..Len(chain)) = IF 1 > Len(chain) THEN 0 ELSE Len(chain) - 1 + 1
      BY <3>1, FS_Interval
    <3> QED
      BY <3>1, <3>2, <3>3
  <2>2. SUFFICES ASSUME Cardinality(1..Len(chain)) < Cardinality(1..Len(path)) PROVE FALSE
    BY <1>2, <1>3, <2>1
  <2>3. \E x, y \in 1..Len(path) : x # y /\ path[x] = path[y]
    BY <1>3, <2>1, <2>2, FS_PigeonHole
  <2> QED
    BY <1>1, <2>3
<1>5. IsInjective(path)
  BY <1>1, <1>3 DEF IsInjective
<1>6. path \in UNION {[1..n -> DOMAIN chain] : n \in 1..Len(chain)}
  BY <1>2, <1>3, <1>4
<1> QED
  BY <1>1, <1>5, <1>6 DEF Paths

\* A path all of whose certificates are cleared is valid, by its definition.
LEMMA ClearedIsValid ==
  ASSUME TrustInv, Completed, at # "judge"
  PROVE  ValidPath(path, anchor)
PROOF
<1>1. /\ Called /\ PathOK /\ Anchored /\ Counted
      /\ level = 1 /\ Cleared(1) /\ \A i \in 2..Len(path) : Cleared(i)
      /\ MayServe(Leaf) /\ AnchorUnderstood
  BY DEF TrustInv
<1>2. /\ Len(path) \in Nat \ {0} /\ DOMAIN path = 1..Len(path)
      /\ \A i \in 1..Len(path) : path[i] \in DOMAIN chain
      /\ \A i \in 1..Len(path) : OnPath(i) = chain[path[i]]
  BY <1>1 DEF PathOK, OnPath
<1>3. \A i \in 1..Len(path) : Cleared(i)
  BY <1>1, <1>2
<1>4. Linked(path, anchor)
  <2>1. \A i \in 1..(Len(path) - 1) : /\ i \in 1..Len(path) /\ i + 1 \in 1..Len(path)
                                      /\ LinkVerifies(i) /\ i # Len(path)
    <3> TAKE i \in 1..(Len(path) - 1)
    <3>1. Len(path) \in Nat \ {0}
      BY <1>2
    <3>2. i \in 1..Len(path) /\ i + 1 \in 1..Len(path) /\ i # Len(path)
      BY <3>1
    <3> QED
      BY <1>3, <3>2 DEF Cleared
  <2>2. \A i \in 1..(Len(path) - 1) :
          /\ chain[path[i]].issuer = chain[path[i + 1]].subject
          /\ VerifySignedObject(chain[path[i]], chain[path[i + 1]].key)
    BY <1>1, <1>2, <2>1 DEF PathOK, LinkVerifies
  <2>3. /\ chain[path[Len(path)]].issuer = anchor.name
        /\ VerifySignedObject(chain[path[Len(path)]], anchor.key)
    BY <1>1, <1>2 DEF Anchored
  <2> QED
    BY <2>2, <2>3 DEF Linked
<1>5. \A i \in DOMAIN path : InDate(chain[path[i]]) /\ ~chain[path[i]].odd
  BY <1>2, <1>3 DEF Cleared
<1>6. \A c \in Authorities(path) : c.ca /\ c.certSign /\ c.server /\ Understood(c.nc)
  BY <1>2, <1>3 DEF Cleared, Authorities
<1>7. \A i \in 2..Len(path) : chain[path[i]].pathLen = NoLimit
                              \/ Cardinality(Between(path, i)) <= chain[path[i]].pathLen
  <2> TAKE i \in 2..Len(path)
  <2>1. i \in 1..Len(path) /\ i \in Nat /\ OnPath(i) = chain[path[i]]
    BY <1>2
  <2>2. Slots(i) = Between(path, i)
    BY <1>1, <1>2, <2>1 DEF Slots, Between
  <2>3. Cardinality(Slots(i)) \in Nat
    <3>1. Slots(i) = {k \in (1 + 1)..(i - 1) : ~SelfIssued(OnPath(k))}
      BY <1>1 DEF Slots
    <3>2. 1 \in Nat
      OBVIOUS
    <3> QED
      BY <2>1, <3>1, <3>2, SlotsFacts
  <2>4. chain[path[i]].pathLen \in Nat \union {NoLimit}
    BY <1>1, <1>2, <2>1, CallFacts
  <2>5. left \in Nat /\ (OnPath(i).pathLen # NoLimit => left + Cardinality(Slots(i)) <= OnPath(i).pathLen)
    BY <1>1 DEF Counted
  <2> QED
    BY <2>1, <2>2, <2>3, <2>4, <2>5
<1>8. \A i \in DOMAIN path : (i = 1 \/ ~SelfIssued(chain[path[i]])) =>
        \A nc \in {anchor.nc} \union {chain[path[k]].nc : k \in (i + 1)..Len(path)} :
          Allows(nc, chain[path[i]].names)
  <2> TAKE i \in DOMAIN path
  <2>1. \A k \in (i + 1)..Len(path) : OnPath(k) = chain[path[k]]
    BY <1>2
  <2>2. Above(i) = {anchor.nc} \union {chain[path[k]].nc : k \in (i + 1)..Len(path)}
    BY <2>1 DEF Above
  <2> QED
    BY <1>2, <1>3, <2>2 DEF Cleared
<1>9. \A t \in anchor.nc.permitted \union anchor.nc.excluded : t.type # "other"
  BY <1>1 DEF AnchorUnderstood, Understood
<1> QED
  BY <1>1, <1>4, <1>5, <1>6, <1>7, <1>8, <1>9 DEF ValidPath

\* A staple that verifies comes from the authority that issued the leaf, or one it designated.
LEMMA StapleIsVouched ==
  ASSUME TrustInv, Completed, case.staple # NoStaple, VerifyOcspStaple(case.staple)
  PROVE  Vouched(path, anchor)
PROOF
<1> DEFINE staple == case.staple
<1>1. Called /\ PathOK /\ Anchored
  BY DEF TrustInv
<1>2. Len(path) \in Nat \ {0} /\ \A i \in 1..Len(path) : OnPath(i) = chain[path[i]]
  BY <1>1 DEF PathOK, OnPath
<1>3. Issuer.key = IssuerKey(path, anchor) /\ Issuer.name = Leaf.issuer
  <2>1. OnPath(1) = Leaf
    BY <1>1, <1>2 DEF PathOK, Leaf
  <2>2. CASE Len(path) > 1
    <3>1. 1 \in 1..(Len(path) - 1) /\ 1 + 1 = 2 /\ 2 \in 1..Len(path)
      BY <1>2, <2>2
    <3>2. OnPath(1).issuer = OnPath(2).subject
      BY <1>1, <3>1 DEF PathOK
    <3> QED
      BY <1>2, <2>1, <2>2, <3>1, <3>2 DEF Issuer, IssuerKey
  <2>3. CASE Len(path) = 1
    <3>1. Leaf.issuer = anchor.name
      BY <1>1, <2>1, <2>3 DEF Anchored
    <3> QED
      BY <2>3, <3>1 DEF Issuer, IssuerKey
  <2>4. Len(path) > 1 \/ Len(path) = 1
    <3>1. Len(path) \in Nat \ {0}
      BY <1>2
    <3>2. \A n \in Nat \ {0} : n > 1 \/ n = 1
      OBVIOUS
    <3> QED
      BY <3>1, <3>2
  <2> QED
    BY <2>2, <2>3, <2>4
<1>4. PICK m, n \in Nat : DOMAIN staple.certs = 1..m /\ DOMAIN staple.singles = 1..n
  BY <1>1, CallFacts
<1>5. /\ ParseOcspResponse(staple) /\ staple.successful /\ Singles(staple) # {}
      /\ staple.signer \in ResponderKey(staple) /\ staple.signer \notin OddCurves
      /\ staple.singles[Min(Singles(staple))].status = "good"
      /\ Fresh(staple.singles[Min(Singles(staple))])
  BY DEF VerifyOcspStaple
<1>6. Min(Singles(staple)) \in Singles(staple)
  <2>1. Singles(staple) \subseteq Nat
    BY <1>4 DEF Singles
  <2> QED
    BY <1>5, <2>1, MinIs
<1>7. \E i \in DOMAIN staple.singles :
        LET s == staple.singles[i]
        IN /\ s.serial = Leaf.serial /\ s.name = Leaf.issuer /\ s.key = IssuerKey(path, anchor)
           /\ s.status = "good" /\ Fresh(s)
  BY <1>3, <1>5, <1>6 DEF Singles
<1>8. \/ staple.signer = IssuerKey(path, anchor)
      \/ \E i \in DOMAIN staple.certs :
           LET c == staple.certs[i]
           IN /\ c.key = staple.signer /\ c.issuer = Leaf.issuer
              /\ VerifySignedObject(c, IssuerKey(path, anchor))
              /\ c.ocsp /\ c.digital /\ InDate(c) /\ ~c.odd
  <2>1. CASE ByIssuer(staple)
    BY <1>3, <1>5, <2>1 DEF ResponderKey
  <2>2. CASE ~ByIssuer(staple)
    <3> DEFINE found == Responders(staple)
    <3>1. found # {} /\ Delegated(staple.certs[Min(found)])
          /\ staple.signer = staple.certs[Min(found)].key
      BY <1>5, <2>2 DEF ResponderKey
    <3>2. found \subseteq Nat /\ found \subseteq DOMAIN staple.certs
      BY <1>4 DEF Responders
    <3> HIDE DEF found
    <3>3. Min(found) \in DOMAIN staple.certs
      BY <3>1, <3>2, MinIs
    <3> QED
      BY <1>3, <3>1, <3>3 DEF Delegated
  <2> QED
    BY <2>1, <2>2
<1> QED
  BY <1>5, <1>7, <1>8 DEF Vouched

\* From the invariant to the specification of trust.
LEMMA AcceptedFollows == TrustInv => AcceptedIsTrusted
PROOF
<1> SUFFICES ASSUME TrustInv, at = "accepted", Validates
             PROVE  \E p \in Paths, a \in ToSet(policy.anchors) : Acceptable(p, a)
  BY DEF AcceptedIsTrusted
<1>1. Completed /\ Anchored /\ Pinned /\ Stapled /\ PathOK /\ Called
  BY DEF TrustInv, Completed
<1>2. path \in Paths /\ anchor \in ToSet(policy.anchors)
  BY <1>1, PathIsPath DEF Anchored
<1>3. ValidPath(path, anchor)
  BY <1>1, ClearedIsValid
<1>4. policy.mode = "pinned" =>
        policy.pins \intersect ({chain[path[i]].key : i \in DOMAIN path} \union {anchor.key}) # {}
  <2>1. anchor # NoAnchor
    BY <1>1, <1>2, CallFacts
  <2>2. {c.key : c \in {OnPath(i) : i \in DOMAIN path}} = {chain[path[i]].key : i \in DOMAIN path}
    BY DEF OnPath
  <2> QED
    BY <1>1, <2>1, <2>2 DEF Pinned, PinMatches
<1>5. IF case.staple = NoStaple THEN policy.revocation # "require-staple" ELSE Vouched(path, anchor)
  BY <1>1, StapleIsVouched DEF Stapled
<1> QED
  BY <1>2, <1>3, <1>4, <1>5 DEF Acceptable

\* A chain that is accepted is trusted: however the search went, some path from the leaf to an
\* anchor satisfies every rule of RFC 5280 as a whole, with the pins and the staple.
THEOREM TrustAccepted == Spec => []AcceptedIsTrusted
  BY TrustInvariant, AcceptedFollows, PTL

-----------------------------------------------------------------------------
(***************************************************************************)
(* A trusted chain without a rival, whose candidates can all be tried, is  *)
(* accepted: the search follows it.                                        *)
(***************************************************************************)
Good(p, a) ==
  /\ p \in Paths /\ a \in ToSet(policy.anchors)
  /\ Acceptable(p, a) /\ Unrivalled(p, a) /\ Supported(p) /\ Plain(p, a)

\* The path so far is a part of p, if not by the same places of the chain, by the same certificates.
Follows(p) == Len(path) <= Len(p) /\ \A i \in 1..Len(path) : chain[path[i]] = chain[p[i]]

TrackInv ==
  Validates /\ ChainParses =>
    \A p, a : Good(p, a) =>
      /\ at # "refused" /\ Follows(p)
      /\ at \in {"judge", "pins", "staple"} => Len(path) = Len(p) /\ anchor = a

\* A set with 0 and every successor of a member has all numbers.
LEMMA SetInduction ==
  ASSUME NEW T, 0 \in T, \A n \in Nat : n \in T => n + 1 \in T
  PROVE  Nat \subseteq T
PROOF
<1> DEFINE S == Nat \ T
<1>1. SUFFICES ASSUME S # {} PROVE FALSE
  OBVIOUS
<1>2. Min(S) \in S /\ \A y \in S : Min(S) <= y
  BY <1>1, MinIs
<1>3. PICK x : x \in S /\ \A y \in S : x <= y
  BY <1>2
<1>4. x # 0 /\ x - 1 \in Nat /\ ~(x <= x - 1) /\ x - 1 + 1 = x
  BY <1>3
<1>5. x - 1 \in T
  BY <1>3, <1>4
<1> QED
  BY <1>3, <1>4, <1>5

\* What a good path is, fact by fact.
LEMMA GoodFacts ==
  ASSUME Called, NEW p, NEW a, Good(p, a)
  PROVE  /\ Len(p) \in Nat \ {0} /\ DOMAIN p = 1..Len(p) /\ Len(p) <= MaxPathLength
         /\ \A i \in 1..Len(p) : p[i] \in DOMAIN chain
         /\ p[1] = 1
         /\ Linked(p, a) /\ ValidPath(p, a) /\ Unrivalled(p, a) /\ a \in ToSet(policy.anchors)
PROOF
<1>1. PICK n \in 1..Len(chain) : p \in [1..n -> DOMAIN chain]
  BY DEF Good, Paths
<1>2. Len(chain) \in Nat
  BY CallFacts
<1>3. n \in Nat \ {0} /\ Len(p) = n /\ DOMAIN p = 1..n
  BY <1>1, <1>2
<1> QED
  BY <1>1, <1>3 DEF Good, Paths, Acceptable, ValidPath

\* Without a rival every certificate determines the next, so none occurs twice.
LEMMA NoRepeat ==
  ASSUME Called, NEW p, NEW a, Good(p, a), NEW i \in 1..Len(p), NEW j \in 1..Len(p), i < j
  PROVE  chain[p[i]] # chain[p[j]]
PROOF
<1>1. SUFFICES ASSUME chain[p[i]] = chain[p[j]] PROVE FALSE
  OBVIOUS
<1>2. Len(p) \in Nat \ {0} /\ Unrivalled(p, a) /\ i \in Nat /\ j \in Nat
  BY GoodFacts
<1> DEFINE T == {k \in Nat : j + k <= Len(p) => chain[p[i + k]] = chain[p[j + k]]}
<1>3. 0 \in T
  BY <1>1, <1>2
<1>4. ASSUME NEW k \in Nat, k \in T
      PROVE  k + 1 \in T
  <2>1. SUFFICES ASSUME j + (k + 1) <= Len(p)
                 PROVE  chain[p[i + (k + 1)]] = chain[p[j + (k + 1)]]
    BY <1>2
  <2>2. i + k \in 1..(Len(p) - 1) /\ j + k \in 1..(Len(p) - 1) /\ j + k <= Len(p)
        /\ (i + k) + 1 = i + (k + 1) /\ (j + k) + 1 = j + (k + 1)
    BY <1>2, <2>1
  <2>3. chain[p[i + k]] = chain[p[j + k]]
    BY <1>4, <2>2
  <2>4. \A m \in 1..(Len(p) - 1) :
          {c \in ToSet(chain) : c.subject = chain[p[m]].issuer /\ c.key = chain[p[m]].signer}
            = {chain[p[m + 1]]}
    BY <1>2 DEF Unrivalled
  <2>5. {chain[p[(i + k) + 1]]} = {chain[p[(j + k) + 1]]}
    BY <2>2, <2>3, <2>4
  <2> QED
    BY <2>2, <2>5
<1>5. Nat \subseteq T
  <2> HIDE DEF T
  <2> QED
    BY <1>3, <1>4, SetInduction
<1> DEFINE k == Len(p) - j
<1>6. k \in Nat /\ j + k = Len(p) /\ i + k \in 1..(Len(p) - 1)
  BY <1>2
<1>7. chain[p[i + k]] = chain[p[Len(p)]]
  <2>1. k \in T
    BY <1>5, <1>6
  <2>2. j + k <= Len(p) => chain[p[i + k]] = chain[p[j + k]]
    BY <2>1
  <2> HIDE DEF k
  <2> QED
    BY <1>2, <1>6, <2>2
<1> HIDE DEF k
<1>8. ~\E b \in ToSet(policy.anchors) : b.name = chain[p[i + k]].issuer /\ b.key = chain[p[i + k]].signer
  BY <1>2, <1>6 DEF Unrivalled
<1>9. {b \in ToSet(policy.anchors) : b.name = chain[p[Len(p)]].issuer /\ b.key = chain[p[Len(p)]].signer} = {a}
  BY <1>2 DEF Unrivalled
<1> QED
  BY <1>7, <1>8, <1>9

\* On a good path no candidate ends the search: each can be tried.
LEMMA NothingAborts ==
  ASSUME Called, PathOK, NEW p, NEW a, Good(p, a), Follows(p)
  PROVE  ~AnchorAborts /\ ~CandidateAborts
PROOF
<1>1. DOMAIN p = 1..Len(p) /\ Len(p) \in Nat \ {0}
  BY GoodFacts
<1>2. Len(path) \in DOMAIN p
  BY <1>1 DEF PathOK, Follows
<1>3. Current = chain[p[Len(path)]]
  BY <1>1, <1>2 DEF Current, OnPath, Follows
<1>4. \A k \in Issuing(Current) : ~Unsupported(Current, k)
  BY <1>2, <1>3 DEF Good, Supported
<1>5. \A i \in AnchorCandidates : policy.anchors[i].key \in Issuing(Current)
  BY DEF AnchorCandidates, Issuing, ToSet
<1>6. \A i \in Candidates : chain[i].key \in Issuing(Current)
  BY DEF Candidates, CandidatesOf, Issuing, ToSet
<1> QED
  BY <1>4, <1>5, <1>6 DEF AnchorAborts, CandidateAborts

\* At the end of the path it finds the anchor of p, and before the end it finds none.
LEMMA AnchorFound ==
  ASSUME Called, PathOK, NEW p, NEW a, Good(p, a), Follows(p)
  PROVE  /\ Len(path) = Len(p) => Anchoring # {}
         /\ Len(path) # Len(p) => Anchoring = {}
         /\ \A k \in Anchoring : policy.anchors[k] = a
PROOF
<1>1. /\ Len(p) \in Nat \ {0} /\ Linked(p, a) /\ Unrivalled(p, a) /\ a \in ToSet(policy.anchors)
  BY GoodFacts
<1>2. Len(path) \in 1..Len(p)
  BY <1>1 DEF PathOK, Follows
<1>3. Current = chain[p[Len(path)]]
  BY <1>2 DEF Current, OnPath, Follows
<1>4. \A k \in Anchoring : /\ policy.anchors[k] \in ToSet(policy.anchors)
                           /\ policy.anchors[k].name = Current.issuer
                           /\ policy.anchors[k].key = Current.signer
  BY DEF Anchoring, AnchorCandidates, VerifySignedObject, ToSet
<1>5. CASE Len(path) = Len(p)
  <2>1. PICK k \in DOMAIN policy.anchors : policy.anchors[k] = a
    BY <1>1 DEF ToSet
  <2>2. k \in Anchoring
    BY <1>1, <1>3, <1>5, <2>1 DEF Anchoring, AnchorCandidates, Linked, Unrivalled
  <2>3. \A m \in Anchoring : policy.anchors[m] = a
    BY <1>1, <1>3, <1>4, <1>5 DEF Unrivalled
  <2> QED
    BY <1>5, <2>2, <2>3
<1>6. CASE Len(path) # Len(p)
  <2>1. Len(path) \in 1..(Len(p) - 1)
    BY <1>1, <1>2, <1>6
  <2>2. ~\E b \in ToSet(policy.anchors) : b.name = Current.issuer /\ b.key = Current.signer
    BY <1>1, <1>3, <2>1 DEF Unrivalled
  <2> QED
    BY <1>4, <1>6, <2>2
<1> QED
  BY <1>5, <1>6

\* Before the end the search goes on, with the next certificate of p.
LEMMA NextFound ==
  ASSUME Called, PathOK, NEW p, NEW a, Good(p, a), Follows(p), Len(path) # Len(p)
  PROVE  /\ Suitable # {} /\ Len(path) + 1 \in 1..Len(p)
         /\ \A m \in Suitable : chain[m] = chain[p[Len(path) + 1]]
PROOF
<1> DEFINE n == Len(path)
           q == p[n + 1]
<1>1. /\ Len(p) \in Nat \ {0} /\ Linked(p, a) /\ Unrivalled(p, a)
      /\ \A i \in 1..Len(p) : p[i] \in DOMAIN chain
  BY GoodFacts
<1>2. n \in 1..(Len(p) - 1) /\ n + 1 \in 1..Len(p) /\ n \in 1..Len(p) /\ n \in Nat
      /\ DOMAIN path = 1..n /\ path \in Seq(DOMAIN chain)
  <2>1. n \in Nat \ {0} /\ DOMAIN path = 1..n /\ path \in Seq(DOMAIN chain) /\ n <= Len(p) /\ n # Len(p)
    BY DEF PathOK, Follows
  <2> QED
    BY <1>1, <2>1
<1>3. \A i \in 1..n : chain[path[i]] = chain[p[i]] /\ i \in 1..Len(p) /\ i < n + 1
  BY <1>1, <1>2 DEF Follows
<1>4. Current = chain[p[n]] /\ chain[path[n]] = chain[p[n]]
  BY <1>2, <1>3 DEF Current, OnPath
<1>5. /\ Current.issuer = chain[q].subject /\ VerifySignedObject(Current, chain[q].key)
      /\ {c \in ToSet(chain) : c.subject = Current.issuer /\ c.key = Current.signer} = {chain[q]}
      /\ KidCompatible(Current.aki, chain[q].ski)
  BY <1>1, <1>2, <1>4 DEF Linked, Unrivalled
<1>7. \A i \in 1..n : chain[path[i]] # chain[q]
  BY <1>2, <1>3, NoRepeat
<1> HIDE DEF n, q
<1>8. q \in DOMAIN chain
  BY <1>1, <1>2 DEF q
<1>9. q \notin ToSet(path)
  BY <1>2, <1>7 DEF ToSet
<1>10. case.chain[q] # case.chain[path[n]]
  <2>1. path[n] \in DOMAIN chain
    BY <1>2
  <2>2. case.chain[q] = case.chain[path[n]] => chain[q] = chain[path[n]]
    BY <1>8, <2>1 DEF chain
  <2> QED
    BY <1>2, <1>7, <2>2
<1>11. q \in Candidates
  BY <1>5, <1>8, <1>9, <1>10 DEF Candidates, CandidatesOf, n
<1>12. q \in Suitable
  BY <1>5, <1>11 DEF Suitable, Signing
<1>13. \A m \in Suitable : chain[m] = chain[q]
  <2>1. CASE Cardinality(Candidates) = 1
    <3>1. IsFiniteSet(Candidates)
      <4>1. Candidates \subseteq DOMAIN chain /\ DOMAIN chain = 1..Len(case.chain) /\ Len(case.chain) \in Nat
        BY CallFacts DEF Candidates, CandidatesOf
      <4> HIDE DEF Candidates
      <4>2. IsFiniteSet(1..Len(case.chain))
        BY <4>1, FS_Interval
      <4> QED
        BY <4>1, <4>2, FS_Subset
    <3>2. \E x : Candidates = {x}
      BY <2>1, <3>1, FS_Singleton
    <3> QED
      BY <1>11, <2>1, <3>2 DEF Suitable
  <2>2. CASE Cardinality(Candidates) # 1
    <3>1. \A m \in Suitable : /\ m \in DOMAIN chain /\ chain[m].subject = Current.issuer
                              /\ chain[m].key = Current.signer
      BY <2>2 DEF Suitable, Signing, Candidates, CandidatesOf, VerifySignedObject
    <3>2. \A m \in Suitable : chain[m] \in ToSet(chain)
      BY <3>1 DEF ToSet
    <3> QED
      BY <1>5, <3>1, <3>2
  <2> QED
    BY <2>1, <2>2
<1> QED
  BY <1>2, <1>12, <1>13 DEF n, q

\* Every certificate of a valid path is passed by the judge.
LEMMA JudgePasses ==
  ASSUME TrustInv, at = "judge", NEW p, NEW a, Good(p, a), Follows(p), Len(path) = Len(p), anchor = a
  PROVE  /\ AnchorUnderstood /\ AnyCertificate(level)
         /\ level > 1 => MayIssue(OnPath(level))
         /\ level = 1 => MayServe(Leaf)
PROOF
<1>1. Called /\ PathOK /\ Anchored /\ InForce /\ Counted
  BY DEF TrustInv, Completed
<1>2. /\ Len(p) \in Nat \ {0} /\ DOMAIN p = 1..Len(p) /\ Len(p) <= MaxPathLength
      /\ ValidPath(p, a) /\ Linked(p, a)
  BY <1>1, GoodFacts
<1>3. level \in 1..Len(p) /\ level \in Nat
  BY <1>1, <1>2 DEF Anchored
<1>4. \A i \in 1..Len(p) : OnPath(i) = chain[p[i]]
  BY DEF OnPath, Follows
<1>5. AnchorUnderstood
  BY <1>2 DEF ValidPath, AnchorUnderstood, Understood
<1>6. LinkVerifies(level)
  <2>1. level # Len(p) => level \in 1..(Len(p) - 1) /\ level + 1 \in 1..Len(p)
    BY <1>2, <1>3
  <2> QED
    BY <1>2, <1>3, <1>4, <2>1 DEF LinkVerifies, Linked
<1>7. InDate(OnPath(level)) /\ ~OnPath(level).odd
  BY <1>2, <1>3, <1>4 DEF ValidPath
<1>8. ASSUME level = 1 \/ ~SelfIssued(OnPath(level))
      PROVE  WithinConstraints(OnPath(level).names)
  <2> DEFINE names == OnPath(level).names
  <2>1. \A nc \in Above(level) : Allows(nc, names)
    <3>1. \A k \in (level + 1)..Len(p) : k \in 1..Len(p) /\ OnPath(k) = chain[p[k]]
      BY <1>2, <1>3, <1>4
    <3>2. Above(level) = {a.nc} \union {chain[p[k]].nc : k \in (level + 1)..Len(p)}
      BY <3>1 DEF Above
    <3> QED
      BY <1>2, <1>3, <1>4, <1>8, <3>2 DEF ValidPath
  <2> SUFFICES ASSUME NEW n \in names
               PROVE  /\ \A layer \in permitted : (\A t \in layer : t.type = n.type) => \E t \in layer : Within(n, t)
                      /\ \A t \in excluded : t.type = n.type => ~Within(n, t)
    BY DEF WithinConstraints
  <2>2. ASSUME NEW layer \in permitted, \A t \in layer : t.type = n.type
        PROVE  \E t \in layer : Within(n, t)
    <3>1. PICK nc \in Above(level) : layer \in Layers(nc)
      BY <1>1 DEF InForce
    <3>2. PICK type \in {"dns", "ip"} : layer = Judged(type, nc.permitted) /\ layer # {}
      BY <3>1 DEF Layers
    <3>3. layer = {t \in nc.permitted : t.type = n.type}
      BY <2>2, <3>2 DEF Judged
    <3> QED
      BY <2>1, <3>1, <3>2, <3>3 DEF Allows
  <2>3. \A t \in excluded : t.type = n.type => ~Within(n, t)
    BY <1>1, <2>1 DEF InForce, Excluded, Allows
  <2> QED
    BY <2>2, <2>3
<1>9. AnyCertificate(level)
  BY <1>6, <1>7, <1>8 DEF AnyCertificate
<1>10. level = 1 => MayServe(Leaf)
  BY <1>2 DEF ValidPath
<1>11. ASSUME level > 1 PROVE MayIssue(OnPath(level))
  <2>1. level \in 2..Len(p) /\ OnPath(level) \in Authorities(p)
    BY <1>2, <1>3, <1>4, <1>11 DEF Authorities
  <2>2. /\ OnPath(level).ca /\ OnPath(level).certSign /\ OnPath(level).server
        /\ Understood(OnPath(level).nc)
    BY <1>2, <2>1 DEF ValidPath
  <2>3. SUFFICES ASSUME ~SelfIssued(OnPath(level)) PROVE left > 0
    BY <2>2 DEF MayIssue
  <2> DEFINE S(i) == {k \in (level + 1)..(i - 1) : ~SelfIssued(OnPath(k))}
  <2>4. left \in Nat /\ \A i : Slots(i) = S(i)
    BY <1>1 DEF Counted, Slots
  <2>5. CASE left + Cardinality(Slots(Len(path) + 1)) = MaxPathLength
    <3> DEFINE j == Len(p) + 1
    <3>1. j \in Nat /\ (level + 1 < j => Cardinality(S(j)) <= j - 1 - level)
          /\ (j <= level + 1 => Cardinality(S(j)) = 0) /\ Cardinality(S(j)) \in Nat
      <4>1. j \in Nat
        BY <1>2
      <4> QED
        BY <1>3, <4>1, SlotsFacts
    <3>2. left + Cardinality(S(j)) = MaxPathLength
      BY <2>4, <2>5
    <3> HIDE DEF S
    <3> QED
      BY <1>2, <1>3, <1>11, <2>4, <3>1, <3>2, TrustAssumption
  <2>6. CASE \E i \in (level + 1)..Len(path) :
               OnPath(i).pathLen # NoLimit /\ left + Cardinality(Slots(i)) = OnPath(i).pathLen
    <3>1. PICK i \in (level + 1)..Len(p) :
            OnPath(i).pathLen # NoLimit /\ left + Cardinality(S(i)) = OnPath(i).pathLen
      BY <2>4, <2>6
    <3>2. i \in 2..Len(p) /\ i \in 1..Len(p) /\ i \in Nat /\ level < i
      BY <1>2, <1>3, <1>11, <3>1
    <3>3. Cardinality(Between(p, i)) <= OnPath(i).pathLen
      BY <1>2, <1>4, <3>1, <3>2 DEF ValidPath
    <3> DEFINE B == {k \in (1 + 1)..(i - 1) : ~SelfIssued(OnPath(k))}
    <3>4. Between(p, i) = B
      <4>1. \A k \in 2..(i - 1) : OnPath(k) = chain[p[k]]
        BY <1>2, <1>4, <3>2
      <4> QED
        BY <4>1 DEF Between
    <3>5. S(i) \union {level} \subseteq B /\ level \notin S(i)
      BY <1>3, <1>11, <2>3, <3>2
    <3>6. IsFiniteSet(B) /\ Cardinality(B) \in Nat
      <4>1. 1 \in Nat
        OBVIOUS
      <4> QED
        BY <3>2, <4>1, SlotsFacts
    <3>7. IsFiniteSet(S(i)) /\ Cardinality(S(i)) \in Nat
      BY <1>3, <3>2, SlotsFacts
    <3> HIDE DEF B, S
    <3>8. Cardinality(S(i)) + 1 <= Cardinality(B)
      <4>1. Cardinality(S(i) \union {level}) = Cardinality(S(i)) + 1
        BY <3>5, <3>7, FS_AddElement
      <4>2. Cardinality(S(i) \union {level}) <= Cardinality(B)
        BY <3>5, <3>6, FS_Subset
      <4> QED
        BY <4>1, <4>2
    <3>9. OnPath(i).pathLen \in Nat
      <4>1. path[i] \in DOMAIN chain
        BY <1>1, <3>2 DEF PathOK
      <4> QED
        BY <1>1, <3>1, <4>1, CallFacts DEF OnPath
    <3> QED
      BY <2>4, <3>1, <3>3, <3>4, <3>6, <3>7, <3>8, <3>9
  <2> QED
    BY <1>1, <2>5, <2>6 DEF Counted
<1> QED
  BY <1>5, <1>9, <1>10, <1>11

\* A staple its issuer vouches for verifies.
LEMMA VouchedVerifies ==
  ASSUME Called, PathOK, NEW p, NEW a, Good(p, a), Follows(p), Len(path) = Len(p), anchor = a,
         case.staple # NoStaple
  PROVE  VerifyOcspStaple(case.staple)
PROOF
<1> DEFINE staple == case.staple
           key == IssuerKey(p, a)
           named(name, k) == staple.responder \in {name, k}
<1>1. /\ Len(p) \in Nat \ {0} /\ Linked(p, a) /\ p[1] = 1
  BY GoodFacts
<1>2. \A i \in 1..Len(p) : OnPath(i) = chain[p[i]]
  BY DEF OnPath, Follows
<1>3. Issuer.key = key /\ Issuer.name = Leaf.issuer
  <2>1. OnPath(1) = Leaf /\ chain[p[1]] = Leaf
    BY <1>1, <1>2 DEF Leaf
  <2>2. CASE Len(p) > 1
    <3>1. 1 \in 1..(Len(p) - 1) /\ 1 + 1 = 2 /\ 2 \in 1..Len(p)
      BY <1>1, <2>2
    <3>2. chain[p[1]].issuer = chain[p[2]].subject
      BY <1>1, <3>1 DEF Linked
    <3> QED
      BY <1>2, <2>1, <2>2, <3>1, <3>2 DEF Issuer, IssuerKey
  <2>3. CASE ~(Len(p) > 1)
    <3>1. Len(p) = 1
      <4>1. \A n \in Nat \ {0} : ~(n > 1) => n = 1
        OBVIOUS
      <4> QED
        BY <1>1, <2>3, <4>1
    <3>2. Leaf.issuer = a.name
      BY <1>1, <2>1, <3>1 DEF Linked
    <3> QED
      BY <2>3, <3>2 DEF Issuer, IssuerKey
  <2> QED
    BY <2>2, <2>3
<1>4. PICK m, n \in Nat : DOMAIN staple.certs = 1..m /\ DOMAIN staple.singles = 1..n
  BY CallFacts
<1>5. Vouched(p, a) /\ Plain(p, a)
  BY DEF Good, Acceptable
<1>6. ParseOcspResponse(staple) /\ staple.successful /\ staple.signer \notin OddCurves
  BY <1>5 DEF Vouched
<1>7. PICK i \in DOMAIN staple.singles :
        LET s == staple.singles[i]
        IN /\ s.serial = Leaf.serial /\ s.name = Leaf.issuer /\ s.key = key
           /\ s.status = "good" /\ Fresh(s)
  BY <1>5 DEF Vouched
<1>8. Singles(staple) = {i}
  <2> DEFINE same == {k \in DOMAIN staple.singles : staple.singles[k].serial = Leaf.serial}
  <2>1. Cardinality(same) <= 1
    BY <1>5 DEF Plain
  <2>2. same \subseteq 1..n /\ i \in same /\ Singles(staple) \subseteq same /\ i \in Singles(staple)
    BY <1>3, <1>4, <1>7 DEF Singles
  <2> HIDE DEF same
  <2>3. IsFiniteSet(1..n)
    BY FS_Interval
  <2>4. IsFiniteSet(same) /\ Cardinality(same) \in Nat
    BY <2>2, <2>3, FS_Subset, FS_CardinalityType
  <2>5. Cardinality(same) # 0
    BY <2>2, <2>4, FS_EmptySet
  <2>6. \E x : same = {x}
    <3>1. Cardinality(same) = 1
      BY <2>1, <2>4, <2>5
    <3> QED
      BY <2>4, <3>1, FS_Singleton
  <2> QED
    BY <2>2, <2>6
<1>9. Min(Singles(staple)) = i
  <2>1. Singles(staple) \in SUBSET Nat /\ Singles(staple) # {}
    BY <1>4, <1>8
  <2>2. Min(Singles(staple)) \in Singles(staple)
    BY <2>1, MinIs
  <2> QED
    BY <1>8, <2>2
<1>10. staple.signer \in ResponderKey(staple)
  <2>1. CASE ByIssuer(staple)
    <3>1. staple.signer = key
      BY <1>3, <1>5, <2>1 DEF Plain, ByIssuer
    <3> QED
      BY <1>3, <2>1, <3>1 DEF ResponderKey
  <2>2. CASE ~ByIssuer(staple)
    <3>1. /\ staple.signer # key
          /\ \E c \in ToSet(staple.certs) :
               /\ named(c.subject, c.key)
               /\ \A d \in ToSet(staple.certs) : named(d.subject, d.key) \/ d.key = staple.signer => d = c
      BY <1>3, <1>5, <2>2 DEF Plain, ByIssuer
    <3>2. PICK c \in ToSet(staple.certs) :
               /\ named(c.subject, c.key)
               /\ \A d \in ToSet(staple.certs) : named(d.subject, d.key) \/ d.key = staple.signer => d = c
      BY <3>1
    <3>3. PICK k \in DOMAIN staple.certs :
            LET d == staple.certs[k]
            IN /\ d.key = staple.signer /\ d.issuer = Leaf.issuer /\ VerifySignedObject(d, key)
               /\ d.ocsp /\ d.digital /\ InDate(d) /\ ~d.odd
      BY <1>5, <3>1 DEF Vouched
    <3>4. staple.certs[k] = c
      BY <3>2, <3>3 DEF ToSet
    <3> DEFINE found == Responders(staple)
    <3>5. found # {} /\ found \in SUBSET Nat
      BY <1>4, <3>2, <3>3, <3>4 DEF Responders
    <3>6. Min(found) \in found
      BY <3>5, MinIs
    <3>7. staple.certs[Min(found)] = c
      BY <3>2, <3>6 DEF Responders, ToSet
    <3>8. Delegated(c) /\ c.key = staple.signer
      BY <1>3, <3>3, <3>4 DEF Delegated
    <3> QED
      BY <2>2, <3>5, <3>7, <3>8 DEF ResponderKey
  <2> QED
    BY <2>1, <2>2
<1> QED
  BY <1>6, <1>7, <1>8, <1>9, <1>10 DEF VerifyOcspStaple

\* Which paths are good depends on the call alone.
LEMMA SameGood ==
  ASSUME case' = case
  PROVE  \A p, a : Good(p, a)' = Good(p, a)
PROOF
<1>1. chain' = chain /\ policy' = policy /\ Leaf' = Leaf /\ MayServe(Leaf)' = MayServe(Leaf)
  BY SameCall
<1>2. Paths' = Paths
  BY <1>1 DEF Paths
<1>3. \A p, a : Linked(p, a)' = Linked(p, a)
  BY <1>1 DEF Linked
<1>4. \A p : Authorities(p)' = Authorities(p)
  BY <1>1 DEF Authorities
<1>5. \A p, i : Between(p, i)' = Between(p, i)
  BY <1>1 DEF Between
<1>6. \A p, a : ValidPath(p, a)' = ValidPath(p, a)
  BY <1>1, <1>3, <1>4, <1>5 DEF ValidPath
<1>7. \A p, a : IssuerKey(p, a)' = IssuerKey(p, a)
  BY <1>1 DEF IssuerKey
<1>8. \A p, a : Vouched(p, a)' = Vouched(p, a)
  BY <1>1, <1>7 DEF Vouched
<1>9. \A p, a : Acceptable(p, a)' = Acceptable(p, a)
  BY <1>1, <1>6, <1>8 DEF Acceptable
<1>10. \A p, a : Unrivalled(p, a)' = Unrivalled(p, a)
  BY <1>1 DEF Unrivalled
<1>11. \A p, a : Plain(p, a)' = Plain(p, a)
  BY <1>1, <1>7 DEF Plain
<1>12. \A p : Supported(p)' = Supported(p)
  BY <1>1 DEF Supported, Issuing
<1> QED
  BY <1>1, <1>2, <1>9, <1>10, <1>11, <1>12 DEF Good

\* Before the first certificate the path can still become every good one.
LEMMA InitTrack == Init => TrackInv
PROOF
<1> SUFFICES ASSUME Init, NEW p, NEW a, Good(p, a) PROVE Follows(p)
  BY DEF Init, TrackInv
<1>1. Called
  BY DEF Init, Called
<1>2. Len(p) \in Nat \ {0} /\ p[1] = 1
  BY <1>1, GoodFacts
<1> QED
  BY <1>2 DEF Init, Follows

\* Every step keeps a good path in reach.
LEMMA TrackStep == TrustInv /\ TrackInv /\ [Next]_vars => TrackInv'
PROOF
<1> SUFFICES ASSUME TrustInv, TrackInv, [Next]_vars, Validates', ChainParses',
                    NEW p, NEW a, Good(p, a)'
             PROVE  /\ at' # "refused" /\ Follows(p)'
                    /\ at' \in {"judge", "pins", "staple"} => Len(path') = Len(p) /\ anchor' = a
  BY DEF TrackInv
<1>1. case' = case
  BY DEF Next, TrustNone, TrustCustom, Validate, ReachAnchor, Extend, NoIssuer, JudgeIssuer,
         JudgeLeaf, JudgeRefuses, CheckPins, CheckRevocation, Pass, Refuse, vars
<1>2. /\ Validates /\ ChainParses /\ Good(p, a) /\ chain' = chain
      /\ Called /\ PathOK
  BY <1>1, SameCall, SameGood DEF TrustInv
<1>3. /\ at # "refused" /\ Follows(p)
      /\ at \in {"judge", "pins", "staple"} => Len(path) = Len(p) /\ anchor = a
  BY <1>2 DEF TrackInv
<1>4. path' = path => Follows(p)'
  BY <1>2, <1>3 DEF Follows
<1>5. CASE UNCHANGED vars
  BY <1>3, <1>4, <1>5 DEF vars
<1>6. CASE TrustNone \/ TrustCustom
  BY <1>2, <1>6 DEF TrustNone, TrustCustom, Validates
<1>7. CASE Validate
  BY <1>2, <1>3, <1>4, <1>7 DEF Validate, Pass, Refuse
<1>8. CASE ReachAnchor
  <2>1. Len(path) = Len(p) /\ \A k \in Anchoring : policy.anchors[k] = a
    BY <1>2, <1>3, <1>8, AnchorFound DEF ReachAnchor
  <2>2. Min(Anchoring) \in Anchoring
    <3>1. Anchoring \in SUBSET Nat /\ Anchoring # {}
      BY <1>2, <1>8, CallFacts DEF ReachAnchor, Anchoring, AnchorCandidates
    <3> QED
      BY <3>1, MinIs
  <2> QED
    BY <1>3, <1>4, <1>8, <2>1, <2>2 DEF ReachAnchor
<1>9. CASE Extend
  <2>1. Len(path) # Len(p)
    BY <1>2, <1>3, <1>9, AnchorFound DEF Extend
  <2>2. Suitable # {} /\ Len(path) + 1 \in 1..Len(p)
        /\ \A m \in Suitable : chain[m] = chain[p[Len(path) + 1]]
    BY <1>2, <1>3, <2>1, NextFound
  <2> DEFINE next == Min(Suitable)
  <2>3. next \in Suitable /\ next \in DOMAIN chain
    <3>1. Suitable \subseteq DOMAIN chain /\ DOMAIN chain \subseteq Nat
      BY <1>2, CallFacts DEF Suitable, Signing, Candidates, CandidatesOf
    <3> QED
      BY <2>2, <3>1, MinIs
  <2> HIDE DEF next
  <2>4. /\ Len(path) \in Nat /\ Len(path') = Len(path) + 1 /\ path'[Len(path) + 1] = next
        /\ \A i \in 1..Len(path) : path'[i] = path[i]
    <3>1. path \in Seq(DOMAIN chain) /\ path' = Append(path, next)
      BY <1>2, <1>9 DEF PathOK, Extend, next
    <3> QED
      BY <2>3, <3>1, AppendProperties
  <2>5. \A i \in 1..(Len(path) + 1) : chain[path'[i]] = chain[p[i]]
    <3> TAKE i \in 1..(Len(path) + 1)
    <3>1. i = Len(path) + 1 \/ i \in 1..Len(path)
      BY <2>4
    <3> QED
      BY <1>3, <2>2, <2>3, <2>4, <3>1 DEF Follows
  <2>6. Len(path) + 1 <= Len(p)
    BY <1>2, <2>2, <2>4, GoodFacts
  <2>7. Follows(p)'
    BY <1>2, <2>4, <2>5, <2>6 DEF Follows
  <2> QED
    BY <1>9, <2>7 DEF Extend
<1>10. CASE NoIssuer
  <2>1. ~TooLong
    <3>1. Len(p) \in Nat \ {0} /\ Len(p) <= MaxPathLength /\ Len(path) <= Len(p)
          /\ Len(path) \in Nat /\ MaxPathLength \in Nat
      BY <1>2, <1>3, GoodFacts, TrustAssumption DEF Follows, PathOK
    <3> QED
      BY <3>1 DEF TooLong
  <2>2. Anchoring = {} /\ Suitable = {}
    BY <1>2, <1>3, <1>10, <2>1, NothingAborts DEF NoIssuer
  <2>3. Len(path) # Len(p)
    BY <1>2, <1>3, <2>2, AnchorFound
  <2> QED
    BY <1>2, <1>3, <2>2, <2>3, NextFound
<1>11. CASE JudgeIssuer
  BY <1>3, <1>4, <1>11 DEF JudgeIssuer
<1>12. CASE JudgeLeaf
  BY <1>3, <1>4, <1>12 DEF JudgeLeaf, Pass
<1>13. CASE JudgeRefuses
  <2>1. at = "judge" /\ Completed
    BY <1>13 DEF JudgeRefuses, Completed
  <2>2. level > 1 \/ level = 1
    <3>1. level \in 1..Len(path)
      BY <2>1 DEF TrustInv, Anchored
    <3>2. level \in Nat \ {0}
      BY <1>2, <3>1 DEF PathOK
    <3> QED
      BY <3>2
  <2> QED
    BY <1>2, <1>3, <1>13, <2>1, <2>2, JudgePasses DEF JudgeRefuses
<1>14. CASE CheckPins
  <2>1. at = "pins" /\ Completed
    BY <1>14 DEF CheckPins, Completed
  <2>2. \A i \in DOMAIN path : OnPath(i) = chain[p[i]]
    BY <1>2, <1>3 DEF PathOK, OnPath, Follows
  <2>3. DOMAIN path = DOMAIN p
    BY <1>2, <1>3, <2>1, GoodFacts DEF PathOK
  <2>4. {c.key : c \in {OnPath(i) : i \in DOMAIN path}} = {chain[p[i]].key : i \in DOMAIN p}
    BY <2>2, <2>3
  <2>5. anchor # NoAnchor
    BY <1>2, <1>3, <2>1, GoodFacts, CallFacts
  <2>6. policy.mode = "pinned" => PinMatches({OnPath(i) : i \in DOMAIN path})
    BY <1>2, <1>3, <2>1, <2>4, <2>5 DEF Good, Acceptable, PinMatches
  <2> QED
    BY <1>3, <1>4, <1>14, <2>6 DEF CheckPins, Pass
<1>15. CASE CheckRevocation
  <2>1. at = "staple"
    BY <1>15 DEF CheckRevocation
  <2>2. case.staple # NoStaple => VerifyOcspStaple(case.staple)
    BY <1>2, <1>3, <2>1, VouchedVerifies
  <2>3. case.staple = NoStaple => policy.revocation # "require-staple"
    BY <1>2 DEF Good, Acceptable
  <2> QED
    BY <1>3, <1>4, <1>15, <2>2, <2>3 DEF CheckRevocation, Pass
<1> QED
  BY <1>5, <1>6, <1>7, <1>8, <1>9, <1>10, <1>11, <1>12, <1>13, <1>14, <1>15 DEF Next

\* No trusted chain is refused, in whatever order the server sends its certificates and whatever
\* else is among them, as long as no other certificate and no other anchor rivals the path, and
\* none with the name of one of its issuers has a key on a curve that cannot be tried.
THEOREM TrustedAccepted == Spec => []TrustedIsAccepted
PROOF
<1>1. TrackInv => TrustedIsAccepted
  BY DEF TrackInv, TrustedIsAccepted, Good
<1> QED
  BY <1>1, TrustInvariant, InitTrack, TrackStep, PTL DEF Spec

-----------------------------------------------------------------------------
(***************************************************************************)
(* The redirects of Browsing, for every set of fetches, URLs, methods and  *)
(* statuses, every limit on redirects, and whatever the cookies of the jar *)
(* are.                                                                    *)
(***************************************************************************)

(***************************************************************************)
(* The invariant of one fetch, of its record alone: RedirectsSafe is       *)
(* inductive once it is known that the record has the fields a hop updates *)
(* and that its history is a sequence.                                     *)
(***************************************************************************)
AllMethods == Methods \union {"GET", "HEAD"}
Hops == Seq(AllMethods \X Urls)
HopFields == {"at", "url", "method", "body", "credentials", "history", "asked", "cookies"}

Hopping(c) ==
  /\ c.at \in {"ready", "sent"}
  /\ DOMAIN c = HopFields
  /\ c.url \in Urls /\ c.method \in AllMethods
  /\ c.history \in Hops

StaysHome(c) ==
  c.credentials =>
    \A url \in {c.url} \union {h[2] : h \in ToSet(c.history)} : Origin(url) = Origin(c.asked.url)
Matched(c) == c.body => c.method = c.asked.method
NewRequest(c) ==
  /\ Len(c.history) <= MaxRedirects /\ IsInjective(c.history)
  /\ <<c.method, c.url>> \notin ToSet(c.history)
Safe(c) == StaysHome(c) /\ Matched(c) /\ NewRequest(c)

BInv ==
  /\ DOMAIN call = Fetches
  /\ \A f \in Fetches : call[f] = Idle \/ (Hopping(call[f]) /\ Safe(call[f]))

-----------------------------------------------------------------------------
\* A status rewrites a method of the fetch into another one of them (rewriteMethod).
LEMMA RewriteTyped ==
  ASSUME NEW m \in AllMethods, NEW status
  PROVE  RewriteMethod(status, m) \in AllMethods
PROOF
BY DEF RewriteMethod, AllMethods

\* What a history holds once a hop is appended, and that it has no repetition when
\* the hop is new.
LEMMA HistoryGrows ==
  ASSUME NEW S, NEW h \in Seq(S), NEW hop \in S
  PROVE  /\ Append(h, hop) \in Seq(S) /\ Len(Append(h, hop)) = Len(h) + 1
         /\ ToSet(Append(h, hop)) = ToSet(h) \union {hop}
         /\ IsInjective(h) /\ hop \notin ToSet(h) => IsInjective(Append(h, hop))
PROOF
<1>1. /\ Append(h, hop) \in Seq(S) /\ Len(Append(h, hop)) = Len(h) + 1
      /\ Len(h) \in Nat
      /\ DOMAIN h = 1..Len(h)
      /\ DOMAIN Append(h, hop) = 1..(Len(h) + 1)
      /\ \A i \in 1..Len(h) : Append(h, hop)[i] = h[i]
      /\ Append(h, hop)[Len(h) + 1] = hop
  BY AppendProperties, LenProperties
<1> DEFINE a == Append(h, hop)
           n == Len(h)
<1> HIDE DEF a, n
<1>2. ToSet(a) = ToSet(h) \union {hop}
  <2>1. \A i \in 1..(n + 1) : i \in 1..n \/ i = n + 1
    BY <1>1 DEF n
  <2>2. \A i \in 1..n : i \in 1..(n + 1)
    BY <1>1 DEF n
  <2>3. n + 1 \in 1..(n + 1)
    BY <1>1 DEF n
  <2> QED
    BY <1>1, <2>1, <2>2, <2>3 DEF a, n, ToSet
<1>3. ASSUME IsInjective(h), hop \notin ToSet(h)
      PROVE  IsInjective(a)
  <2> SUFFICES ASSUME NEW i \in 1..(n + 1), NEW j \in 1..(n + 1), a[i] = a[j]
               PROVE  i = j
    BY <1>1 DEF a, n, IsInjective
  <2>1. CASE i \in 1..n /\ j \in 1..n
    BY <1>1, <1>3, <2>1 DEF a, n, IsInjective
  <2>2. CASE i \in 1..n /\ j = n + 1
    BY <1>1, <1>3, <2>2 DEF a, n, ToSet
  <2>3. CASE i = n + 1 /\ j \in 1..n
    BY <1>1, <1>3, <2>3 DEF a, n, ToSet
  <2>4. i \in 1..n \/ i = n + 1
    BY <1>1 DEF n
  <2>5. j \in 1..n \/ j = n + 1
    BY <1>1 DEF n
  <2> QED
    BY <2>1, <2>2, <2>3, <2>4, <2>5
<1> QED
  BY <1>1, <1>2, <1>3 DEF a

(***************************************************************************)
(* nextRequest() keeps the promises of a fetch, unless the limit is met or *)
(* the next request was already made.                                      *)
(***************************************************************************)
LEMMA NextRequestSafe ==
  ASSUME NEW c, NEW status, NEW url \in Urls, MaxRedirects \in Nat,
         Hopping(c), Safe(c),
         ~(Len(c.history) >= MaxRedirects), ~Loops(c, NextRequest(c, status, url))
  PROVE  Hopping(NextRequest(c, status, url)) /\ Safe(NextRequest(c, status, url))
PROOF
<1> DEFINE m == RewriteMethod(status, c.method)
           n == NextRequest(c, status, url)
           hop == <<c.method, c.url>>
<1>1. /\ n.at = "ready" /\ n.url = url /\ n.method = m
      /\ n.credentials = (c.credentials /\ Origin(url) = Origin(c.url))
      /\ n.body = (c.body /\ m = c.method)
      /\ n.history = Append(c.history, hop)
      /\ n.asked = c.asked
      /\ DOMAIN n = HopFields
  BY DEF NextRequest, Hopping, HopFields
<1>2. m \in AllMethods
  BY RewriteTyped DEF Hopping
<1> DEFINE a == Append(c.history, hop)
<1>3. /\ hop \in AllMethods \X Urls
      /\ c.history \in Seq(AllMethods \X Urls)
      /\ hop[2] = c.url
  BY DEF Hopping, Hops
<1>4. /\ a \in Seq(AllMethods \X Urls)
      /\ Len(a) = Len(c.history) + 1
      /\ ToSet(a) = ToSet(c.history) \union {hop}
      /\ IsInjective(c.history) /\ hop \notin ToSet(c.history) => IsInjective(a)
  <2> HIDE DEF hop
  <2> QED
    BY <1>3, HistoryGrows
<1>5. ~(<<m, url>> \in ToSet(a))
  <2>1. ~Loops(c, n)
    OBVIOUS
  <2> HIDE DEF n, m
  <2> QED
    BY <1>1, <2>1 DEF Loops
<1> HIDE DEF n, m, a
<1>6. Hopping(n)
  BY <1>1, <1>2, <1>4 DEF Hopping, Hops, a
<1>7. StaysHome(n)
  <2> SUFFICES ASSUME n.credentials,
                      NEW u \in {n.url} \union {h[2] : h \in ToSet(n.history)}
               PROVE  Origin(u) = Origin(n.asked.url)
    BY DEF StaysHome
  <2>1. c.credentials /\ Origin(url) = Origin(c.url)
    BY <1>1
  <2>2. \A v \in {c.url} \union {h[2] : h \in ToSet(c.history)} : Origin(v) = Origin(c.asked.url)
    BY <2>1 DEF Safe, StaysHome
  <2>3. CASE u = url
    BY <1>1, <2>1, <2>2, <2>3
  <2>4. CASE u \in {h[2] : h \in ToSet(a)}
    <3>1. PICK h \in ToSet(a) : u = h[2]
      BY <2>4
    <3>2. u = c.url \/ h \in ToSet(c.history)
      BY <1>3, <1>4, <3>1
    <3> HIDE DEF hop
    <3> QED
      BY <1>1, <2>2, <3>1, <3>2
  <2> QED
    BY <1>1, <2>3, <2>4 DEF a
<1>8. Matched(n)
  BY <1>1 DEF Matched, Safe
<1>9. NewRequest(n)
  <2>1. Len(c.history) \in Nat
    BY <1>3, LenProperties
  <2> QED
    BY <1>1, <1>3, <1>4, <1>5, <2>1 DEF NewRequest, Safe, a
<1> QED
  BY <1>6, <1>7, <1>8, <1>9 DEF Safe, n

\* The first request of a fetch (performFetch).
LEMMA FirstRequestSafe ==
  ASSUME NEW c, NEW url \in Urls, NEW m \in Methods, MaxRedirects \in Nat,
         c = [at |-> "ready", url |-> url, method |-> m, body |-> m \in {"POST", "PUT"},
              credentials |-> TRUE, history |-> <<>>, asked |-> [url |-> url, method |-> m],
              cookies |-> <<>>]
  PROVE  Hopping(c) /\ Safe(c)
PROOF
<1>1. ToSet(<<>>) = {}
  BY DEF ToSet
<1>2. /\ c.at = "ready" /\ c.url = url /\ c.method = m /\ c.history = <<>>
      /\ c.asked.url = url /\ c.asked.method = m
      /\ DOMAIN c = HopFields
  BY DEF HopFields
<1>3. Hopping(c)
  BY <1>2 DEF Hopping, Hops, AllMethods
<1>4. StaysHome(c)
  BY <1>1, <1>2 DEF StaysHome
<1>5. Matched(c)
  BY <1>2 DEF Matched
<1>6. NewRequest(c)
  BY <1>1, <1>2 DEF NewRequest, IsInjective
<1> QED
  BY <1>3, <1>4, <1>5, <1>6 DEF Safe

-----------------------------------------------------------------------------
\* Every step of a fetch, and of time, keeps the invariant.
LEMMA BStep == ASSUME BInv, [BrowsingNext]_browsingVars PROVE BInv'
PROOF
<1>1. MaxRedirects \in Nat
  BY BrowsingAssumption
<1>2. Idle.at = "idle"
  BY DEF Idle
<1>3. ASSUME NEW f \in Fetches, Fetch(f)
      PROVE  BInv'
  <2>1. PICK url \in Urls, m \in Methods :
          call' = [call EXCEPT ![f] =
            [at |-> "ready", url |-> url, method |-> m, body |-> m \in {"POST", "PUT"},
             credentials |-> TRUE, history |-> <<>>, asked |-> [url |-> url, method |-> m],
             cookies |-> <<>>]]
    BY <1>3 DEF Fetch
  <2>2. Hopping(call'[f]) /\ Safe(call'[f])
    BY <1>1, <2>1, FirstRequestSafe DEF BInv
  <2> QED
    BY <2>1, <2>2 DEF BInv
<1>4. ASSUME NEW f \in Fetches, Send(f)
      PROVE  BInv'
  <2> DEFINE c == call[f]
             d == call'[f]
  <2>1. Hopping(c) /\ Safe(c)
    BY <1>2, <1>4 DEF Send, BInv
  <2>2. d = [c EXCEPT !.at = "sent", !.cookies = Sorted(Matching(c.url))]
    BY <1>4 DEF Send, BInv
  <2>3. /\ d.at = "sent" /\ d.url = c.url /\ d.method = c.method /\ d.body = c.body
        /\ d.credentials = c.credentials /\ d.history = c.history /\ d.asked = c.asked
        /\ DOMAIN d = HopFields
    <3> HIDE DEF d
    <3> QED
      BY <2>1, <2>2 DEF Hopping, HopFields
  <2>4. Hopping(d) /\ Safe(d)
    <3> HIDE DEF c, d
    <3> QED
      BY <2>1, <2>3 DEF Hopping, Safe, StaysHome, Matched, NewRequest
  <2>5. \A g \in Fetches \ {f} : call'[g] = call[g]
    BY <1>4 DEF Send, BInv
  <2>6. DOMAIN call' = Fetches
    BY <1>4 DEF Send, BInv
  <2> QED
    BY <2>4, <2>5, <2>6 DEF BInv
<1>5. ASSUME NEW f \in Fetches, Respond(f)
      PROVE  BInv'
  <2>1. Hopping(call[f]) /\ Safe(call[f])
    BY <1>2, <1>5 DEF Respond, BInv
  <2>2. CASE call' = [call EXCEPT ![f] = Idle]
    BY <2>2 DEF BInv
  <2>3. ASSUME NEW status, NEW url \in Urls,
               ~(Len(call[f].history) >= MaxRedirects),
               ~Loops(call[f], NextRequest(call[f], status, url)),
               call' = [call EXCEPT ![f] = NextRequest(call[f], status, url)]
        PROVE  BInv'
    <3>1. call'[f] = NextRequest(call[f], status, url)
      BY <2>3 DEF BInv
    <3>2. Hopping(call'[f]) /\ Safe(call'[f])
      BY <1>1, <2>1, <2>3, <3>1, NextRequestSafe
    <3> QED
      BY <2>3, <3>2 DEF BInv
  <2> QED
    BY <1>5, <2>2, <2>3 DEF Respond
<1>6. CASE Tick \/ UNCHANGED browsingVars
  BY <1>6 DEF Tick, browsingVars, BInv
<1> QED
  BY <1>3, <1>4, <1>5, <1>6 DEF BrowsingNext

(***************************************************************************)
(* However a fetch is redirected, the caller's credentials stay with the   *)
(* origin it asked, a body goes only with the caller's own method, no      *)
(* request is made twice, and the limit is kept (client/redirect.js).      *)
(***************************************************************************)
THEOREM BrowsingRedirectsSafe == BrowsingSpec => []RedirectsSafe
PROOF
<1>1. BrowsingInit => BInv
  BY DEF BrowsingInit, BInv
<1>2. BInv /\ [BrowsingNext]_browsingVars => BInv'
  BY BStep
<1>3. BInv => RedirectsSafe
  <2> SUFFICES ASSUME BInv PROVE RedirectsSafe
    OBVIOUS
  <2>1. \A f \in Active : f \in Fetches /\ Safe(call[f])
    BY DEF BInv, Active, Idle
  <2>2. CredentialsStayHome
    BY <2>1 DEF CredentialsStayHome, Safe, StaysHome
  <2>3. BodyWithItsMethod
    BY <2>1 DEF BodyWithItsMethod, Safe, Matched
  <2>4. NoRequestTwice
    BY <2>1 DEF NoRequestTwice, Safe, NewRequest
  <2> QED
    BY <2>2, <2>3, <2>4 DEF RedirectsSafe
<1> QED
  BY <1>1, <1>2, <1>3, PTL DEF BrowsingSpec

-----------------------------------------------------------------------------
(***************************************************************************)
(* The cookies of Browsing, for every set of Set-Cookie servers may send,  *)
(* every URL, and any caps (CookieAssumption types what is computed with). *)
(***************************************************************************)

\* The number of predecessors in a strict total order of a finite set is a place of its own.
LEMMA Ranks ==
  ASSUME NEW A, IsFiniteSet(A), NEW R,
         \A c \in A : <<c, c>> \notin R,
         \A c, d \in A : c # d => <<c, d>> \in R \/ <<d, c>> \in R,
         \A b, c, d \in A : <<b, c>> \in R /\ <<c, d>> \in R => <<b, d>> \in R
  PROVE  LET rank == [c \in A |-> Cardinality({d \in A : <<d, c>> \in R})]
         IN  /\ rank \in Bijection(A, 0..(Cardinality(A) - 1))
             /\ \A c, d \in A : <<c, d>> \in R <=> rank[c] < rank[d]
PROOF
<1> DEFINE B(c) == {d \in A : <<d, c>> \in R}
           N == Cardinality(A)
           rank == [c \in A |-> Cardinality(B(c))]
<1>1. N \in Nat
  BY FS_CardinalityType
<1>2. ASSUME NEW c \in A
      PROVE  /\ IsFiniteSet(B(c)) /\ Cardinality(B(c)) \in Nat
             /\ Cardinality(B(c)) <= N - 1
  <2>1. IsFiniteSet(A \ {c}) /\ Cardinality(A \ {c}) = N - 1
    BY FS_RemoveElement
  <2>2. B(c) \in SUBSET (A \ {c})
    OBVIOUS
  <2> HIDE DEF B, N
  <2>3. IsFiniteSet(B(c)) /\ Cardinality(B(c)) <= Cardinality(A \ {c})
    BY <2>1, <2>2, FS_Subset
  <2> QED
    BY <2>1, <2>3, FS_CardinalityType
<1>3. ASSUME NEW c \in A, NEW d \in A, <<c, d>> \in R
      PROVE  Cardinality(B(c)) < Cardinality(B(d))
  <2>1. B(c) \in SUBSET B(d) /\ c \in B(d) /\ c \notin B(c)
    BY <1>3
  <2>2. Cardinality(B(c)) <= Cardinality(B(d)) /\ Cardinality(B(d)) # Cardinality(B(c))
    BY <1>2, <2>1, FS_Subset
  <2>3. Cardinality(B(c)) \in Nat /\ Cardinality(B(d)) \in Nat
    BY <1>2
  <2> HIDE DEF B
  <2> QED
    BY <2>2, <2>3
<1>4. \A c \in A : rank[c] = Cardinality(B(c))
  OBVIOUS
<1> HIDE DEF B
<1>5. \A c \in A : rank[c] \in 0..(N - 1)
  BY <1>1, <1>2, <1>4
<1>6. \A c, d \in A : <<c, d>> \in R => rank[c] < rank[d]
  BY <1>3, <1>4
<1> HIDE DEF rank, N
<1>7. \A c, d \in A : rank[c] < rank[d] => <<c, d>> \in R
  <2> SUFFICES ASSUME NEW c \in A, NEW d \in A, rank[c] < rank[d] PROVE <<c, d>> \in R
    OBVIOUS
  <2>1. rank[c] \in Int /\ rank[d] \in Int
    BY <1>1, <1>5
  <2>2. c # d /\ ~(rank[d] < rank[c])
    BY <2>1
  <2> QED
    BY <1>6, <2>2
<1>8. rank \in Injection(A, 0..(N - 1))
  <2>1. rank \in [A -> 0..(N - 1)]
    BY <1>5 DEF rank
  <2>2. \A c, d \in A : rank[c] = rank[d] => c = d
    <3> SUFFICES ASSUME NEW c \in A, NEW d \in A, rank[c] = rank[d] PROVE c = d
      OBVIOUS
    <3>1. rank[c] \in Int /\ ~(rank[c] < rank[d]) /\ ~(rank[d] < rank[c])
      BY <1>1, <1>5
    <3> QED
      BY <1>6, <3>1
  <2> QED
    BY <2>1, <2>2 DEF Injection, IsInjective
<1>9. IsFiniteSet(0..(N - 1)) /\ Cardinality(0..(N - 1)) = N
  <2>1. 0 \in Int /\ N - 1 \in Int
    BY <1>1
  <2>2. IsFiniteSet(0..(N - 1)) /\ Cardinality(0..(N - 1)) = IF 0 > N - 1 THEN 0 ELSE (N - 1) - 0 + 1
    BY <2>1, FS_Interval
  <2> QED
    BY <1>1, <2>2
<1>10. rank \in Surjection(A, 0..(N - 1))
  BY <1>8, <1>9, FS_Injection DEF N
<1>11. rank \in Bijection(A, 0..(N - 1))
  BY <1>8, <1>10 DEF Bijection
<1>12. \A c, d \in A : <<c, d>> \in R <=> rank[c] < rank[d]
  BY <1>6, <1>7
<1> QED
  BY <1>11, <1>12 DEF B, rank, N

\* What a cap drops: the oldest, no more than needed to come down to it.
LEMMA OldestGo ==
  ASSUME NEW A, IsFiniteSet(A), NEW limit \in Nat,
         \A c \in A : c.seq \in Int,
         \A c, d \in A : c.seq = d.seq => c = d
  PROVE  LET X == Excess(A, limit)
         IN  /\ X \subseteq A
             /\ IsFiniteSet(A \ X) /\ Cardinality(A \ X) \in Nat /\ Cardinality(A \ X) <= limit
             /\ X # {} => Cardinality(A \ X) = limit
             /\ \A c \in X, d \in A \ X : c.seq < d.seq
PROOF
<1> DEFINE N == Cardinality(A)
           k == N - limit
           R == {p \in A \X A : p[1].seq < p[2].seq}
           rank == [c \in A |-> Cardinality({d \in A : <<d, c>> \in R})]
           X == Excess(A, limit)
<1>1. N \in Nat /\ k \in Int
  BY FS_CardinalityType
<1>2. \A c, d \in A : <<c, d>> \in R <=> c.seq < d.seq
  OBVIOUS
<1>3. /\ rank \in Bijection(A, 0..(N - 1))
      /\ \A c, d \in A : <<c, d>> \in R <=> rank[c] < rank[d]
  <2> HIDE DEF R
  <2>1. \A c \in A : <<c, c>> \notin R
    BY <1>2
  <2>2. \A c, d \in A : c # d => <<c, d>> \in R \/ <<d, c>> \in R
    BY <1>2
  <2>3. \A b, c, d \in A : <<b, c>> \in R /\ <<c, d>> \in R => <<b, d>> \in R
    <3> SUFFICES ASSUME NEW b \in A, NEW c \in A, NEW d \in A, <<b, c>> \in R, <<c, d>> \in R
                 PROVE  <<b, d>> \in R
      OBVIOUS
    <3>1. b.seq < c.seq /\ c.seq < d.seq /\ b.seq \in Int /\ c.seq \in Int /\ d.seq \in Int
      BY <1>2
    <3>2. b.seq < d.seq
      BY <3>1
    <3> QED
      BY <1>2, <3>2
  <2> QED
    BY <2>1, <2>2, <2>3, Ranks
<1>4. X = {c \in A : rank[c] < k}
  <2>1. \A c \in A : {d \in A : <<d, c>> \in R} = {d \in A : d.seq < c.seq}
    OBVIOUS
  <2>2. \A c \in A : rank[c] = Cardinality({d \in A : d.seq < c.seq})
    BY <2>1
  <2>3. X = {c \in A : Cardinality({d \in A : d.seq < c.seq}) < k}
    BY DEF Excess, Oldest
  <2> HIDE DEF rank, k, X
  <2> QED
    BY <2>2, <2>3
<1>5. \A c \in A : rank[c] \in 0..(N - 1)
  <2> HIDE DEF rank
  <2> QED
    BY <1>3 DEF Bijection, Injection, IsInjective
<1>6. \A c \in X, d \in A \ X : c.seq < d.seq
  <2> HIDE DEF rank, R, k, X, N
  <2> SUFFICES ASSUME NEW c \in X, NEW d \in A \ X PROVE c.seq < d.seq
    OBVIOUS
  <2>1. c \in A /\ d \in A /\ rank[c] < k /\ ~(rank[d] < k)
    BY <1>4
  <2>2. rank[c] \in Int /\ rank[d] \in Int
    BY <1>1, <1>5, <2>1
  <2> QED
    <3>1. rank[c] < rank[d]
      BY <1>1, <2>1, <2>2
    <3> QED
      BY <1>2, <1>3, <2>1, <3>1
<1>7. X \subseteq A /\ IsFiniteSet(A \ X) /\ Cardinality(A \ X) \in Nat
  <2>1. X \subseteq A
    BY <1>4
  <2> HIDE DEF X
  <2> QED
    BY <2>1, FS_Difference, FS_CardinalityType
<1>8. CASE k <= 0
  <2>1. X = {}
    <3> HIDE DEF rank, X
    <3> QED
      BY <1>1, <1>4, <1>5, <1>8
  <2>2. A \ X = A /\ N <= limit
    BY <1>1, <1>8, <2>1
  <2> HIDE DEF X, rank
  <2> QED
    BY <1>6, <1>7, <2>1, <2>2 DEF X
<1>9. CASE k > 0
  <2> DEFINE Y == A \ X
             f == [c \in Y |-> rank[c]]
  <2>1. f \in Bijection(Y, k..(N - 1))
    <3> HIDE DEF rank, X
    <3>1. \A c \in Y : c \in A /\ rank[c] \in k..(N - 1)
      BY <1>1, <1>4, <1>5
    <3>2. \A c, d \in Y : f[c] = f[d] => c = d
      <4>1. \A c, d \in A : rank[c] = rank[d] => c = d
        BY <1>3 DEF Bijection, Injection, IsInjective
      <4>2. \A c \in Y : f[c] = rank[c] /\ c \in A
        BY <3>1
      <4> HIDE DEF f, Y
      <4> QED
        BY <4>1, <4>2
    <3>3. \A m \in k..(N - 1) : \E c \in Y : f[c] = m
      <4> SUFFICES ASSUME NEW m \in k..(N - 1) PROVE \E c \in Y : f[c] = m
        OBVIOUS
      <4>1. m \in 0..(N - 1) /\ ~(m < k)
        BY <1>1, <1>9
      <4>2. PICK c \in A : rank[c] = m
        BY <1>3, <4>1 DEF Bijection, Surjection
      <4>3. c \in Y
        BY <1>4, <4>1, <4>2
      <4> QED
        BY <4>2, <4>3
    <3>4. f \in [Y -> k..(N - 1)]
      BY <3>1
    <3> HIDE DEF f, Y, k, N
    <3>5. f \in Injection(Y, k..(N - 1))
      BY <3>2, <3>4 DEF Injection, IsInjective
    <3>6. f \in Surjection(Y, k..(N - 1))
      BY <3>3, <3>4 DEF Surjection
    <3> QED
      BY <3>5, <3>6 DEF Bijection
  <2>2. ExistsBijection(Y, k..(N - 1))
    BY <2>1 DEF ExistsBijection
  <2>3. IsFiniteSet(Y)
    BY <1>7
  <2>4. Cardinality(k..(N - 1)) = Cardinality(Y)
    BY <2>2, <2>3, FS_Bijection
  <2>5. Cardinality(k..(N - 1)) = limit
    <3>1. k <= N
      BY <1>1
    <3>2. Cardinality(k..(N - 1)) = IF k > N - 1 THEN 0 ELSE (N - 1) - k + 1
      <4>1. N - 1 \in Int
        BY <1>1
      <4> HIDE DEF k, N
      <4> QED
        BY <1>1, <4>1, FS_Interval
    <3>3. k = N - limit
      OBVIOUS
    <3> HIDE DEF k, N
    <3> QED
      BY <1>1, <3>1, <3>2, <3>3
  <2>6. Cardinality(A \ X) = limit
    BY <2>4, <2>5
  <2> QED
    BY <1>6, <1>7, <2>6
<1> QED
  BY <1>1, <1>8, <1>9

\* _enforceCaps: what is kept is within both caps, and whoever else was alive had as many
\* younger ones beside it as one of them allows.
LEMMA CapsEnforced ==
  ASSUME NEW A, IsFiniteSet(A), NEW D,
         \A c \in A : c.seq \in Int,
         \A c, d \in A : c.seq = d.seq => c = d
  PROVE  LET K == EnforceCaps(A, D)
             Younger(c) == {d \in K : d.seq > c.seq /\ d.expiry > clock}
         IN  /\ K \subseteq Alive(A) /\ IsFiniteSet(K)
             /\ Cardinality(K) <= MaxCookies
             /\ Cardinality({d \in K : d.domain = D}) <= MaxPerDomain
             /\ \A c \in Alive(A) \ K :
                  \/ Cardinality({d \in Younger(c) : d.domain = c.domain}) = MaxPerDomain
                  \/ Cardinality(Younger(c)) = MaxCookies
PROOF
<1> DEFINE L == Alive(A)
           S == {c \in L : c.domain = D}
           X == Excess(S, MaxPerDomain)
           M == L \ X
           Y == Excess(M, MaxCookies)
           K == M \ Y
           Younger(c) == {d \in K : d.seq > c.seq /\ d.expiry > clock}
<1>1. K = EnforceCaps(A, D)
  BY DEF EnforceCaps
<1>2. MaxPerDomain \in Nat /\ MaxCookies \in Nat
  BY BrowsingAssumption
<1>3. L \subseteq A /\ S \subseteq L /\ \A c \in L : c.expiry > clock
  BY DEF Alive
<1> HIDE DEF L
<1>4. IsFiniteSet(L) /\ IsFiniteSet(S) /\ IsFiniteSet(M) /\ IsFiniteSet(K)
  BY <1>3, FS_Subset
<1>5. /\ X \subseteq S /\ Cardinality(S \ X) <= MaxPerDomain
      /\ X # {} => Cardinality(S \ X) = MaxPerDomain
      /\ \A c \in X, d \in S \ X : c.seq < d.seq
  <2> HIDE DEF S
  <2> QED
    BY <1>2, <1>3, <1>4, OldestGo
<1>6. /\ Y \subseteq M /\ Cardinality(K) <= MaxCookies
      /\ Y # {} => Cardinality(K) = MaxCookies
      /\ \A c \in Y, d \in K : c.seq < d.seq
  <2>1. M \subseteq A
    BY <1>3
  <2> HIDE DEF M
  <2> QED
    BY <1>2, <1>4, <2>1, OldestGo
<1> HIDE DEF X, Y
<1>7. Cardinality({d \in K : d.domain = D}) <= MaxPerDomain
  <2>1. {d \in K : d.domain = D} \in SUBSET (S \ X)
    OBVIOUS
  <2>2. IsFiniteSet(S \ X) /\ Cardinality(S \ X) \in Nat
    BY <1>4, FS_Difference, FS_CardinalityType
  <2>3. Cardinality({d \in K : d.domain = D}) <= Cardinality(S \ X)
    BY <2>1, <2>2, FS_Subset
  <2>4. Cardinality({d \in K : d.domain = D}) \in Nat
    BY <2>1, <2>2, FS_Subset, FS_CardinalityType
  <2> HIDE DEF S, K
  <2> QED
    BY <1>2, <1>5, <2>2, <2>3, <2>4
<1>8. ASSUME NEW c \in L \ K, \A d \in K : c.seq < d.seq, Y # {}
      PROVE  Cardinality(Younger(c)) = MaxCookies
  <2>1. \A d \in K : d.seq > c.seq /\ d.expiry > clock
    BY <1>3, <1>8
  <2>2. Younger(c) = K
    BY <2>1
  <2> HIDE DEF K, Younger
  <2> QED
    BY <1>6, <1>8, <2>2
<1>9. ASSUME NEW c \in L \ K
      PROVE  \/ Cardinality({d \in Younger(c) : d.domain = c.domain}) = MaxPerDomain
             \/ Cardinality(Younger(c)) = MaxCookies
  <2>1. c \in X \/ c \in Y
    OBVIOUS
  <2>2. CASE c \in Y
    BY <1>6, <1>8, <2>2
  <2>3. CASE c \in X /\ Y \intersect S = {}
    <3>1. c.domain = D
      BY <1>5, <2>3
    <3>2. {d \in Younger(c) : d.domain = c.domain} = S \ X
      <4>1. \A d \in S \ X : d \in K /\ d.seq > c.seq /\ d.expiry > clock /\ d.domain = D
        BY <1>3, <1>5, <2>3
      <4>2. \A d \in K : d.domain = D => d \in S \ X
        OBVIOUS
      <4> QED
        BY <3>1, <4>1, <4>2
    <3> HIDE DEF S, Younger
    <3> QED
      BY <1>5, <2>3, <3>2
  <2>4. CASE c \in X /\ Y \intersect S # {}
    <3>1. PICK e \in S : e \in Y
      BY <2>4
    <3>2. e \in S \ X
      BY <1>6, <3>1
    <3>3. \A d \in K : c.seq < d.seq
      <4> SUFFICES ASSUME NEW d \in K PROVE c.seq < d.seq
        OBVIOUS
      <4>1. c.seq < e.seq /\ e.seq < d.seq
        BY <1>5, <1>6, <2>4, <3>1, <3>2
      <4>2. c.seq \in Int /\ e.seq \in Int /\ d.seq \in Int
        BY <1>3
      <4> HIDE DEF K
      <4> QED
        BY <4>1, <4>2
    <3> HIDE DEF K, Younger
    <3> QED
      BY <1>8, <3>1, <3>3
  <2> HIDE DEF K, Younger
  <2> QED
    BY <2>1, <2>2, <2>3, <2>4
<1>10. K \subseteq L
  OBVIOUS
<1> HIDE DEF M
<1> QED
  BY <1>1, <1>4, <1>6, <1>7, <1>9, <1>10 DEF L

-----------------------------------------------------------------------------
(***************************************************************************)
(* The jar against the history H of the Set-Cookie received, n of them so  *)
(* far: each cookie is the one its entry describes, in some place of the   *)
(* order of creation; it stands, as long as no later entry of the same     *)
(* name, domain and path was accepted; and whatever stands and lives is in *)
(* the jar, unless it was evicted.                                         *)
(***************************************************************************)
Entries == [set : UNION {ToSet(a) : a \in Answers}, url : Urls, time : 0..MaxTime]

Described(e, n, place) ==
  [prefix |-> e.set.prefix, name |-> e.set.name, secure |-> e.set.secure, domain |-> Domain(e),
   hostOnly |-> HostOnly(e.set), path |-> Path(e), expiry |-> Dies(e), value |-> n, seq |-> place]
Stands(H, i, n) ==
  /\ AcceptableCookie(H[i].set, H[i].url)
  /\ \A j \in (i + 1)..n : ~(AcceptableCookie(H[j].set, H[j].url) /\ Same(H[j], H[i]))

Recorded(J, ev, H, n) ==
  \A c \in J :
    /\ c.value \in 1..n /\ c.seq \in 1..n /\ c = Described(H[c.value], c.value, c.seq)
    /\ Stands(H, c.value, n) /\ c.value \notin ev
Distinct(J) == \A c, d \in J : KeyOf(c) = KeyOf(d) \/ c.seq = d.seq => c = d
Complete(J, ev, H, n, now) ==
  \A i \in 1..n : Stands(H, i, n) /\ now < Dies(H[i]) /\ i \notin ev => \E c \in J : c.value = i
Capped(J) ==
  /\ Cardinality(J) <= MaxCookies
  /\ \A c \in J : Cardinality({d \in J : d.domain = c.domain}) <= MaxPerDomain
Tallies(J, ev, H, n, now) ==
  /\ IsFiniteSet(J) /\ ev \subseteq 1..n
  /\ Recorded(J, ev, H, n) /\ Distinct(J) /\ Complete(J, ev, H, n, now) /\ Capped(J)

JarInv ==
  /\ clock \in 0..MaxTime
  /\ sets \in Seq(Entries) /\ \A i \in 1..Len(sets) : sets[i].time <= clock
  /\ Tallies(jar, evicted, sets, Len(sets), clock)

\* Only a cap evicts, and leaves as many younger ones as it allows.
FairlyEvicted(J, ev, K, ew) ==
  \A c \in J : c.value \in ew \ ev =>
    LET younger == {d \in K : d.seq > c.seq /\ d.expiry > clock}
    IN  \/ Cardinality({d \in younger : d.domain = c.domain}) = MaxPerDomain
        \/ Cardinality(younger) = MaxCookies

\* The end of a life and the path of an entry are typed.
LEMMA EntryFacts ==
  ASSUME NEW e \in Entries
  PROVE  Dies(e) \in Int /\ Len(Path(e)) \in Nat /\ e.time \in Int
PROOF
<1>1. PICK a \in Answers : e.set \in ToSet(a)
  BY DEF Entries
<1>2. e.url.path \in Seq(STRING) /\ e.time \in 0..MaxTime /\ MaxTime \in Nat /\ Forever \in Nat
  BY CookieAssumption, BrowsingAssumption DEF Entries
<1>3. {e.set.maxAge, e.set.expires} \ {Absent} \subseteq Int /\ (e.set.path = Absent \/ e.set.path \in Seq(STRING))
  BY <1>1, CookieAssumption
<1>4. Dies(e) \in Int
  <2>1. CASE e.set.maxAge # Absent
    <3>1. e.set.maxAge \in Int /\ e.time \in Int
      BY <1>2, <1>3, <2>1
    <3>2. Dies(e) = IF e.set.maxAge > 0 THEN e.time + e.set.maxAge ELSE e.time
      BY <2>1 DEF Dies
    <3> QED
      BY <3>1, <3>2
  <2>2. CASE e.set.maxAge = Absent /\ e.set.expires # Absent
    BY <1>3, <2>2 DEF Dies
  <2>3. CASE e.set.maxAge = Absent /\ e.set.expires = Absent
    BY <1>2, <2>3 DEF Dies
  <2> QED
    BY <2>1, <2>2, <2>3
<1>5. Len(DefaultPath(e.url.path)) \in Nat
  <2> DEFINE u == e.url.path
  <2>1. u \in Seq(STRING) /\ Len(u) \in Nat
    BY <1>2
  <2>2. Len(SubSeq(u, 1, Len(u) - 1)) \in Nat
    BY <2>1
  <2>3. Len(<<"">>) = 1
    OBVIOUS
  <2> HIDE DEF u
  <2> QED
    BY <2>2, <2>3 DEF DefaultPath, Front, u
<1> QED
  BY <1>2, <1>3, <1>4, <1>5 DEF Path

\* What a jar keeps of an entry: its key, and its life.
LEMMA RecordIs ==
  ASSUME clock \in 0..MaxTime, NEW e \in Entries, e.time = clock, NEW n
  PROVE  LET new == Record(e.set, e.url, n)
         IN  /\ new.expiry \in Int /\ (new.expiry > clock <=> Dies(e) > clock)
             /\ new.expiry > clock => new = Described(e, n, n)
             /\ new.value = n /\ new.seq = n /\ new.domain = Domain(e)
             /\ \A m, q : \A d \in Entries : KeyOf(Described(d, m, q)) = KeyOf(new) <=> Same(e, d)
PROOF
<1> DEFINE new == Record(e.set, e.url, n)
<1>1. Dies(e) \in Int /\ clock \in Nat /\ MaxTime \in Nat
  BY EntryFacts, BrowsingAssumption
<1>2. /\ new.expiry = Expiry(e.set) /\ new.value = n /\ new.seq = n /\ new.domain = Domain(e)
      /\ KeyOf(new) = <<Domain(e), Path(e), e.set.prefix, e.set.name>>
  BY DEF Record, Domain, Path, KeyOf
<1>3. Expiry(e.set) \in Int /\ (Expiry(e.set) > clock => Expiry(e.set) = Dies(e)) /\ (Expiry(e.set) > clock <=> Dies(e) > clock)
  <2>0. PICK a \in Answers : e.set \in ToSet(a)
    BY DEF Entries
  <2>1. {e.set.maxAge, e.set.expires} \ {Absent} \subseteq Int /\ Forever \in Int
    BY <2>0, CookieAssumption, BrowsingAssumption
  <2>2. CASE e.set.maxAge # Absent
    <3>1. e.set.maxAge \in Int
      BY <2>1, <2>2
    <3>2. Expiry(e.set) = IF e.set.maxAge <= 0 THEN -1 ELSE clock + e.set.maxAge
      BY <2>2 DEF Expiry
    <3>3. Dies(e) = IF e.set.maxAge > 0 THEN clock + e.set.maxAge ELSE clock
      BY <2>2 DEF Dies
    <3> QED
      BY <1>1, <3>1, <3>2, <3>3
  <2>3. CASE e.set.maxAge = Absent
    BY <2>1, <2>3 DEF Expiry, Dies
  <2> QED
    BY <2>2, <2>3
<1>4. new.expiry > clock => new = Described(e, n, n)
  BY <1>2, <1>3 DEF Record, Described, Domain, Path
<1>5. ASSUME NEW d \in Entries, NEW m, NEW q
      PROVE  KeyOf(Described(d, m, q)) = KeyOf(new) <=> Same(e, d)
  <2>1. KeyOf(Described(d, m, q)) = <<Domain(d), Path(d), d.set.prefix, d.set.name>>
    BY DEF KeyOf, Described
  <2> HIDE DEF new
  <2> QED
    BY <1>2, <2>1 DEF Same
<1> HIDE DEF new
<1>6. \A m, q : \A d \in Entries : KeyOf(Described(d, m, q)) = KeyOf(new) <=> Same(e, d)
  BY <1>5
<1> QED
  BY <1>2, <1>3, <1>4, <1>6 DEF new

\* The history one entry longer: what stood stands unless the new entry takes its place.
LEMMA StandsNext ==
  ASSUME NEW H, NEW n \in Nat, NEW i \in 1..n
  PROVE  Stands(H, i, n + 1) <=>
           Stands(H, i, n) /\ ~(AcceptableCookie(H[n + 1].set, H[n + 1].url) /\ Same(H[n + 1], H[i]))
PROOF
<1>1. \A j : j \in (i + 1)..(n + 1) <=> j \in (i + 1)..n \/ j = n + 1
  OBVIOUS
<1> QED
  BY <1>1 DEF Stands

\* The new entry stands when it is accepted.
LEMMA StandsLast ==
  ASSUME NEW H, NEW n \in Nat
  PROVE  Stands(H, n + 1, n + 1) <=> AcceptableCookie(H[n + 1].set, H[n + 1].url)
PROOF
<1>1. (n + 1 + 1)..(n + 1) = {}
  OBVIOUS
<1> QED
  BY <1>1 DEF Stands

\* A part of a jar is within the caps, and has no two cookies of a key or of an age.
LEMMA PartOfJar ==
  ASSUME NEW J, IsFiniteSet(J), Distinct(J), Capped(J), NEW K \in SUBSET J
  PROVE  IsFiniteSet(K) /\ Distinct(K) /\ Capped(K)
PROOF
<1>1. /\ IsFiniteSet(K) /\ Cardinality(K) \in Nat /\ Cardinality(J) \in Nat
      /\ Cardinality(K) <= Cardinality(J) /\ MaxCookies \in Nat /\ MaxPerDomain \in Nat
  BY FS_Subset, FS_CardinalityType, BrowsingAssumption
<1>2. Distinct(K)
  BY DEF Distinct
<1>3. ASSUME NEW c \in K
      PROVE  Cardinality({d \in K : d.domain = c.domain}) <= MaxPerDomain
  <2> DEFINE S == {d \in J : d.domain = c.domain}
             T == {d \in K : d.domain = c.domain}
  <2>1. IsFiniteSet(S) /\ T \in SUBSET S /\ S \in SUBSET J
    BY FS_Subset
  <2>2. Cardinality(S) <= MaxPerDomain
    BY DEF Capped
  <2> HIDE DEF S, T
  <2>3. Cardinality(T) <= Cardinality(S) /\ Cardinality(T) \in Nat /\ Cardinality(S) \in Nat
    BY <2>1, FS_Subset, FS_CardinalityType
  <2>4. Cardinality(T) <= MaxPerDomain
    BY <1>1, <2>2, <2>3
  <2> QED
    BY <2>4 DEF T
<1>4. Cardinality(K) <= MaxCookies
  BY <1>1 DEF Capped
<1> QED
  BY <1>1, <1>2, <1>3, <1>4 DEF Capped

(***************************************************************************)
(* One Set-Cookie (_setOne): the jar goes on tallying with the history.    *)
(***************************************************************************)
LEMMA SetOneStep ==
  ASSUME clock \in 0..MaxTime, NEW H, NEW n \in Nat,
         \A i \in 1..(n + 1) : H[i] \in Entries, H[n + 1].time = clock,
         NEW store, store = [cookies |-> store.cookies, evicted |-> store.evicted],
         Tallies(store.cookies, store.evicted, H, n, clock)
  PROVE  LET then == SetOne(store, H[n + 1].set, H[n + 1].url, n + 1)
         IN  /\ then = [cookies |-> then.cookies, evicted |-> then.evicted]
             /\ Tallies(then.cookies, then.evicted, H, n + 1, clock)
             /\ FairlyEvicted(store.cookies, store.evicted, then.cookies, then.evicted)
PROOF
<1> DEFINE e == H[n + 1]
           J == store.cookies
           ev == store.evicted
           m == n + 1
           new == Record(e.set, e.url, m)
           old == {c \in J : KeyOf(c) = KeyOf(new)}
           aged == IF old = {} THEN new ELSE [new EXCEPT !.seq = (CHOOSE c \in old : TRUE).seq]
           added == (J \ old) \union {aged}
           kept == EnforceCaps(added, new.domain)
           lost == {c.value : c \in Alive(added) \ kept}
           then == SetOne(store, e.set, e.url, m)
           Bars == AcceptableCookie(e.set, e.url)
           Goal == /\ then = [cookies |-> then.cookies, evicted |-> then.evicted]
                   /\ Tallies(then.cookies, then.evicted, H, m, clock)
                   /\ FairlyEvicted(J, ev, then.cookies, then.evicted)
<1> SUFFICES Goal
  OBVIOUS
<1>1. /\ IsFiniteSet(J) /\ ev \subseteq 1..n /\ Recorded(J, ev, H, n) /\ Distinct(J)
      /\ Complete(J, ev, H, n, clock) /\ Capped(J) /\ m \in Nat /\ n < m /\ \A i \in 1..n : i \in 1..m
  BY DEF Tallies
<1>2. /\ e \in Entries /\ m \in 1..m /\ \A i \in 1..n : H[i] \in Entries
      /\ clock \in Int /\ Dies(e) \in Int
  BY EntryFacts
<1>3. /\ new.expiry \in Int /\ (new.expiry > clock <=> Dies(e) > clock)
      /\ new.expiry > clock => new = Described(e, m, m)
      /\ new.value = m /\ new.seq = m /\ new.domain = Domain(e)
  BY <1>2, RecordIs
<1>4. ASSUME NEW c \in J
      PROVE  /\ c.value \in 1..n /\ c.value # m /\ c.seq \in 1..n /\ c.value \notin ev
             /\ c = Described(H[c.value], c.value, c.seq) /\ c.expiry = Dies(H[c.value])
             /\ Stands(H, c.value, n)
             /\ KeyOf(c) = KeyOf(new) <=> Same(e, H[c.value])
  <2>1. /\ c.value \in 1..n /\ c.seq \in 1..n /\ c.value \notin ev
        /\ c = Described(H[c.value], c.value, c.seq) /\ Stands(H, c.value, n)
    BY <1>1 DEF Recorded
  <2>2. c.expiry = Dies(H[c.value])
    BY <2>1 DEF Described
  <2>3. c.value # m
    BY <2>1
  <2>4. H[c.value] \in Entries
    BY <1>2, <2>1
  <2>5. KeyOf(Described(H[c.value], c.value, c.seq)) = KeyOf(new) <=> Same(e, H[c.value])
    BY <1>2, <2>4, RecordIs
  <2> HIDE DEF new, J, ev, m, e
  <2> QED
    BY <2>1, <2>2, <2>3, <2>5
<1>5. ASSUME NEW c \in J, NEW d \in J, c.value = d.value
      PROVE  c = d
  <2>1. c = Described(H[c.value], c.value, c.seq) /\ d = Described(H[c.value], c.value, d.seq)
    BY <1>4, <1>5
  <2>2. KeyOf(c) = KeyOf(d)
    BY <2>1 DEF Described, KeyOf
  <2> QED
    BY <1>1, <2>2 DEF Distinct
<1>6. \A c \in J : Stands(H, c.value, m) <=> ~(Bars /\ c \in old)
  <2> SUFFICES ASSUME NEW c \in J PROVE Stands(H, c.value, m) <=> ~(Bars /\ c \in old)
    OBVIOUS
  <2>1. c.value \in 1..n /\ Stands(H, c.value, n) /\ (c \in old <=> Same(e, H[c.value]))
    BY <1>4
  <2> HIDE DEF old, J
  <2> QED
    BY <2>1, StandsNext
<1>7. Stands(H, m, m) <=> Bars
  BY StandsLast
<1>8. \A i \in 1..n : Stands(H, i, m) => Stands(H, i, n)
  BY StandsNext
\* The entry is refused, or deletes.
<1>9. ASSUME NEW K \in SUBSET J, \A c \in J : c \in K <=> Stands(H, c.value, m),
             ~(Bars /\ Dies(e) > clock)
      PROVE  Tallies(K, ev, H, m, clock) /\ FairlyEvicted(J, ev, K, ev)
  <2> HIDE DEF J, ev, m, e, Bars
  <2>1. IsFiniteSet(K) /\ Distinct(K) /\ Capped(K)
    BY <1>1, PartOfJar
  <2>2. Recorded(K, ev, H, m)
    <3> SUFFICES ASSUME NEW c \in K
                 PROVE  /\ c.value \in 1..m /\ c.seq \in 1..m
                        /\ c = Described(H[c.value], c.value, c.seq)
                        /\ Stands(H, c.value, m) /\ c.value \notin ev
      BY DEF Recorded
    <3> QED
      BY <1>1, <1>4, <1>9
  <2>3. Complete(K, ev, H, m, clock)
    <3> SUFFICES ASSUME NEW i \in 1..m, Stands(H, i, m), clock < Dies(H[i]), i \notin ev
                 PROVE  \E c \in K : c.value = i
      BY DEF Complete
    <3>1. i # m
      BY <1>2, <1>7, <1>9 DEF e, m
    <3>2. i \in 1..n
      BY <3>1 DEF m
    <3>3. PICK c \in J : c.value = i
      BY <1>1, <1>8, <3>2 DEF Complete
    <3> QED
      BY <1>9, <3>3
  <2>4. ev \subseteq 1..m
    BY <1>1
  <2> QED
    BY <2>1, <2>2, <2>3, <2>4 DEF Tallies, FairlyEvicted
<1>10. CASE ~Bars
  <2>1. then = store
    BY <1>10 DEF SetOne
  <2>2. \A c \in J : c \in J <=> Stands(H, c.value, m)
    BY <1>6, <1>10
  <2>3. Tallies(J, ev, H, m, clock) /\ FairlyEvicted(J, ev, J, ev)
    BY <1>9, <1>10, <2>2
  <2>4. then.cookies = J /\ then.evicted = ev /\ then = [cookies |-> then.cookies, evicted |-> then.evicted]
    <3> HIDE DEF then
    <3> QED
      BY <2>1
  <2> HIDE DEF then, Bars, J, ev, m
  <2> QED
    BY <2>3, <2>4
<1>11. CASE Bars /\ new.expiry <= clock
  <2>1. then = [cookies |-> J \ old, evicted |-> ev]
    BY <1>11 DEF SetOne
  <2>2. \A c \in J : c \in J \ old <=> Stands(H, c.value, m)
    BY <1>6, <1>11
  <2>3. ~(Dies(e) > clock)
    <3> HIDE DEF new
    <3> QED
      BY <1>2, <1>3, <1>11
  <2>4. Tallies(J \ old, ev, H, m, clock) /\ FairlyEvicted(J, ev, J \ old, ev)
    BY <1>9, <2>2, <2>3
  <2>5. then.cookies = J \ old /\ then.evicted = ev /\ then = [cookies |-> then.cookies, evicted |-> then.evicted]
    <3> HIDE DEF then, J, old, ev
    <3> QED
      BY <2>1
  <2> HIDE DEF then, J, ev, m, old
  <2> QED
    BY <2>4, <2>5
\* It is kept.
<1>12. CASE Bars /\ ~(new.expiry <= clock)
  <2>1. then = [cookies |-> kept, evicted |-> ev \union lost]
    BY <1>12 DEF SetOne
  <2>2. new = Described(e, m, m) /\ Dies(e) > clock
    <3> HIDE DEF new
    <3> QED
      BY <1>2, <1>3, <1>12
  <2>3. PICK q \in 1..m : /\ aged = Described(e, m, q)
                          /\ \A c \in J \ old : c.seq # q
    <3> HIDE DEF J, e
    <3>1. CASE old = {}
      <4>1. \A c \in J \ old : c.seq # m
        BY <1>4
      <4> QED
        BY <1>2, <2>2, <3>1, <4>1
    <3>2. CASE old # {}
      <4> DEFINE o == CHOOSE c \in old : TRUE
      <4>1. o \in old
        BY <3>2
      <4>2. o \in J
        BY <4>1
      <4>3. o.seq \in 1..m
        <5>1. o.seq \in 1..n
          BY <1>4, <4>2
        <5> QED
          BY <5>1
      <4>4. aged = [new EXCEPT !.seq = o.seq]
        BY <3>2
      <4>5. \A c \in J \ old : c.seq # o.seq
        BY <1>1, <4>1, <4>2 DEF Distinct
      <4>6. aged = Described(e, m, o.seq)
        <5> HIDE DEF o, new
        <5> QED
          BY <2>2, <4>4 DEF Described
      <4> HIDE DEF o, aged, old
      <4> QED
        BY <4>3, <4>5, <4>6
    <3> QED
      BY <3>1, <3>2
  <2>4. /\ aged.value = m /\ aged.seq = q /\ aged.expiry = Dies(e) /\ aged.domain = Domain(e)
        /\ KeyOf(aged) = KeyOf(new)
    <3> HIDE DEF aged, new
    <3> QED
      BY <2>2, <2>3 DEF Described, KeyOf
  <2>5. \A c \in added : c = aged \/ (c \in J /\ c \notin old)
    OBVIOUS
  <2>6. IsFiniteSet(added)
    <3>1. IsFiniteSet(J \ old)
      BY <1>1, FS_Difference
    <3> HIDE DEF J, old, aged
    <3> QED
      BY <3>1, FS_AddElement
  <2>7. \A c \in J \ old : KeyOf(c) # KeyOf(aged) /\ c.seq # aged.seq /\ c.value # aged.value
    <3>1. \A c \in J \ old : KeyOf(c) # KeyOf(new)
      OBVIOUS
    <3> HIDE DEF J, old, new, aged
    <3> QED
      BY <1>4, <2>3, <2>4, <3>1
  <2>8. aged \in added /\ \A c \in J : c \notin old => c \in added
    OBVIOUS
  <2> HIDE DEF J, old, new, aged, added, then
  <2>9. Distinct(added) /\ \A c, d \in added : c.value = d.value => c = d
    BY <1>1, <1>5, <2>5, <2>7 DEF Distinct
  <2>10. \A c \in added : c.seq \in Int /\ c.value \in 1..m
    <3>1. q \in Int
      BY <2>3
    <3> QED
      BY <1>1, <1>4, <1>2, <2>4, <2>5, <3>1
  <2> DEFINE Younger(c) == {d \in kept : d.seq > c.seq /\ d.expiry > clock}
  <2>11. /\ kept \subseteq Alive(added) /\ IsFiniteSet(kept) /\ Cardinality(kept) <= MaxCookies
         /\ Cardinality({d \in kept : d.domain = new.domain}) <= MaxPerDomain
         /\ \A c \in Alive(added) \ kept :
              \/ Cardinality({d \in Younger(c) : d.domain = c.domain}) = MaxPerDomain
              \/ Cardinality(Younger(c)) = MaxCookies
    <3>1. \A c, d \in added : c.seq = d.seq => c = d
      BY <2>9 DEF Distinct
    <3> QED
      BY <2>6, <2>10, <3>1, CapsEnforced
  <2>12. Alive(added) \subseteq added
    BY DEF Alive
  <2> HIDE DEF kept, Younger
  <2>13. Recorded(kept, ev \union lost, H, m)
    <3> SUFFICES ASSUME NEW c \in kept
                 PROVE  /\ c.value \in 1..m /\ c.seq \in 1..m
                        /\ c = Described(H[c.value], c.value, c.seq)
                        /\ Stands(H, c.value, m) /\ c.value \notin ev \union lost
      BY DEF Recorded
    <3>1. c \in added
      BY <2>11, <2>12
    <3>2. c.value \notin lost
      BY <2>9, <2>12, <3>1
    <3>3. CASE c = aged
      <4>1. m \notin ev
        BY <1>1
      <4>2. c = Described(H[c.value], c.value, c.seq)
        BY <2>3, <2>4, <3>3
      <4> QED
        BY <1>2, <1>7, <1>12, <2>3, <2>4, <3>2, <3>3, <4>1, <4>2
    <3>4. CASE c \in J /\ c \notin old
      BY <1>1, <1>4, <1>6, <3>2, <3>4
    <3> QED
      BY <2>5, <3>1, <3>3, <3>4
  <2>14. Distinct(kept)
    BY <2>9, <2>11, <2>12 DEF Distinct
  <2>15. Complete(kept, ev \union lost, H, m, clock)
    <3> SUFFICES ASSUME NEW i \in 1..m, Stands(H, i, m), clock < Dies(H[i]), i \notin ev \union lost
                 PROVE  \E c \in kept : c.value = i
      BY DEF Complete
    <3>1. ASSUME NEW c \in added, c.value = i, c.expiry = Dies(H[i])
          PROVE  c \in kept
      <4>1. Dies(H[i]) \in Int
        <5>1. H[i] \in Entries
          BY <3>1
        <5> QED
          BY <5>1, EntryFacts
      <4>2. c \in Alive(added)
        BY <1>2, <3>1, <4>1 DEF Alive
      <4> QED
        BY <3>1, <4>2
    <3>2. CASE i = m
      <4> QED
        BY <2>4, <2>8, <3>1, <3>2
    <3>3. CASE i # m
      <4>1. i \in 1..n
        BY <3>3
      <4>2. PICK c \in J : c.value = i
        BY <1>1, <1>8, <4>1 DEF Complete
      <4>3. c \notin old
        BY <1>6, <1>12, <4>2
      <4> QED
        BY <1>4, <2>8, <3>1, <4>2, <4>3
    <3> QED
      BY <3>2, <3>3
  <2>16. Capped(kept)
    <3> SUFFICES ASSUME NEW c \in kept
                 PROVE  Cardinality({d \in kept : d.domain = c.domain}) <= MaxPerDomain
      BY <2>11 DEF Capped
    <3>1. CASE c.domain = new.domain
      BY <2>11, <3>1
    <3>2. CASE c.domain # new.domain
      <4> DEFINE S == {d \in J : d.domain = c.domain}
                 T == {d \in kept : d.domain = c.domain}
      <4>1. \A d \in kept : d.domain = c.domain => d \in J
        BY <1>3, <2>4, <2>5, <2>11, <2>12, <3>2
      <4>2. c \in J /\ T \in SUBSET S /\ S \in SUBSET J
        BY <4>1
      <4>3. Cardinality(S) <= MaxPerDomain /\ IsFiniteSet(S)
        BY <1>1, <4>2, FS_Subset DEF Capped
      <4> HIDE DEF S, T
      <4>4. Cardinality(T) <= Cardinality(S) /\ Cardinality(T) \in Nat /\ Cardinality(S) \in Nat /\ MaxPerDomain \in Nat
        BY <4>2, <4>3, FS_Subset, FS_CardinalityType, BrowsingAssumption
      <4>5. Cardinality(T) <= MaxPerDomain
        BY <4>3, <4>4
      <4> QED
        BY <4>5 DEF T
    <3> QED
      BY <3>1, <3>2
  <2>17. ev \union lost \subseteq 1..m
    BY <1>1, <2>10, <2>12
  <2>18. Tallies(kept, ev \union lost, H, m, clock)
    BY <2>11, <2>13, <2>14, <2>15, <2>16, <2>17 DEF Tallies
  <2>19. FairlyEvicted(J, ev, kept, ev \union lost)
    <3> SUFFICES ASSUME NEW c \in J, c.value \in (ev \union lost) \ ev
                 PROVE  \/ Cardinality({d \in Younger(c) : d.domain = c.domain}) = MaxPerDomain
                        \/ Cardinality(Younger(c)) = MaxCookies
      BY DEF FairlyEvicted, Younger
    <3>1. PICK x \in Alive(added) \ kept : x.value = c.value
      OBVIOUS
    <3>2. x = c
      BY <1>4, <1>5, <2>4, <2>5, <2>12, <3>1
    <3> QED
      BY <2>11, <3>1, <3>2
  <2>20. then.cookies = kept /\ then.evicted = ev \union lost /\ then = [cookies |-> then.cookies, evicted |-> then.evicted]
    <3> HIDE DEF lost, ev
    <3> QED
      BY <2>1
  <2> HIDE DEF lost, ev, m
  <2> QED
    BY <2>18, <2>19, <2>20
<1> HIDE DEF new, Bars, Goal
<1> QED
  BY <1>10, <1>11, <1>12

\* A jar that tallies with a history tallies with a longer one up to where it was.
LEMMA LongerHistory ==
  ASSUME NEW G, NEW H, NEW n \in Nat, \A i \in 1..n : H[i] = G[i],
         NEW J, NEW ev, NEW now, Tallies(J, ev, G, n, now)
  PROVE  Tallies(J, ev, H, n, now)
PROOF
<1>1. ASSUME NEW i \in 1..n
      PROVE  Stands(H, i, n) <=> Stands(G, i, n)
  <2>1. \A j \in (i + 1)..n : j \in 1..n
    OBVIOUS
  <2> QED
    BY <2>1 DEF Stands
<1>2. Recorded(J, ev, H, n)
  BY <1>1 DEF Tallies, Recorded
<1>3. Complete(J, ev, H, n, now)
  BY <1>1 DEF Tallies, Complete
<1> QED
  BY <1>2, <1>3 DEF Tallies

-----------------------------------------------------------------------------
\* The jar after each Set-Cookie of a response, as SetFromResponse computes it.
Filing(url, answer, m, p) ==
  p = [i \in 0..m |-> IF i = 0 THEN [cookies |-> jar, evicted |-> evicted]
                      ELSE SetOne(p[i - 1], answer[i], url, Len(sets) + i)]

\* There is such a function, for a response of any length.
LEMMA FilingExists ==
  ASSUME NEW url, NEW answer, NEW m \in Nat
  PROVE  \E p : Filing(url, answer, m, p)
PROOF
<1> DEFINE T == {n \in Nat : \E p : Filing(url, answer, n, p)}
           start == [cookies |-> jar, evicted |-> evicted]
<1>1. 0 \in T
  <2>1. \A i \in 0..0 : i = 0
    OBVIOUS
  <2> DEFINE p == [i \in 0..0 |-> start]
  <2>2. Filing(url, answer, 0, p)
    BY <2>1 DEF Filing
  <2> QED
    BY <2>2
<1>2. ASSUME NEW n \in Nat, n \in T PROVE n + 1 \in T
  <2>1. PICK p : Filing(url, answer, n, p)
    BY <1>2
  <2> DEFINE u == [i \in 0..(n + 1) |->
                     IF i = n + 1 THEN SetOne(p[n], answer[n + 1], url, Len(sets) + (n + 1)) ELSE p[i]]
  <2>2. ASSUME NEW i \in 0..(n + 1)
        PROVE  u[i] = (IF i = 0 THEN start ELSE SetOne(u[i - 1], answer[i], url, Len(sets) + i))
    <3>1. CASE i = n + 1
      <4>1. i - 1 = n /\ i # 0 /\ n \in 0..(n + 1) /\ n # n + 1
        BY <3>1
      <4> QED
        BY <3>1, <4>1
    <3>2. CASE i # n + 1
      <4>1. i \in 0..n /\ (i # 0 => i - 1 \in 0..(n + 1) /\ i - 1 # n + 1)
        BY <3>2
      <4>2. u[i] = p[i] /\ (i # 0 => u[i - 1] = p[i - 1])
        BY <3>2, <4>1
      <4>3. p[i] = (IF i = 0 THEN start ELSE SetOne(p[i - 1], answer[i], url, Len(sets) + i))
        BY <2>1, <4>1 DEF Filing
      <4> QED
        BY <4>2, <4>3
    <3> QED
      BY <3>1, <3>2
  <2>3. DOMAIN u = 0..(n + 1) /\ u = [i \in DOMAIN u |-> u[i]]
    OBVIOUS
  <2> HIDE DEF u
  <2>4. Filing(url, answer, n + 1, u)
    BY <2>2, <2>3 DEF Filing
  <2>5. n + 1 \in Nat
    OBVIOUS
  <2> QED
    BY <2>4, <2>5
<1>3. Nat \subseteq T
  <2> HIDE DEF T
  <2> QED
    BY <1>1, <1>2, SetInduction
<1> QED
  BY <1>3

\* A response: its cookies one after another (setFromResponse).
LEMMA ReceiveKeeps ==
  ASSUME JarInv, NEW url \in Urls, NEW answer \in Answers, Receive(url, answer)
  PROVE  /\ sets' \in Seq(Entries) /\ \A i \in 1..Len(sets') : sets'[i].time <= clock
         /\ Tallies(jar', evicted', sets', Len(sets'), clock)
         /\ Len(sets') = Len(sets) + 1 => FairlyEvicted(jar, evicted, jar', evicted')
PROOF
<1> DEFINE L == Len(sets)
           k == Len(answer)
           more == [i \in DOMAIN answer |-> [set |-> answer[i], url |-> url, time |-> clock]]
           H == sets \o more
           store == CHOOSE p : Filing(url, answer, k, p)
<1>1. /\ clock \in 0..MaxTime /\ clock \in Int /\ sets \in Seq(Entries) /\ L \in Nat
      /\ \A i \in 1..L : sets[i].time <= clock
      /\ Tallies(jar, evicted, sets, L, clock)
  BY BrowsingAssumption DEF JarInv
<1>2. answer \in Seq(ToSet(answer)) /\ k \in Nat /\ DOMAIN answer = 1..k
  BY CookieAssumption
<1>3. more \in Seq(Entries) /\ Len(more) = k
  <2>1. \A i \in 1..k : answer[i] \in UNION {ToSet(a) : a \in Answers}
    BY <1>2
  <2>2. \A i \in 1..k : more[i] \in Entries
    BY <1>1, <1>2, <2>1 DEF Entries
  <2> QED
    BY <1>2, <2>2
<1>4. H \in Seq(Entries) /\ Len(H) = L + k
  <2> HIDE DEF more
  <2> QED
    BY <1>1, <1>3
<1>5. /\ \A i \in 1..L : H[i] = sets[i]
      /\ \A i \in 1..k : H[L + i] = [set |-> answer[i], url |-> url, time |-> clock]
  <2>1. \A i \in 1..L : H[i] = sets[i]
    <3> HIDE DEF more
    <3> QED
      BY <1>1, <1>3
  <2>2. \A i \in 1..k : H[L + i] = more[i]
    <3> HIDE DEF more
    <3> QED
      BY <1>1, <1>2, <1>3
  <2> HIDE DEF H
  <2> QED
    BY <1>2, <2>1, <2>2
<1> HIDE DEF H, more
<1>6. \A i \in 1..(L + k) : H[i] \in Entries /\ H[i].time <= clock
  <2> SUFFICES ASSUME NEW i \in 1..(L + k) PROVE H[i] \in Entries /\ H[i].time <= clock
    OBVIOUS
  <2>1. H[i] \in Entries
    BY <1>4
  <2>2. CASE i <= L
    <3>1. i \in 1..L
      BY <1>1, <1>2, <2>2
    <3> QED
      BY <1>1, <1>5, <2>1, <3>1
  <2>3. CASE ~(i <= L)
    <3>1. i - L \in 1..k /\ i = L + (i - L)
      BY <1>1, <1>2, <2>3
    <3>2. H[L + (i - L)] = [set |-> answer[i - L], url |-> url, time |-> clock]
      BY <1>5, <3>1
    <3>3. H[i].time = clock
      BY <3>1, <3>2
    <3> QED
      BY <1>1, <2>1, <3>3
  <2> QED
    BY <2>2, <2>3
<1>7. SetFromResponse(url, answer) = store[k]
  BY DEF SetFromResponse, Filing
<1>8. Filing(url, answer, k, store)
  BY <1>2, FilingExists
<1> HIDE DEF store
<1>9. store[0] = [cookies |-> jar, evicted |-> evicted]
  BY <1>2, <1>8 DEF Filing
<1>10. \A i \in 1..k : store[i] = SetOne(store[i - 1], answer[i], url, L + i)
  BY <1>2, <1>8 DEF Filing
<1> DEFINE Files(i) == /\ store[i] = [cookies |-> store[i].cookies, evicted |-> store[i].evicted]
                       /\ Tallies(store[i].cookies, store[i].evicted, H, L + i, clock)
<1>11. Files(0)
  <2>1. Tallies(jar, evicted, H, L, clock)
    BY <1>1, <1>5, LongerHistory
  <2>2. L + 0 = L
    BY <1>1
  <2>3. /\ store[0].cookies = jar /\ store[0].evicted = evicted
        /\ store[0] = [cookies |-> store[0].cookies, evicted |-> store[0].evicted]
    BY <1>9
  <2> QED
    BY <2>1, <2>2, <2>3
<1>12. ASSUME NEW i \in Nat, i < k, Files(i)
       PROVE  /\ Files(i + 1)
              /\ FairlyEvicted(store[i].cookies, store[i].evicted, store[i + 1].cookies, store[i + 1].evicted)
  <2> DEFINE n == L + i
             S == store[i]
  <2>1. /\ n \in Nat /\ n + 1 = L + (i + 1) /\ i + 1 \in 1..k /\ (i + 1) - 1 = i
        /\ \A j \in 1..(n + 1) : j \in 1..(L + k)
    BY <1>1, <1>2, <1>12
  <2>2. H[n + 1] = [set |-> answer[i + 1], url |-> url, time |-> clock]
    BY <1>5, <2>1
  <2>3. H[n + 1].set = answer[i + 1] /\ H[n + 1].url = url /\ H[n + 1].time = clock
    BY <2>2
  <2>4. store[i + 1] = SetOne(S, H[n + 1].set, H[n + 1].url, n + 1)
    BY <1>10, <2>1, <2>3
  <2>5. \A j \in 1..(n + 1) : H[j] \in Entries
    BY <1>6, <2>1
  <2>6. S = [cookies |-> S.cookies, evicted |-> S.evicted] /\ Tallies(S.cookies, S.evicted, H, n, clock)
    BY <1>12
  <2> HIDE DEF n, S
  <2> DEFINE then == SetOne(S, H[n + 1].set, H[n + 1].url, n + 1)
  <2>7. /\ then = [cookies |-> then.cookies, evicted |-> then.evicted]
        /\ Tallies(then.cookies, then.evicted, H, n + 1, clock)
        /\ FairlyEvicted(S.cookies, S.evicted, then.cookies, then.evicted)
    BY <1>1, <2>1, <2>3, <2>5, <2>6, SetOneStep
  <2> HIDE DEF then
  <2> QED
    BY <2>1, <2>4, <2>7 DEF then, S
<1> HIDE DEF Files
<1>13. Files(k)
  <2> DEFINE T == {i \in Nat : i <= k => Files(i)}
  <2>1. 0 \in T
    BY <1>11
  <2>2. \A i \in Nat : i \in T => i + 1 \in T
    <3> SUFFICES ASSUME NEW i \in Nat, i \in T, i + 1 <= k PROVE Files(i + 1)
      OBVIOUS
    <3>1. i < k /\ i <= k
      BY <1>2
    <3> QED
      BY <1>12, <3>1
  <2>3. Nat \subseteq T
    <3> HIDE DEF T
    <3> QED
      BY <2>1, <2>2, SetInduction
  <2> QED
    BY <1>2, <2>3
<1>14. jar' = store[k].cookies /\ evicted' = store[k].evicted /\ sets' = H
  BY <1>7 DEF Receive, H, more
<1>15. Tallies(jar', evicted', H, L + k, clock)
  BY <1>13, <1>14 DEF Files
<1>16. Len(H) = L + 1 => FairlyEvicted(jar, evicted, jar', evicted')
  <2> SUFFICES ASSUME Len(H) = L + 1 PROVE FairlyEvicted(jar, evicted, jar', evicted')
    OBVIOUS
  <2>1. k = 1 /\ 0 < k /\ 0 + 1 = k /\ 0 \in Nat
    BY <1>1, <1>2, <1>4
  <2>2. FairlyEvicted(store[0].cookies, store[0].evicted, store[0 + 1].cookies, store[0 + 1].evicted)
    BY <1>11, <1>12, <2>1
  <2>3. store[0].cookies = jar /\ store[0].evicted = evicted
    BY <1>9
  <2> QED
    BY <1>14, <2>1, <2>2, <2>3
<1> QED
  BY <1>4, <1>6, <1>14, <1>15, <1>16

-----------------------------------------------------------------------------
\* headerFor's order: every cookie is in it, the longer paths first.
LEMMA SortedIs ==
  ASSUME NEW M, IsFiniteSet(M),
         \A c \in M : c.seq \in Int /\ Len(c.path) \in Nat,
         \A c, d \in M : c.seq = d.seq => c = d
  PROVE  LET ordered == Sorted(M)
         IN  /\ DOMAIN ordered = 1..Len(ordered) /\ Len(ordered) \in Nat
             /\ {ordered[i] : i \in DOMAIN ordered} = M
             /\ \A i \in 1..(Len(ordered) - 1) : PathLength(ordered[i].path) >= PathLength(ordered[i + 1].path)
PROOF
<1> DEFINE N == Cardinality(M)
           R == {p \in M \X M : Precedes(p[1], p[2])}
           rank == [c \in M |-> Cardinality({d \in M : <<d, c>> \in R})]
           ordered == Sorted(M)
<1>1. N \in Nat
  BY FS_CardinalityType
<1>2. \A c, d \in M : <<c, d>> \in R <=> Precedes(c, d)
  OBVIOUS
<1>3. \A c \in M : PathLength(c.path) \in Int /\ c.seq \in Int
  BY DEF PathLength
<1>4. /\ rank \in Bijection(M, 0..(N - 1))
      /\ \A c, d \in M : <<c, d>> \in R <=> rank[c] < rank[d]
  <2> HIDE DEF R
  <2>1. \A c \in M : <<c, c>> \notin R
    BY <1>2, <1>3 DEF Precedes
  <2>2. \A c, d \in M : c # d => <<c, d>> \in R \/ <<d, c>> \in R
    <3> SUFFICES ASSUME NEW c \in M, NEW d \in M, c # d PROVE Precedes(c, d) \/ Precedes(d, c)
      BY <1>2
    <3>1. c.seq # d.seq
      OBVIOUS
    <3>2. /\ PathLength(c.path) \in Int /\ PathLength(d.path) \in Int
          /\ c.seq \in Int /\ d.seq \in Int
      BY <1>3
    <3> QED
      BY <3>1, <3>2 DEF Precedes
  <2>3. \A b, c, d \in M : <<b, c>> \in R /\ <<c, d>> \in R => <<b, d>> \in R
    <3> SUFFICES ASSUME NEW b \in M, NEW c \in M, NEW d \in M, Precedes(b, c), Precedes(c, d)
                 PROVE  Precedes(b, d)
      BY <1>2
    <3>1. /\ PathLength(b.path) \in Int /\ PathLength(c.path) \in Int /\ PathLength(d.path) \in Int
          /\ b.seq \in Int /\ c.seq \in Int /\ d.seq \in Int
      BY <1>3
    <3> QED
      BY <3>1 DEF Precedes
  <2> QED
    BY <2>1, <2>2, <2>3, Ranks
<1>5. \A c \in M : rank[c] = Cardinality({d \in M : Precedes(d, c)})
  <2>1. \A c \in M : {d \in M : <<d, c>> \in R} = {d \in M : Precedes(d, c)}
    OBVIOUS
  <2> QED
    BY <2>1
<1>6. /\ \A c \in M : rank[c] \in 0..(N - 1)
      /\ \A c, d \in M : rank[c] = rank[d] => c = d
      /\ \A j \in 0..(N - 1) : \E c \in M : rank[c] = j
  <2> HIDE DEF rank, N
  <2> QED
    BY <1>4 DEF Bijection, Injection, Surjection, IsInjective
<1>7. ordered = [i \in 1..N |-> CHOOSE c \in M : Cardinality({d \in M : Precedes(d, c)}) = i - 1]
  BY DEF Sorted
<1> HIDE DEF ordered, rank, R, N
<1>8. DOMAIN ordered = 1..N /\ Len(ordered) = N
  BY <1>1, <1>7
<1>9. \A i \in 1..N : ordered[i] \in M /\ rank[ordered[i]] = i - 1
  <2> SUFFICES ASSUME NEW i \in 1..N PROVE ordered[i] \in M /\ rank[ordered[i]] = i - 1
    OBVIOUS
  <2>1. i - 1 \in 0..(N - 1)
    BY <1>1
  <2>2. \E c \in M : rank[c] = i - 1
    BY <1>6, <2>1
  <2>3. \E c \in M : Cardinality({d \in M : Precedes(d, c)}) = i - 1
    BY <1>5, <2>2
  <2>4. ordered[i] \in M /\ Cardinality({d \in M : Precedes(d, ordered[i])}) = i - 1
    BY <1>7, <2>3
  <2> QED
    BY <1>5, <2>4
<1>10. {ordered[i] : i \in DOMAIN ordered} = M
  <2>1. ASSUME NEW c \in M PROVE \E i \in 1..N : ordered[i] = c
    <3>1. rank[c] + 1 \in 1..N /\ (rank[c] + 1) - 1 = rank[c]
      BY <1>1, <1>6
    <3>2. ordered[rank[c] + 1] \in M /\ rank[ordered[rank[c] + 1]] = rank[c]
      BY <1>9, <3>1
    <3> QED
      BY <1>6, <3>1, <3>2
  <2> QED
    BY <1>8, <1>9, <2>1
<1>11. ASSUME NEW i \in 1..(N - 1)
       PROVE  PathLength(ordered[i].path) >= PathLength(ordered[i + 1].path)
  <2>1. i \in 1..N /\ i + 1 \in 1..N
    BY <1>1
  <2>2. rank[ordered[i]] = i - 1 /\ rank[ordered[i + 1]] = (i + 1) - 1 /\ ordered[i] \in M /\ ordered[i + 1] \in M
    BY <1>9, <2>1
  <2>3. rank[ordered[i]] < rank[ordered[i + 1]]
    BY <2>1, <2>2
  <2>4. Precedes(ordered[i], ordered[i + 1])
    BY <1>2, <1>4, <2>2, <2>3
  <2>5. PathLength(ordered[i].path) \in Int /\ PathLength(ordered[i + 1].path) \in Int
    BY <1>3, <2>2
  <2> QED
    BY <2>4, <2>5 DEF Precedes
<1> QED
  BY <1>1, <1>8, <1>10, <1>11 DEF ordered

\* A jar that tallies sends what is due: its living cookies in scope of a URL.
LEMMA MatchingIsDue ==
  ASSUME JarInv, NEW url
  PROVE  {c.value : c \in Matching(url)} = Due(url, clock) \ evicted
PROOF
<1> DEFINE n == Len(sets)
<1>1. /\ clock \in Int /\ n \in Nat /\ sets \in Seq(Entries) /\ DOMAIN sets = 1..n
      /\ \A i \in 1..n : sets[i].time <= clock /\ sets[i] \in Entries
      /\ Recorded(jar, evicted, sets, n) /\ Complete(jar, evicted, sets, n, clock)
  BY BrowsingAssumption DEF JarInv, Tallies
<1>2. ASSUME NEW i \in 1..n
      PROVE  i \in Due(url, clock) <=>
               /\ Stands(sets, i, n) /\ clock < Dies(sets[i])
               /\ IF HostOnly(sets[i].set) THEN url.host = sets[i].url.host
                  ELSE IsSuffix(sets[i].set.domain, url.host)
               /\ PathMatches(url.path, Path(sets[i]))
               /\ sets[i].set.secure => url.scheme = "https"
  <2>1. sets[i].time <= clock
    BY <1>1
  <2>2. AcceptableCookie(sets[i].set, sets[i].url) => (sets[i].set.secure => sets[i].url.scheme = "https")
    BY DEF AcceptableCookie
  <2> QED
    BY <1>1, <2>1, <2>2 DEF Due, Accepted, Stands
<1>3. ASSUME NEW c \in jar
      PROVE  c \in Matching(url) <=> c.value \in Due(url, clock)
  <2> DEFINE e == sets[c.value]
  <2>1. c.value \in 1..n /\ c = Described(e, c.value, c.seq) /\ Stands(sets, c.value, n)
    BY <1>1 DEF Recorded
  <2>2. /\ c.expiry = Dies(e) /\ c.hostOnly = HostOnly(e.set) /\ c.domain = Domain(e)
        /\ c.path = Path(e) /\ c.secure = e.set.secure
    BY <2>1 DEF Described
  <2>3. c.expiry > clock <=> clock < Dies(e)
    <3>1. e \in Entries
      BY <1>1, <2>1
    <3>2. Dies(e) \in Int
      BY <3>1, EntryFacts
    <3> HIDE DEF e
    <3> QED
      BY <1>1, <2>2, <3>2
  <2>4. InScope(c, url) <=>
          /\ IF HostOnly(e.set) THEN url.host = e.url.host ELSE IsSuffix(e.set.domain, url.host)
          /\ PathMatches(url.path, Path(e))
          /\ e.set.secure => url.scheme = "https"
    <3>1. Domain(e) = IF HostOnly(e.set) THEN e.url.host ELSE e.set.domain
      BY DEF Domain
    <3> HIDE DEF e
    <3> QED
      BY <2>2, <3>1 DEF InScope, DomainMatches
  <2> QED
    BY <1>2, <2>1, <2>3, <2>4 DEF Matching, Alive
<1>4. ASSUME NEW i \in Due(url, clock) \ evicted
      PROVE  \E c \in Matching(url) : c.value = i
  <2>1. i \in 1..n
    BY <1>1 DEF Due
  <2>2. PICK c \in jar : c.value = i
    BY <1>1, <1>2, <2>1 DEF Complete
  <2> QED
    BY <1>3, <2>2
<1>5. \A c \in Matching(url) : c \in jar /\ c.value \notin evicted
  BY <1>1 DEF Matching, Alive, Recorded
<1> QED
  BY <1>3, <1>4, <1>5

\* Every step keeps the jar in tally.
LEMMA JarStep ==
  ASSUME BInv, JarInv, [BrowsingNext]_browsingVars
  PROVE  JarInv'
PROOF
<1> DEFINE n == Len(sets)
<1>1. /\ clock \in 0..MaxTime /\ clock \in Int /\ MaxTime \in Nat
      /\ sets \in Seq(Entries) /\ n \in Nat
      /\ \A i \in 1..n : sets[i] \in Entries /\ sets[i].time <= clock
      /\ Tallies(jar, evicted, sets, n, clock)
  BY BrowsingAssumption DEF JarInv
<1>2. ASSUME UNCHANGED <<jar, clock, sets, evicted>>
      PROVE  JarInv'
  BY <1>2 DEF JarInv
<1>3. ASSUME Tick PROVE JarInv'
  <2>1. /\ clock' = clock + 1 /\ clock + 1 \in 0..MaxTime
        /\ jar' = jar /\ sets' = sets /\ evicted' = evicted
    BY <1>1, <1>3 DEF Tick
  <2>2. \A i \in 1..n : sets[i].time <= clock + 1 /\ (clock + 1 < Dies(sets[i]) => clock < Dies(sets[i]))
    BY <1>1, EntryFacts
  <2>3. Complete(jar, evicted, sets, n, clock + 1)
    BY <1>1, <2>2 DEF Tallies, Complete
  <2>4. Tallies(jar, evicted, sets, n, clock + 1)
    BY <1>1, <2>3 DEF Tallies
  <2> QED
    BY <1>1, <2>1, <2>2, <2>4 DEF JarInv
<1>4. ASSUME NEW f \in Fetches, Send(f) PROVE JarInv'
  <2>1. jar' = Alive(jar) /\ clock' = clock /\ sets' = sets /\ evicted' = evicted
    BY <1>4 DEF Send
  <2>2. Alive(jar) \in SUBSET jar
    BY DEF Alive
  <2>3. IsFiniteSet(Alive(jar)) /\ Distinct(Alive(jar)) /\ Capped(Alive(jar))
    BY <1>1, <2>2, PartOfJar DEF Tallies
  <2>4. Recorded(Alive(jar), evicted, sets, n)
    BY <1>1, <2>2 DEF Tallies, Recorded
  <2>5. Complete(Alive(jar), evicted, sets, n, clock)
    <3> SUFFICES ASSUME NEW i \in 1..n, Stands(sets, i, n), clock < Dies(sets[i]), i \notin evicted
                 PROVE  \E c \in Alive(jar) : c.value = i
      BY DEF Complete
    <3>1. PICK c \in jar : c.value = i
      BY <1>1 DEF Tallies, Complete
    <3>2. c = Described(sets[i], i, c.seq)
      BY <1>1, <3>1 DEF Tallies, Recorded
    <3>3. c.expiry = Dies(sets[i])
      BY <3>2 DEF Described
    <3>4. Dies(sets[i]) \in Int
      BY <1>1, EntryFacts
    <3> QED
      BY <1>1, <3>1, <3>3, <3>4 DEF Alive
  <2>6. Tallies(Alive(jar), evicted, sets, n, clock)
    BY <1>1, <2>3, <2>4, <2>5 DEF Tallies
  <2> QED
    BY <1>1, <2>1, <2>6 DEF JarInv
<1>5. ASSUME NEW f \in Fetches, Respond(f) PROVE JarInv'
  <2>1. PICK answer \in Answers : Receive(call[f].url, answer) /\ clock' = clock
    BY <1>5 DEF Respond
  <2>2. call[f].url \in Urls
    <3>1. call[f].at = "sent"
      BY <1>5 DEF Respond
    <3> QED
      BY <3>1 DEF BInv, Hopping, Idle
  <2>3. /\ sets' \in Seq(Entries) /\ \A i \in 1..Len(sets') : sets'[i].time <= clock
        /\ Tallies(jar', evicted', sets', Len(sets'), clock)
    BY <2>1, <2>2, ReceiveKeeps
  <2> QED
    BY <1>1, <2>1, <2>3 DEF JarInv
<1>6. ASSUME NEW f \in Fetches, Fetch(f) PROVE JarInv'
  BY <1>2, <1>6 DEF Fetch
<1> QED
  BY <1>2, <1>3, <1>4, <1>5, <1>6 DEF BrowsingNext, browsingVars

\* What a step sends, and what it leaves in the jar.
LEMMA CookieStep ==
  ASSUME BInv, JarInv, JarInv', [BrowsingNext]_browsingVars
  PROVE  SentExactly /\ CapsKept
PROOF
<1>1. /\ Recorded(jar, evicted, sets, Len(sets)) /\ Distinct(jar) /\ IsFiniteSet(jar)
      /\ \A i \in 1..Len(sets) : sets[i] \in Entries
  BY DEF JarInv, Tallies
<1>2. DOMAIN call = Fetches
  BY DEF BInv
<1>3. SentExactly
  <2> SUFFICES ASSUME NEW f \in Fetches, call[f].at = "ready", call'[f].at = "sent"
               PROVE  LET ordered == call'[f].cookies
                      IN  /\ {ordered[i].value : i \in DOMAIN ordered} = Due(call[f].url, clock) \ evicted
                          /\ \A i \in 1..(Len(ordered) - 1) :
                               PathLength(ordered[i].path) >= PathLength(ordered[i + 1].path)
    BY DEF SentExactly
  <2>1. Send(f)
    <3>1. ASSUME NEW g \in Fetches, Fetch(g) PROVE FALSE
      <4>1. call[g].at = "idle" /\ \A h \in Fetches \ {g} : call'[h] = call[h]
        BY <1>2, <3>1 DEF Fetch
      <4> QED
        BY <4>1
    <3>2. ASSUME NEW g \in Fetches, Respond(g) PROVE FALSE
      <4>1. call[g].at = "sent" /\ \A h \in Fetches \ {g} : call'[h] = call[h]
        BY <1>2, <3>2 DEF Respond
      <4> QED
        BY <4>1
    <3>3. ASSUME NEW g \in Fetches, Send(g) PROVE g = f
      <4>1. \A h \in Fetches \ {g} : call'[h] = call[h]
        BY <1>2, <3>3 DEF Send
      <4> QED
        BY <4>1
    <3>4. ~Tick /\ ~UNCHANGED browsingVars
      BY DEF Tick, browsingVars
    <3> QED
      BY <3>1, <3>2, <3>3, <3>4 DEF BrowsingNext
  <2> DEFINE M == Matching(call[f].url)
  <2>2. call'[f].cookies = Sorted(M)
    <3>1. DOMAIN call[f] = HopFields
      BY DEF BInv, Hopping, Idle
    <3>2. call'[f] = [call[f] EXCEPT !.at = "sent", !.cookies = Sorted(M)]
      BY <1>2, <2>1 DEF Send
    <3> HIDE DEF M
    <3> QED
      BY <3>1, <3>2 DEF HopFields
  <2>3. M \in SUBSET jar
    BY DEF Matching, Alive
  <2> HIDE DEF M
  <2>4. \A c \in M : c.seq \in Int /\ Len(c.path) \in Nat
    <3> SUFFICES ASSUME NEW c \in M PROVE c.seq \in Int /\ Len(c.path) \in Nat
      OBVIOUS
    <3> DEFINE e == sets[c.value]
    <3>1. c.value \in 1..Len(sets) /\ c.seq \in 1..Len(sets) /\ c = Described(e, c.value, c.seq)
      BY <1>1, <2>3 DEF Recorded
    <3>2. e \in Entries /\ c.path = Path(e)
      BY <1>1, <3>1 DEF Described
    <3> HIDE DEF e
    <3> QED
      BY <3>1, <3>2, EntryFacts
  <2>5. \A c, d \in M : c.seq = d.seq => c = d
    BY <1>1, <2>3 DEF Distinct
  <2>6. IsFiniteSet(M)
    BY <1>1, <2>3, FS_Subset
  <2> DEFINE ordered == Sorted(M)
  <2>7. /\ {ordered[i] : i \in DOMAIN ordered} = M
        /\ \A i \in 1..(Len(ordered) - 1) : PathLength(ordered[i].path) >= PathLength(ordered[i + 1].path)
    BY <2>4, <2>5, <2>6, SortedIs
  <2> HIDE DEF ordered
  <2>8. {ordered[i].value : i \in DOMAIN ordered} = {c.value : c \in M}
    BY <2>7
  <2>9. {c.value : c \in M} = Due(call[f].url, clock) \ evicted
    BY MatchingIsDue DEF M
  <2> QED
    BY <2>2, <2>7, <2>8, <2>9 DEF ordered
<1>4. CapsKept
  <2>1. Cardinality(jar') <= MaxCookies /\ \A c \in jar' : Cardinality({d \in jar' : d.domain = c.domain}) <= MaxPerDomain
    BY DEF JarInv, Tallies, Capped
  <2>2. ASSUME NEW c \in jar, c.value \in evicted' \ evicted, Len(sets') = Len(sets) + 1
        PROVE  LET younger == {d \in jar' : d.seq > c.seq /\ d.expiry > clock}
               IN  \/ Cardinality({d \in younger : d.domain = c.domain}) = MaxPerDomain
                   \/ Cardinality(younger) = MaxCookies
    <3>1. evicted' # evicted
      BY <2>2
    <3>2. PICK f \in Fetches : Respond(f)
      BY <3>1 DEF BrowsingNext, Fetch, Send, Tick, browsingVars
    <3>3. PICK answer \in Answers : Receive(call[f].url, answer)
      BY <3>2 DEF Respond
    <3>4. call[f].url \in Urls
      <4>1. call[f].at = "sent"
        BY <3>2 DEF Respond
      <4> QED
        BY <4>1 DEF BInv, Hopping, Idle
    <3>5. FairlyEvicted(jar, evicted, jar', evicted')
      BY <2>2, <3>3, <3>4, ReceiveKeeps
    <3> QED
      BY <2>2, <3>5 DEF FairlyEvicted
  <2> QED
    BY <2>1, <2>2 DEF CapsKept
<1> QED
  BY <1>3, <1>4

(***************************************************************************)
(* The Cookie header of a request has exactly the cookies RFC 6265 derives *)
(* from the Set-Cookie received, but the evicted, the longer paths first;  *)
(* the jar keeps its caps, and evicts only what is older than as many      *)
(* living cookies as a cap allows (headerFor, setFromResponse).            *)
(***************************************************************************)
THEOREM BrowsingCookiesExact == BrowsingSpec => CookiesExact
PROOF
<1>1. BrowsingInit => BInv /\ JarInv
  <2> SUFFICES ASSUME BrowsingInit PROVE BInv /\ JarInv
    OBVIOUS
  <2>1. BInv
    BY DEF BrowsingInit, BInv
  <2>2. jar = {} /\ clock = 0 /\ sets = <<>> /\ evicted = {} /\ Len(sets) = 0
    BY DEF BrowsingInit
  <2>3. IsFiniteSet({}) /\ Cardinality({}) = 0
    BY FS_EmptySet
  <2>4. Capped({})
    BY <2>3, BrowsingAssumption DEF Capped
  <2>5. Tallies(jar, evicted, sets, Len(sets), clock)
    BY <2>2, <2>3, <2>4 DEF Tallies, Recorded, Distinct, Complete
  <2>6. sets \in Seq(Entries) /\ clock \in 0..MaxTime
    BY <2>2, BrowsingAssumption
  <2> QED
    BY <2>1, <2>2, <2>5, <2>6 DEF JarInv
<1>2. BInv /\ JarInv /\ [BrowsingNext]_browsingVars => BInv' /\ JarInv'
  BY BStep, JarStep
<1>3. BInv /\ JarInv /\ JarInv' /\ [BrowsingNext]_browsingVars => [SentExactly /\ CapsKept]_browsingVars
  BY CookieStep
<1> QED
  BY <1>1, <1>2, <1>3, PTL DEF BrowsingSpec, CookiesExact
=============================================================================
