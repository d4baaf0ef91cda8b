------------------------ MODULE BodyPipeline_proofs ------------------------
(***************************************************************************)
(* Proofs about one HTTP/1.1 connection and the pipeline of its bodies,    *)
(* for any responses of a conforming server (ambiguous ones included), any *)
(* limits and any faults: where a body ends, what is reused, what fails,   *)
(* and that the caller is given the whole body or an error.                *)
(*                                                                         *)
(* First messages: what stands where in one, and how many bytes.  Then the *)
(* connection, by the place its reader has reached in the message, and the *)
(* stages of the pipeline, each by what it has from the one before.        *)
(***************************************************************************)
EXTENDS BodyPipeline, SequenceTheorems, FiniteSetTheorems, FunctionTheorems, WellFoundedInduction,
        TLAPS

\* A set of numbers has a least one.
LEMMA LeastNat ==
  ASSUME NEW T, T \subseteq Nat, T # {}
  PROVE  \E n \in T : \A m \in T : n <= m
PROOF
<1> DEFINE R == OpToRel(<, Nat)
<1>1. IsWellFoundedOn(R, Nat)
  BY NatLessThanWellFounded
<1>2. PICK n \in T : \A m \in T : <<m, n>> \notin R
  <2> HIDE DEF R
  <2> QED
    BY <1>1, WFMin
<1>3. \A m \in T : ~(m < n)
  BY <1>2 DEF OpToRel
<1>4. n \in Nat /\ \A m \in T : m \in Nat
  OBVIOUS
<1> QED
  BY <1>3, <1>4

\* A set with 0 and every successor of a member has all numbers.
LEMMA SetInduction ==
  ASSUME NEW T, 0 \in T, \A n \in Nat : n \in T => n + 1 \in T
  PROVE  Nat \subseteq T
PROOF
<1>1. SUFFICES ASSUME Nat \ T # {} PROVE FALSE
  OBVIOUS
<1>2. PICK n \in Nat \ T : \A m \in Nat \ T : n <= m
  BY <1>1, LeastNat
<1>3. n # 0 /\ n - 1 \in Nat /\ ~(n <= n - 1)
  OBVIOUS
<1>4. n - 1 \in T
  BY <1>2, <1>3
<1> QED
  BY <1>2, <1>3, <1>4

-----------------------------------------------------------------------------
(***************************************************************************)
(* Counting the bytes among the first tokens of a message.                 *)
(***************************************************************************)
ByteAt(M, i) == M[i][1] = "byte"
BytesTo(M, p) == Cardinality({i \in 1..p : ByteAt(M, i)})

\* Finitely many ...
LEMMA BytesNat ==
  ASSUME NEW M, NEW p \in Nat
  PROVE  /\ BytesTo(M, p) \in Nat /\ BytesTo(M, p) <= p
         /\ IsFiniteSet({i \in 1..p : ByteAt(M, i)})
PROOF
<1> DEFINE S == {i \in 1..p : ByteAt(M, i)}
<1>1. S \in SUBSET (1..p)
  OBVIOUS
<1>2. IsFiniteSet(1..p) /\ Cardinality(1..p) = p
  BY FS_Interval
<1> HIDE DEF S
<1>3. IsFiniteSet(S) /\ Cardinality(S) <= p /\ Cardinality(S) \in Nat
  BY <1>1, <1>2, FS_Subset, FS_CardinalityType
<1> QED
  BY <1>3 DEF S, BytesTo

\* ... and more the further one looks.
LEMMA BytesMono ==
  ASSUME NEW M, NEW p \in Nat, NEW q \in Nat, p <= q
  PROVE  BytesTo(M, p) <= BytesTo(M, q)
PROOF
<1> DEFINE S(n) == {i \in 1..n : ByteAt(M, i)}
<1>1. S(p) \in SUBSET S(q)
  OBVIOUS
<1>2. IsFiniteSet(S(q))
  BY BytesNat
<1> HIDE DEF S
<1>3. Cardinality(S(p)) <= Cardinality(S(q))
  BY <1>1, <1>2, FS_Subset
<1> QED
  BY <1>3 DEF S, BytesTo

\* A stretch of bytes counts in full, a stretch of other tokens not at all.
LEMMA BytesRun ==
  ASSUME NEW M, NEW p \in Nat, NEW n \in Nat
  PROVE  /\ (\A i \in 1..n : ByteAt(M, p + i)) => BytesTo(M, p + n) = BytesTo(M, p) + n
         /\ (\A i \in 1..n : ~ ByteAt(M, p + i)) => BytesTo(M, p + n) = BytesTo(M, p)
PROOF
<1> DEFINE S(k) == {i \in 1..k : ByteAt(M, i)}
           X == (p + 1)..(p + n)
<1>1. IsFiniteSet(X) /\ Cardinality(X) = n
  BY FS_Interval
<1>2. IsFiniteSet(S(p)) /\ Cardinality(S(p)) = BytesTo(M, p) /\ BytesTo(M, p) \in Nat
  BY BytesNat DEF BytesTo
<1>3. \A i \in X : i - p \in 1..n /\ p + (i - p) = i
  OBVIOUS
<1>4. \A i \in 1..(p + n) : i \in 1..p \/ i \in X
  OBVIOUS
<1>5. \A i \in 1..p : i \in 1..(p + n)
  OBVIOUS
<1>6. \A i \in X : i \in 1..(p + n) /\ i \notin 1..p
  OBVIOUS
<1>7. ASSUME \A i \in 1..n : ByteAt(M, p + i) PROVE BytesTo(M, p + n) = BytesTo(M, p) + n
  <2>1. \A i \in X : ByteAt(M, i)
    BY <1>3, <1>7
  <2>2. S(p + n) = S(p) \union X /\ S(p) \intersect X = {}
    BY <1>4, <1>5, <1>6, <2>1
  <2> HIDE DEF S, X
  <2>3. Cardinality(S(p) \union X) = Cardinality(S(p)) + Cardinality(X) - Cardinality({})
    BY <1>1, <1>2, <2>2, FS_Union
  <2> QED
    BY <1>1, <1>2, <2>2, <2>3, FS_EmptySet DEF BytesTo, S
<1>8. ASSUME \A i \in 1..n : ~ ByteAt(M, p + i) PROVE BytesTo(M, p + n) = BytesTo(M, p)
  <2>1. \A i \in X : ~ ByteAt(M, i)
    BY <1>3, <1>8
  <2>2. S(p + n) = S(p)
    BY <1>4, <1>5, <1>6, <2>1
  <2> QED
    BY <2>2 DEF BytesTo
<1> QED
  BY <1>7, <1>8

\* Two messages that begin alike.
LEMMA BytesAlike ==
  ASSUME NEW M, NEW K, NEW p \in Nat, \A i \in 1..p : M[i] = K[i]
  PROVE  BytesTo(M, p) = BytesTo(K, p)
PROOF
<1>1. {i \in 1..p : ByteAt(M, i)} = {i \in 1..p : ByteAt(K, i)}
  BY DEF ByteAt
<1> QED
  BY <1>1 DEF BytesTo

\* What is left to send has the rest of the bytes.
LEMMA BytesLeft ==
  ASSUME NEW M, NEW q \in Nat, NEW n \in Nat, NEW s, DOMAIN s = 1..n,
         \A i \in 1..n : s[i] = M[q + i]
  PROVE  Cardinality({i \in DOMAIN s : s[i][1] = "byte"}) = BytesTo(M, q + n) - BytesTo(M, q)
PROOF
<1> DEFINE S(k) == {i \in 1..k : ByteAt(M, i)}
           X == {i \in (q + 1)..(q + n) : ByteAt(M, i)}
           Y == {i \in 1..n : s[i][1] = "byte"}
           f == [i \in Y |-> q + i]
<1>1. S(q + n) = S(q) \union X /\ S(q) \intersect X = {}
  <2>1. \A i \in 1..(q + n) : i \in 1..q \/ i \in (q + 1)..(q + n)
    OBVIOUS
  <2>2. \A i \in 1..q : i \in 1..(q + n)
    OBVIOUS
  <2>3. \A i \in (q + 1)..(q + n) : i \in 1..(q + n) /\ i \notin 1..q
    OBVIOUS
  <2> QED
    BY <2>1, <2>2, <2>3
<1>2. X \in SUBSET S(q + n)
  BY <1>1
<1>3. /\ IsFiniteSet(S(q + n)) /\ IsFiniteSet(S(q))
      /\ Cardinality(S(q)) = BytesTo(M, q) /\ Cardinality(S(q + n)) = BytesTo(M, q + n)
      /\ BytesTo(M, q) \in Nat /\ BytesTo(M, q + n) \in Nat
  <2>1. q + n \in Nat
    OBVIOUS
  <2> QED
    BY <2>1, BytesNat DEF BytesTo
<1>4. f \in Bijection(Y, X)
  <2>1. \A i \in 1..n : q + i \in (q + 1)..(q + n) /\ (ByteAt(M, q + i) <=> s[i][1] = "byte")
    BY DEF ByteAt
  <2>2. f \in [Y -> X]
    BY <2>1
  <2>3. \A a, b \in Y : f[a] = f[b] => a = b
    OBVIOUS
  <2>4. ASSUME NEW x \in X PROVE \E a \in Y : f[a] = x
    <3>1. x - q \in 1..n /\ q + (x - q) = x
      OBVIOUS
    <3>2. x - q \in Y
      BY <2>1, <3>1
    <3> QED
      BY <3>1, <3>2
  <2> HIDE DEF f, X, Y
  <2> QED
    BY <2>2, <2>3, <2>4 DEF Bijection, Injection, Surjection, IsInjective
<1> HIDE DEF f, S, X, Y
<1>5. IsFiniteSet(X) /\ Cardinality(X) \in Nat
  BY <1>2, <1>3, FS_Subset, FS_CardinalityType
<1>6. ExistsBijection(Y, X)
  BY <1>4 DEF ExistsBijection
<1>7. Cardinality(Y) = Cardinality(X)
  BY <1>5, <1>6, Fun_ExistsBijSymmetric, FS_Bijection
<1>8. Cardinality(S(q) \union X) = Cardinality(S(q)) + Cardinality(X) - Cardinality({})
  BY <1>1, <1>3, <1>5, FS_Union
<1>9. Cardinality(Y) = BytesTo(M, q + n) - BytesTo(M, q)
  <2>1. Cardinality({}) = 0
    BY FS_EmptySet
  <2>2. Cardinality(S(q + n)) = Cardinality(S(q)) + Cardinality(X)
    <3>1. Cardinality(S(q + n)) = Cardinality(S(q) \union X)
      BY <1>1
    <3>2. Cardinality(S(q)) \in Nat /\ Cardinality(X) \in Nat
      BY <1>3, <1>5
    <3> QED
      BY <1>8, <2>1, <3>1, <3>2
  <2> QED
    BY <1>3, <1>5, <1>7, <2>2
<1> QED
  BY <1>9 DEF Y

-----------------------------------------------------------------------------
(***************************************************************************)
(* The message of a response.                                              *)
(***************************************************************************)
Kinds == {"info", "head", "size", "byte", "crlf", "trailer", "blank", "garbled"}
Tokens == Kinds \X Nat

RespOK(r) ==
  /\ r.infos \in Nat /\ r.size \in Nat /\ r.trailers \in Nat
  /\ r.bodiless \in BOOLEAN /\ r.close \in BOOLEAN
  /\ r.te \in Seq({"chunked", "identity", "gzip"})
  /\ r.cl \in Seq(Nat) /\ r.chunks \in Seq(Nat \ {0})

\* A size line is followed by as many bytes as it says.
Framed(M) ==
  \A i \in DOMAIN M : M[i][1] = "size" =>
    \A k \in 1..M[i][2] : i + k \in DOMAIN M /\ ByteAt(M, i + k)
Unended(M) == \A i \in DOMAIN M : M[i][1] # "blank"

\* Every answer, and the one before the first request, is a response.
LEMMA AnswersOK == \A r \in Responses \union {NoResponse} : RespOK(r)
PROOF
<1>1. ASSUME NEW r \in Responses PROVE RespOK(r)
  BY Http1Assumption DEF RespOK
<1>2. RespOK(NoResponse)
  BY EmptySeq DEF RespOK, NoResponse
<1> QED
  BY <1>1, <1>2

\* The same token over and over.
LEMMA TimesIs ==
  ASSUME NEW n \in Nat, NEW t \in Tokens
  PROVE  /\ Times(n, t) \in Seq(Tokens) /\ Len(Times(n, t)) = n
         /\ \A i \in 1..n : Times(n, t)[i] = t
         /\ t[1] # "size" => Framed(Times(n, t))
         /\ t[1] # "blank" => Unended(Times(n, t))
         /\ BytesTo(Times(n, t), n) = IF t[1] = "byte" THEN n ELSE 0
PROOF
<1> DEFINE M == Times(n, t)
<1>1. M \in [1..n -> Tokens] /\ M \in Seq(Tokens) /\ \A i \in 1..n : M[i] = t
  BY DEF Times
<1>2. Len(M) = n /\ DOMAIN M = 1..n
  BY <1>1, LenProperties DEF Times
<1> HIDE DEF M
<1>3. (t[1] # "size" => Framed(M)) /\ (t[1] # "blank" => Unended(M))
  BY <1>1, <1>2 DEF Framed, Unended
<1>4. BytesTo(M, 0) = 0
  <2>1. BytesTo(M, 0) \in Nat /\ BytesTo(M, 0) <= 0
    <3>1. 0 \in Nat
      OBVIOUS
    <3> QED
      BY <3>1, BytesNat
  <2> QED
    BY <2>1
<1>5. BytesTo(M, n) = IF t[1] = "byte" THEN n ELSE 0
  <2>1. \A i \in 1..n : 0 + i = i
    OBVIOUS
  <2>2. 0 + n = n /\ 0 \in Nat
    OBVIOUS
  <2>3. CASE t[1] = "byte"
    <3>1. \A i \in 1..n : ByteAt(M, 0 + i)
      BY <1>1, <2>1, <2>3 DEF ByteAt
    <3>2. BytesTo(M, 0 + n) = BytesTo(M, 0) + n
      BY <2>2, <3>1, BytesRun
    <3> QED
      BY <1>4, <2>2, <2>3, <3>2
  <2>4. CASE t[1] # "byte"
    <3>1. \A i \in 1..n : ~ ByteAt(M, 0 + i)
      BY <1>1, <2>1, <2>4 DEF ByteAt
    <3>2. BytesTo(M, 0 + n) = BytesTo(M, 0)
      BY <2>2, <3>1, BytesRun
    <3> QED
      BY <1>4, <2>2, <2>4, <3>2
  <2> QED
    BY <2>3, <2>4
<1> QED
  BY <1>1, <1>2, <1>3, <1>5 DEF M

\* One part of a message after another.
LEMMA Joined ==
  ASSUME NEW M \in Seq(Tokens), NEW K \in Seq(Tokens)
  PROVE  /\ M \o K \in Seq(Tokens) /\ Len(M \o K) = Len(M) + Len(K)
         /\ \A i \in 1..Len(M) : (M \o K)[i] = M[i]
         /\ \A i \in 1..Len(K) : (M \o K)[Len(M) + i] = K[i]
         /\ Framed(M) /\ Framed(K) => Framed(M \o K)
         /\ Unended(M) /\ Unended(K) => Unended(M \o K)
         /\ BytesTo(M \o K, Len(M \o K)) = BytesTo(M, Len(M)) + BytesTo(K, Len(K))
PROOF
<1> DEFINE W == M \o K
           m == Len(M)
           k == Len(K)
<1>1. m \in Nat /\ k \in Nat /\ DOMAIN M = 1..m /\ DOMAIN K = 1..k
  BY LenProperties
<1>2. W \in Seq(Tokens) /\ Len(W) = m + k
      /\ \A i \in 1..(m + k) : W[i] = IF i <= m THEN M[i] ELSE K[i - m]
  BY ConcatProperties
<1>3. DOMAIN W = 1..(m + k)
  BY <1>2, LenProperties
<1> HIDE DEF W, m, k
<1>4. \A i \in 1..m : i \in 1..(m + k) /\ W[i] = M[i]
  <2>1. \A i \in 1..m : i \in 1..(m + k) /\ i <= m
    BY <1>1
  <2> QED
    BY <1>2, <2>1
<1>5. \A i \in 1..k : m + i \in 1..(m + k) /\ W[m + i] = K[i]
  <2>1. \A i \in 1..k : m + i \in 1..(m + k) /\ ~(m + i <= m) /\ (m + i) - m = i
    BY <1>1
  <2> QED
    BY <1>2, <2>1
<1>6. \A i \in 1..(m + k) : i \in 1..m \/ (i - m \in 1..k /\ m + (i - m) = i)
  BY <1>1
<1>7. ASSUME Framed(M), Framed(K) PROVE Framed(W)
  <2> SUFFICES ASSUME NEW i \in 1..(m + k), W[i][1] = "size", NEW n \in 1..W[i][2]
               PROVE  i + n \in 1..(m + k) /\ ByteAt(W, i + n)
    BY <1>3 DEF Framed
  <2>1. CASE i \in 1..m
    <3>1. i + n \in 1..m /\ ByteAt(M, i + n)
      BY <1>1, <1>4, <1>7, <2>1 DEF Framed
    <3> QED
      BY <1>4, <3>1 DEF ByteAt
  <2>2. CASE i \notin 1..m
    <3> DEFINE j == i - m
    <3>1. j \in 1..k /\ m + j = i /\ W[i] = K[j]
      BY <1>5, <1>6, <2>2
    <3>2. j + n \in 1..k /\ ByteAt(K, j + n)
      BY <1>1, <1>7, <3>1 DEF Framed
    <3>3. M \in Seq(Tokens) /\ n \in Int
      <4>1. W[i][2] \in Nat
        BY <1>2, ElementOfSeq DEF Tokens
      <4> QED
        BY <4>1
    <3>4. m + (j + n) = i + n
      BY <1>1, <3>1, <3>3
    <3>5. m + (j + n) \in 1..(m + k) /\ W[m + (j + n)] = K[j + n]
      BY <1>5, <3>2
    <3> QED
      BY <3>2, <3>4, <3>5 DEF ByteAt
  <2> QED
    BY <2>1, <2>2
<1>8. ASSUME Unended(M), Unended(K) PROVE Unended(W)
  <2> SUFFICES ASSUME NEW i \in 1..(m + k) PROVE W[i][1] # "blank"
    BY <1>3 DEF Unended
  <2>1. CASE i \in 1..m
    BY <1>1, <1>4, <1>8, <2>1 DEF Unended
  <2>2. CASE i \notin 1..m
    <3>1. i - m \in 1..k /\ W[i] = K[i - m]
      BY <1>5, <1>6, <2>2
    <3> QED
      BY <1>1, <1>8, <3>1 DEF Unended
  <2> QED
    BY <2>1, <2>2
<1>9. BytesTo(W, m + k) = BytesTo(M, m) + BytesTo(K, k)
  <2>1. BytesTo(W, m) = BytesTo(M, m)
    BY <1>1, <1>4, BytesAlike
  <2>2. \A i \in 1..k : K[i] = W[m + i]
    BY <1>5
  <2>3. Cardinality({i \in DOMAIN K : K[i][1] = "byte"}) = BytesTo(W, m + k) - BytesTo(W, m)
    BY <1>1, <2>2, BytesLeft
  <2>4. BytesTo(K, k) = Cardinality({i \in DOMAIN K : K[i][1] = "byte"})
    BY <1>1 DEF BytesTo, ByteAt
  <2>5. m + k \in Nat
    BY <1>1
  <2>6. BytesTo(W, m) \in Nat /\ BytesTo(W, m + k) \in Nat
    BY <1>1, <2>5, BytesNat
  <2> QED
    BY <2>1, <2>3, <2>4, <2>6
<1> QED
  BY <1>2, <1>4, <1>5, <1>7, <1>8, <1>9 DEF W, m, k

(***************************************************************************)
(* Total and Chunks run along the chunks.                                  *)
(***************************************************************************)
Sums(c, n, p) == p = [i \in 0..n |-> IF i = 0 THEN 0 ELSE p[i - 1] + c[i]]
Firsts(c, n, q) == q = [i \in 0..n |-> IF i = 0 THEN <<>> ELSE q[i - 1] \o Chunk(c[i])]

\* A chunk: its size line, its bytes and their CRLF.
LEMMA ChunkIs ==
  ASSUME NEW n \in Nat
  PROVE  /\ Chunk(n) \in Seq(Tokens) /\ Framed(Chunk(n)) /\ Unended(Chunk(n))
         /\ BytesTo(Chunk(n), Len(Chunk(n))) = n
PROOF
<1> DEFINE a == Times(1, <<"size", n>>)
           b == Times(n, <<"byte", 0>>)
           c == Times(1, <<"crlf", 0>>)
<1>1. <<"size", n>> \in Tokens /\ <<"byte", 0>> \in Tokens /\ <<"crlf", 0>> \in Tokens
  BY DEF Tokens, Kinds
<1>2. a = <<<<"size", n>>>> /\ c = <<<<"crlf", 0>>>>
  BY DEF Times
<1>3. Chunk(n) = (a \o b) \o c
  BY <1>2 DEF Chunk
<1>4. 1 \in Nat
  OBVIOUS
<1>5. /\ a \in Seq(Tokens) /\ Len(a) = 1 /\ a[1] = <<"size", n>> /\ Unended(a)
      /\ BytesTo(a, 1) = 0
  <2>1. PICK t \in Tokens : t = <<"size", n>>
    BY <1>1
  <2>2. t[1] # "byte" /\ t[1] # "blank" /\ 1 \in 1..1
    BY <2>1
  <2>3. /\ Times(1, t) \in Seq(Tokens) /\ Len(Times(1, t)) = 1 /\ Times(1, t)[1] = t
        /\ Unended(Times(1, t)) /\ BytesTo(Times(1, t), 1) = 0
    BY <1>4, <2>2, TimesIs
  <2> QED
    BY <2>1, <2>3
<1>6. /\ b \in Seq(Tokens) /\ Len(b) = n /\ (\A i \in 1..n : b[i] = <<"byte", 0>>)
      /\ Framed(b) /\ Unended(b) /\ BytesTo(b, n) = n
  BY <1>1, TimesIs
<1>7. c \in Seq(Tokens) /\ Len(c) = 1 /\ Framed(c) /\ Unended(c) /\ BytesTo(c, 1) = 0
  BY <1>1, <1>4, TimesIs
<1> HIDE DEF a, b, c
<1> DEFINE ab == a \o b
<1>8. /\ ab \in Seq(Tokens) /\ Len(ab) = 1 + n /\ ab[1] = <<"size", n>> /\ Unended(ab)
      /\ (\A i \in 1..n : ab[1 + i] = <<"byte", 0>>) /\ BytesTo(ab, Len(ab)) = n
  <2>1. Len(a) + Len(b) = 1 + n /\ 1 \in 1..Len(a) /\ 0 + n = n
    BY <1>5, <1>6
  <2>2. \A i \in 1..Len(b) : ab[1 + i] = b[i]
    <3>1. \A i \in 1..Len(b) : ab[Len(a) + i] = b[i]
      BY <1>5, <1>6, Joined
    <3> QED
      BY <1>5, <3>1
  <2>3. ab[1] = a[1] /\ Unended(ab) /\ ab \in Seq(Tokens) /\ Len(ab) = Len(a) + Len(b)
    BY <1>5, <1>6, <2>1, Joined
  <2>4. BytesTo(ab, Len(ab)) = BytesTo(a, Len(a)) + BytesTo(b, Len(b))
    BY <1>5, <1>6, Joined
  <2> QED
    BY <1>5, <1>6, <2>1, <2>2, <2>3, <2>4
<1> HIDE DEF ab
<1>9. Framed(ab)
  <2>1. DOMAIN ab = 1..(1 + n)
    BY <1>8, LenProperties
  <2>2. ASSUME NEW i \in 1..(1 + n), ab[i][1] = "size", NEW k \in 1..ab[i][2]
        PROVE  i + k \in 1..(1 + n) /\ ByteAt(ab, i + k)
    <3>1. i = 1
      <4>1. ASSUME i # 1 PROVE FALSE
        <5>1. i - 1 \in 1..n /\ 1 + (i - 1) = i
          BY <4>1
        <5>2. ab[i] = <<"byte", 0>>
          BY <1>8, <5>1
        <5> QED
          BY <2>2, <5>2
      <4> QED
        BY <4>1
    <3>2. k \in 1..n
      BY <1>8, <2>2, <3>1
    <3>3. ab[1 + k] = <<"byte", 0>> /\ 1 + k \in 1..(1 + n)
      BY <1>8, <3>2
    <3> QED
      BY <3>1, <3>3 DEF ByteAt
  <2> QED
    BY <2>1, <2>2 DEF Framed
<1>10. /\ ab \o c \in Seq(Tokens) /\ Framed(ab \o c) /\ Unended(ab \o c)
       /\ BytesTo(ab \o c, Len(ab \o c)) = BytesTo(ab, Len(ab)) + BytesTo(c, Len(c))
  BY <1>7, <1>8, <1>9, Joined
<1> QED
  BY <1>3, <1>7, <1>8, <1>10 DEF ab

\* The running sums and the first chunks are defined, ...
LEMMA RunsExist ==
  ASSUME NEW c \in Seq(Nat)
  PROVE  (\E p : Sums(c, Len(c), p)) /\ (\E q : Firsts(c, Len(c), q))
PROOF
<1> DEFINE T == {n \in Nat : (\E p : Sums(c, n, p)) /\ (\E q : Firsts(c, n, q))}
<1>1. Len(c) \in Nat
  OBVIOUS
<1>2. 0 \in T
  <2>1. \A i \in 0..0 : i = 0
    OBVIOUS
  <2> DEFINE p == [i \in 0..0 |-> 0]
             q == [i \in 0..0 |-> <<>>]
  <2>2. Sums(c, 0, p)
    BY <2>1 DEF Sums
  <2>3. Firsts(c, 0, q)
    BY <2>1 DEF Firsts
  <2> QED
    BY <2>2, <2>3
<1>3. ASSUME NEW n \in Nat, n \in T PROVE n + 1 \in T
  <2>1. PICK p : Sums(c, n, p)
    BY <1>3
  <2>2. PICK q : Firsts(c, n, q)
    BY <1>3
  <2> DEFINE u == [i \in 0..(n + 1) |-> IF i = n + 1 THEN p[n] + c[n + 1] ELSE p[i]]
             w == [i \in 0..(n + 1) |-> IF i = n + 1 THEN q[n] \o Chunk(c[n + 1]) ELSE q[i]]
  <2>3. ASSUME NEW i \in 0..(n + 1)
        PROVE  /\ u[i] = (IF i = 0 THEN 0 ELSE u[i - 1] + c[i])
               /\ w[i] = (IF i = 0 THEN <<>> ELSE w[i - 1] \o Chunk(c[i]))
    <3>1. CASE i = n + 1
      <4>1. i - 1 = n /\ i # 0 /\ n \in 0..(n + 1) /\ n # n + 1
        BY <3>1
      <4> QED
        BY <3>1, <4>1
    <3>2. CASE i # n + 1
      <4>1. i \in 0..n /\ (i # 0 => i - 1 \in 0..(n + 1) /\ i - 1 # n + 1)
        BY <3>2
      <4>2. u[i] = p[i] /\ w[i] = q[i] /\ (i # 0 => u[i - 1] = p[i - 1] /\ w[i - 1] = q[i - 1])
        BY <3>2, <4>1
      <4>3. p[i] = (IF i = 0 THEN 0 ELSE p[i - 1] + c[i])
        BY <2>1, <4>1 DEF Sums
      <4>4. q[i] = (IF i = 0 THEN <<>> ELSE q[i - 1] \o Chunk(c[i]))
        BY <2>2, <4>1 DEF Firsts
      <4> QED
        BY <4>2, <4>3, <4>4
    <3> QED
      BY <3>1, <3>2
  <2>4. DOMAIN u = 0..(n + 1) /\ u = [i \in DOMAIN u |-> u[i]]
        /\ DOMAIN w = 0..(n + 1) /\ w = [i \in DOMAIN w |-> w[i]]
    OBVIOUS
  <2> HIDE DEF u, w
  <2>5. Sums(c, n + 1, u)
    BY <2>3, <2>4 DEF Sums
  <2>6. Firsts(c, n + 1, w)
    BY <2>3, <2>4 DEF Firsts
  <2>7. n + 1 \in Nat
    OBVIOUS
  <2> QED
    BY <2>5, <2>6, <2>7
<1>4. Nat \subseteq T
  <2> HIDE DEF T
  <2> QED
    BY <1>2, <1>3, SetInduction
<1> QED
  BY <1>1, <1>4

\* ... so they are what Total and Chunks say: the chunks hold that many bytes.
LEMMA ChunksAre ==
  ASSUME NEW r, RespOK(r)
  PROVE  /\ Total(r) \in Nat
         /\ Chunks(r) \in Seq(Tokens) /\ Framed(Chunks(r)) /\ Unended(Chunks(r))
         /\ BytesTo(Chunks(r), Len(Chunks(r))) = Total(r)
PROOF
<1> DEFINE c == r.chunks
           p == CHOOSE x : Sums(c, Len(c), x)
           q == CHOOSE x : Firsts(c, Len(c), x)
           T == {n \in Nat : n <= Len(c) =>
                   /\ p[n] \in Nat /\ q[n] \in Seq(Tokens) /\ Framed(q[n]) /\ Unended(q[n])
                   /\ BytesTo(q[n], Len(q[n])) = p[n]}
<1>1. c \in Seq(Nat) /\ Len(c) \in Nat /\ \A i \in 1..Len(c) : c[i] \in Nat
  <2>1. c \in Seq(Nat \ {0})
    BY DEF RespOK
  <2> QED
    BY <2>1
<1>2. Total(r) = p[Len(c)] /\ Chunks(r) = q[Len(c)]
  BY DEF Total, Chunks, Sums, Firsts
<1>3. Sums(c, Len(c), p) /\ Firsts(c, Len(c), q)
  BY <1>1, RunsExist
<1> HIDE DEF p, q, c
<1>4. p[0] = 0 /\ q[0] = <<>>
  BY <1>1, <1>3 DEF Sums, Firsts
<1>5. \A n \in 1..Len(c) : p[n] = p[n - 1] + c[n] /\ q[n] = q[n - 1] \o Chunk(c[n])
  <2> SUFFICES ASSUME NEW n \in 1..Len(c)
               PROVE p[n] = p[n - 1] + c[n] /\ q[n] = q[n - 1] \o Chunk(c[n])
    OBVIOUS
  <2>1. n \in 0..Len(c) /\ n # 0
    BY <1>1
  <2> QED
    BY <1>3, <2>1 DEF Sums, Firsts
<1>6. 0 \in T
  <2>1. <<>> \in Seq(Tokens) /\ Len(<<>>) = 0 /\ DOMAIN <<>> = {}
    BY EmptySeq
  <2>2. Framed(<<>>) /\ Unended(<<>>)
    BY <2>1 DEF Framed, Unended
  <2>3. BytesTo(<<>>, 0) \in Nat /\ BytesTo(<<>>, 0) <= 0
    <3>1. 0 \in Nat
      OBVIOUS
    <3> QED
      BY <3>1, BytesNat
  <2>4. BytesTo(<<>>, 0) = 0
    BY <2>3
  <2> QED
    <3>1. /\ p[0] \in Nat /\ q[0] \in Seq(Tokens) /\ Framed(q[0]) /\ Unended(q[0])
          /\ BytesTo(q[0], Len(q[0])) = p[0]
      BY <1>4, <2>1, <2>2, <2>4
    <3> QED
      BY <3>1
<1>7. ASSUME NEW n \in Nat, n \in T PROVE n + 1 \in T
  <2>1. n + 1 \in Nat
    OBVIOUS
  <2> SUFFICES ASSUME n + 1 <= Len(c)
               PROVE /\ p[n + 1] \in Nat /\ q[n + 1] \in Seq(Tokens)
                     /\ Framed(q[n + 1]) /\ Unended(q[n + 1])
                     /\ BytesTo(q[n + 1], Len(q[n + 1])) = p[n + 1]
    BY <2>1
  <2>2. n <= Len(c) /\ n + 1 \in 1..Len(c) /\ (n + 1) - 1 = n
    BY <1>1
  <2>3. /\ p[n] \in Nat /\ q[n] \in Seq(Tokens) /\ Framed(q[n]) /\ Unended(q[n])
        /\ BytesTo(q[n], Len(q[n])) = p[n]
    BY <1>7, <2>2
  <2> DEFINE k == Chunk(c[n + 1])
  <2>4. c[n + 1] \in Nat
    BY <1>1, <2>2
  <2>5. k \in Seq(Tokens) /\ Framed(k) /\ Unended(k) /\ BytesTo(k, Len(k)) = c[n + 1]
    BY <2>4, ChunkIs
  <2>6. p[n + 1] = p[n] + c[n + 1] /\ q[n + 1] = q[n] \o k
    BY <1>5, <2>2
  <2> HIDE DEF k
  <2>7. /\ q[n] \o k \in Seq(Tokens) /\ Framed(q[n] \o k) /\ Unended(q[n] \o k)
        /\ BytesTo(q[n] \o k, Len(q[n] \o k)) = BytesTo(q[n], Len(q[n])) + BytesTo(k, Len(k))
    BY <2>3, <2>5, Joined
  <2> QED
    BY <2>3, <2>4, <2>5, <2>6, <2>7
<1>8. Nat \subseteq T
  <2> HIDE DEF T
  <2> QED
    BY <1>6, <1>7, SetInduction
<1>9. Len(c) \in T /\ Len(c) <= Len(c)
  BY <1>1, <1>8
<1> QED
  BY <1>2, <1>9

(***************************************************************************)
(* The message of a response, by position: its 1xx heads, its head, and    *)
(* then, unless it has none, its body.                                     *)
(***************************************************************************)
Shape(M, m, r) ==
  /\ M \in Seq(Tokens) /\ Len(M) >= r.infos + 1
  /\ \A i \in 1..r.infos : M[i] = <<"info", 1>>
  /\ M[r.infos + 1] = <<"head", r.size>>
  /\ \A i \in 1..Len(M) : M[i][1] = "blank" => i = Len(M)
  /\ \A i \in 1..Len(M) : M[i][1] = "size" =>
       \A k \in 1..M[i][2] : i + k <= Len(M) /\ ByteAt(M, i + k)
  /\ BytesTo(M, r.infos + 1) = 0
  /\ BytesTo(M, Len(M)) = IF Bodiless(m, r) THEN 0 ELSE Total(r)
  /\ Bodiless(m, r) => Len(M) = r.infos + 1
  /\ ~ Bodiless(m, r) /\ ~ Coded(r) =>
       /\ Len(M) = r.infos + 1 + Total(r)
       /\ \A i \in 1..Total(r) : ByteAt(M, r.infos + 1 + i)

\* What BodyTokens is, likewise.
LEMMA BodyShape ==
  ASSUME NEW m, NEW r, RespOK(r)
  PROVE  LET B == BodyTokens(m, r) IN
         /\ B \in Seq(Tokens) /\ Framed(B)
         /\ \A i \in 1..Len(B) : B[i][1] = "blank" => i = Len(B)
         /\ BytesTo(B, Len(B)) = IF Bodiless(m, r) THEN 0 ELSE Total(r)
         /\ Bodiless(m, r) => Len(B) = 0
         /\ ~ Bodiless(m, r) /\ ~ Coded(r) =>
              Len(B) = Total(r) /\ \A i \in 1..Total(r) : ByteAt(B, i)
PROOF
<1> DEFINE B == BodyTokens(m, r)
<1>1. /\ <<"size", 0>> \in Tokens /\ <<"byte", 0>> \in Tokens /\ <<"trailer", 0>> \in Tokens
      /\ <<"blank", 0>> \in Tokens
  BY DEF Tokens, Kinds
<1>2. Total(r) \in Nat
  BY ChunksAre
<1>3. CASE Bodiless(m, r)
  <2>1. B = <<>>
    BY <1>3 DEF BodyTokens, Bodiless
  <2>2. <<>> \in Seq(Tokens) /\ Len(<<>>) = 0 /\ DOMAIN <<>> = {}
    BY EmptySeq
  <2>3. Framed(<<>>)
    BY <2>2 DEF Framed
  <2>4. BytesTo(<<>>, 0) \in Nat /\ BytesTo(<<>>, 0) <= 0
    <3>1. 0 \in Nat
      OBVIOUS
    <3> QED
      BY <3>1, BytesNat
  <2>5. BytesTo(<<>>, 0) = 0 /\ \A i \in 1..0 : FALSE
    BY <2>4
  <2> QED
    BY <1>3, <2>1, <2>2, <2>3, <2>5
<1>4. CASE ~ Bodiless(m, r) /\ ~ Coded(r)
  <2>1. B = Times(Total(r), <<"byte", 0>>)
    BY <1>4 DEF BodyTokens, Bodiless
  <2>2. PICK t \in Tokens : t = <<"byte", 0>>
    BY <1>1
  <2>3. /\ B \in Seq(Tokens) /\ Len(B) = Total(r) /\ (\A i \in 1..Total(r) : B[i] = t)
        /\ Framed(B) /\ BytesTo(B, Total(r)) = Total(r)
    BY <1>2, <2>1, <2>2, TimesIs
  <2> HIDE DEF B
  <2>4. \A i \in 1..Total(r) : ByteAt(B, i) /\ B[i][1] # "blank"
    BY <2>2, <2>3 DEF ByteAt
  <2>5. /\ B \in Seq(Tokens) /\ Framed(B) /\ Len(B) = Total(r) /\ BytesTo(B, Len(B)) = Total(r)
        /\ (\A i \in 1..Len(B) : B[i][1] # "blank") /\ \A i \in 1..Total(r) : ByteAt(B, i)
    BY <2>3, <2>4
  <2> QED
    BY <1>4, <2>5 DEF B
<1>5. CASE ~ Bodiless(m, r) /\ Coded(r)
  <2> DEFINE z == Times(1, <<"size", 0>>)
             t == Times(r.trailers, <<"trailer", 0>>)
             b == Times(1, <<"blank", 0>>)
             zt == z \o t
             C == Chunks(r)
             L == zt \o b
  <2>1. z = <<<<"size", 0>>>> /\ b = <<<<"blank", 0>>>>
    BY DEF Times
  <2>2. B = C \o L
    BY <1>5, <2>1 DEF BodyTokens, Bodiless, LastOnes
  <2>3. 1 \in Nat /\ r.trailers \in Nat
    BY DEF RespOK
  <2>4. z \in Seq(Tokens) /\ Len(z) = 1 /\ Unended(z) /\ BytesTo(z, Len(z)) = 0
        /\ z[1] = <<"size", 0>>
    <3>1. z \in Seq(Tokens) /\ Len(z) = 1 /\ Unended(z) /\ BytesTo(z, 1) = 0
      BY <1>1, <2>3, TimesIs
    <3>2. z[1] = <<"size", 0>>
      BY <2>1
    <3> HIDE DEF z
    <3> QED
      BY <3>1, <3>2
  <2>5. t \in Seq(Tokens) /\ Framed(t) /\ Unended(t) /\ BytesTo(t, Len(t)) = 0 /\ Len(t) \in Nat
    <3>1. t \in Seq(Tokens) /\ Framed(t) /\ Unended(t) /\ BytesTo(t, r.trailers) = 0
          /\ Len(t) = r.trailers
      BY <1>1, <2>3, TimesIs
    <3> QED
      BY <2>3, <3>1
  <2>6. b \in Seq(Tokens) /\ Len(b) = 1 /\ Framed(b) /\ BytesTo(b, Len(b)) = 0
    <3>1. b \in Seq(Tokens) /\ Len(b) = 1 /\ Framed(b) /\ BytesTo(b, 1) = 0
      BY <1>1, <2>3, TimesIs
    <3> QED
      BY <3>1
  <2>7. Framed(z)
    <3>1. DOMAIN z = 1..1
      BY <2>4, LenProperties
    <3>2. \A i \in DOMAIN z : z[i][2] = 0
      BY <2>4, <3>1
    <3>3. 1..0 = {}
      OBVIOUS
    <3> QED
      BY <3>2, <3>3 DEF Framed
  <2> HIDE DEF z, t, b
  <2>8. zt \in Seq(Tokens) /\ Framed(zt) /\ Unended(zt) /\ BytesTo(zt, Len(zt)) = 0
    <3>1. /\ z \o t \in Seq(Tokens) /\ Framed(z \o t) /\ Unended(z \o t)
          /\ BytesTo(z \o t, Len(z \o t)) = BytesTo(z, Len(z)) + BytesTo(t, Len(t))
      BY <2>4, <2>5, <2>7, Joined
    <3> QED
      BY <2>4, <2>5, <3>1
  <2> HIDE DEF zt
  <2>9. /\ L \in Seq(Tokens) /\ Framed(L) /\ BytesTo(L, Len(L)) = 0 /\ Len(L) = Len(zt) + 1
        /\ \A i \in 1..Len(zt) : L[i] = zt[i]
    <3>1. /\ zt \o b \in Seq(Tokens) /\ Framed(zt \o b)
          /\ BytesTo(zt \o b, Len(zt \o b)) = BytesTo(zt, Len(zt)) + BytesTo(b, Len(b))
          /\ Len(zt \o b) = Len(zt) + Len(b)
          /\ \A i \in 1..Len(zt) : (zt \o b)[i] = zt[i]
      BY <2>6, <2>8, Joined
    <3> QED
      BY <2>6, <2>8, <3>1
  <2>10. /\ C \in Seq(Tokens) /\ Framed(C) /\ Unended(C) /\ BytesTo(C, Len(C)) = Total(r)
    BY ChunksAre
  <2> HIDE DEF L, C
  <2>11. /\ C \o L \in Seq(Tokens) /\ Framed(C \o L) /\ Len(C \o L) = Len(C) + Len(L)
         /\ BytesTo(C \o L, Len(C \o L)) = BytesTo(C, Len(C)) + BytesTo(L, Len(L))
         /\ (\A i \in 1..Len(C) : (C \o L)[i] = C[i])
         /\ (\A i \in 1..Len(L) : (C \o L)[Len(C) + i] = L[i])
    BY <2>9, <2>10, Joined
  <2>12. /\ Len(C) \in Nat /\ Len(zt) \in Nat /\ DOMAIN C = 1..Len(C) /\ DOMAIN zt = 1..Len(zt)
    BY <2>8, <2>10, LenProperties
  <2>13. ASSUME NEW i \in 1..Len(C \o L), (C \o L)[i][1] = "blank" PROVE i = Len(C \o L)
    <3>1. i \notin 1..Len(C)
      BY <2>10, <2>11, <2>12, <2>13 DEF Unended
    <3>2. i - Len(C) \in 1..Len(L) /\ Len(C) + (i - Len(C)) = i
      BY <2>9, <2>11, <2>12, <3>1
    <3>3. (C \o L)[i] = L[i - Len(C)]
      BY <2>11, <3>2
    <3>4. i - Len(C) \notin 1..Len(zt)
      <4>1. ASSUME i - Len(C) \in 1..Len(zt) PROVE FALSE
        <5>1. L[i - Len(C)] = zt[i - Len(C)]
          BY <2>9, <4>1
        <5>2. zt[i - Len(C)][1] # "blank"
          BY <2>8, <2>12, <4>1 DEF Unended
        <5> QED
          BY <2>13, <3>3, <5>1, <5>2
      <4> QED
        BY <4>1
    <3> QED
      BY <2>9, <2>11, <2>12, <3>2, <3>4
  <2>14. BytesTo(C \o L, Len(C \o L)) = Total(r)
    BY <1>2, <2>9, <2>10, <2>11
  <2> QED
    BY <1>5, <2>2, <2>11, <2>13, <2>14
<1> QED
  BY <1>3, <1>4, <1>5

\* The message as a whole.
LEMMA MessageShape ==
  ASSUME NEW m, NEW r, RespOK(r)
  PROVE  Shape(Message(m, r), m, r) /\ Total(r) \in Nat
PROOF
<1> DEFINE I == Times(r.infos, <<"info", 1>>)
           H == Times(1, <<"head", r.size>>)
           IH == I \o H
           B == BodyTokens(m, r)
           M == IH \o B
           n == r.infos + 1
<1>1. r.infos \in Nat /\ r.size \in Nat /\ 1 \in Nat /\ Total(r) \in Nat
  BY ChunksAre DEF RespOK
<1>2. M = Message(m, r)
  <2>1. H = <<<<"head", r.size>>>>
    BY DEF Times
  <2> QED
    BY <2>1 DEF Message
<1>3. PICK t \in Tokens : t = <<"info", 1>>
  BY DEF Tokens, Kinds
<1>4. PICK u \in Tokens : u = <<"head", r.size>>
  BY <1>1 DEF Tokens, Kinds
<1>5. t[1] \notin {"size", "blank", "byte"} /\ u[1] \notin {"size", "blank", "byte"}
  BY <1>3, <1>4
<1>6. /\ I \in Seq(Tokens) /\ Len(I) = r.infos /\ (\A i \in 1..r.infos : I[i] = t)
      /\ Framed(I) /\ Unended(I) /\ BytesTo(I, Len(I)) = 0
  <2>1. I = Times(r.infos, t)
    BY <1>3
  <2> HIDE DEF I
  <2>2. /\ I \in Seq(Tokens) /\ Len(I) = r.infos /\ (\A i \in 1..r.infos : I[i] = t)
        /\ Framed(I) /\ Unended(I) /\ BytesTo(I, r.infos) = 0
    BY <1>1, <1>5, <2>1, TimesIs
  <2> QED
    BY <2>2
<1>7. /\ H \in Seq(Tokens) /\ Len(H) = 1 /\ H[1] = u
      /\ Framed(H) /\ Unended(H) /\ BytesTo(H, Len(H)) = 0
  <2>1. H = Times(1, u)
    BY <1>4
  <2> HIDE DEF H
  <2>2. /\ H \in Seq(Tokens) /\ Len(H) = 1 /\ (\A i \in 1..1 : H[i] = u)
        /\ Framed(H) /\ Unended(H) /\ BytesTo(H, 1) = 0
    BY <1>1, <1>5, <2>1, TimesIs
  <2> QED
    BY <2>2
<1>8. /\ B \in Seq(Tokens) /\ Framed(B)
      /\ \A i \in 1..Len(B) : B[i][1] = "blank" => i = Len(B)
      /\ BytesTo(B, Len(B)) = IF Bodiless(m, r) THEN 0 ELSE Total(r)
      /\ Bodiless(m, r) => Len(B) = 0
      /\ ~ Bodiless(m, r) /\ ~ Coded(r) =>
           Len(B) = Total(r) /\ \A i \in 1..Total(r) : ByteAt(B, i)
  BY BodyShape
<1> HIDE DEF I, H, B
<1>9. /\ IH \in Seq(Tokens) /\ Len(IH) = n /\ Framed(IH) /\ Unended(IH)
      /\ (\A i \in 1..r.infos : IH[i] = t) /\ IH[n] = u /\ BytesTo(IH, n) = 0
  <2>1. /\ I \o H \in Seq(Tokens) /\ Framed(I \o H) /\ Unended(I \o H)
        /\ Len(I \o H) = Len(I) + Len(H)
        /\ (\A i \in 1..Len(I) : (I \o H)[i] = I[i])
        /\ (\A i \in 1..Len(H) : (I \o H)[Len(I) + i] = H[i])
        /\ BytesTo(I \o H, Len(I \o H)) = BytesTo(I, Len(I)) + BytesTo(H, Len(H))
    BY <1>6, <1>7, Joined
  <2>2. 1 \in 1..Len(H)
    BY <1>7
  <2>3. (I \o H)[n] = u
    BY <1>6, <1>7, <2>1, <2>2
  <2> QED
    BY <1>6, <1>7, <2>1, <2>3
<1> HIDE DEF IH
<1>10. /\ M \in Seq(Tokens) /\ Framed(M) /\ Len(M) = Len(IH) + Len(B)
       /\ (\A i \in 1..Len(IH) : M[i] = IH[i])
       /\ (\A i \in 1..Len(B) : M[Len(IH) + i] = B[i])
       /\ BytesTo(M, Len(M)) = BytesTo(IH, Len(IH)) + BytesTo(B, Len(B))
  BY <1>8, <1>9, Joined
<1> HIDE DEF M
<1>11. Len(B) \in Nat /\ n \in Nat /\ DOMAIN IH = 1..n /\ DOMAIN M = 1..Len(M) /\ Len(M) \in Nat
  BY <1>1, <1>8, <1>9, <1>10, LenProperties
<1>12. Len(M) >= n
  BY <1>9, <1>10, <1>11
<1>13. (\A i \in 1..r.infos : M[i] = <<"info", 1>>) /\ M[n] = <<"head", r.size>>
  <2>1. (\A i \in 1..r.infos : i \in 1..n) /\ n \in 1..n
    BY <1>1
  <2> QED
    BY <1>3, <1>4, <1>9, <1>10, <2>1
<1>14. ASSUME NEW i \in 1..Len(M), M[i][1] = "blank" PROVE i = Len(M)
  <2>1. CASE i \in 1..n
    BY <1>9, <1>10, <1>11, <1>14, <2>1 DEF Unended
  <2>2. CASE i \notin 1..n
    <3>1. i - n \in 1..Len(B) /\ n + (i - n) = i
      BY <1>9, <1>10, <1>11, <2>2
    <3>2. M[i] = B[i - n]
      BY <1>9, <1>10, <3>1
    <3>3. i - n = Len(B)
      BY <1>8, <1>14, <3>1, <3>2
    <3> QED
      BY <1>9, <1>10, <1>11, <3>3
  <2> QED
    BY <2>1, <2>2
<1>15. ASSUME NEW i \in 1..Len(M), M[i][1] = "size", NEW k \in 1..M[i][2]
       PROVE  i + k <= Len(M) /\ ByteAt(M, i + k)
  BY <1>10, <1>11, <1>15 DEF Framed
<1>16. BytesTo(M, n) = 0
  <2>1. \A i \in 1..n : M[i] = IH[i]
    BY <1>9, <1>10
  <2>2. BytesTo(M, n) = BytesTo(IH, n)
    BY <1>11, <2>1, BytesAlike
  <2> QED
    BY <1>9, <2>2
<1>17. BytesTo(M, Len(M)) = IF Bodiless(m, r) THEN 0 ELSE Total(r)
  BY <1>1, <1>8, <1>9, <1>10
<1>18. Bodiless(m, r) => Len(M) = n
  BY <1>8, <1>9, <1>10, <1>11
<1>19. ASSUME ~ Bodiless(m, r), ~ Coded(r)
       PROVE  Len(M) = n + Total(r) /\ \A i \in 1..Total(r) : ByteAt(M, n + i)
  <2>1. Len(B) = Total(r) /\ \A i \in 1..Total(r) : ByteAt(B, i)
    BY <1>8, <1>19
  <2>2. \A i \in 1..Total(r) : M[n + i] = B[i]
    BY <1>9, <1>10, <2>1
  <2> QED
    BY <1>9, <1>10, <2>1, <2>2 DEF ByteAt
<1> QED
  BY <1>1, <1>2, <1>10, <1>12, <1>13, <1>14, <1>15, <1>16, <1>17, <1>18, <1>19 DEF Shape

-----------------------------------------------------------------------------
(***************************************************************************)
(* The connection: the message being answered, how much of it the server   *)
(* has put on the wire and how much of it the reader has taken off.        *)
(***************************************************************************)
Msg == Message(method, resp)
Put == Len(Msg) - Len(plan)
Taken == Put - Len(wire)

Typed ==
  /\ request \in Nat /\ method \in {"GET", "HEAD"} /\ resp \in Responses \union {NoResponse}
  /\ tail \in {"open", "eof", "error"} /\ conn \in {"idle", "held", "closed"}
  /\ at \in {"start", "head", "body", "failed"} /\ budget \in Nat
  /\ chunk \in [state : {"size", "data", "data-crlf", "trailers", "done"},
                remaining : Nat, total : Nat, trailers : Nat]
  /\ raw \in [state : {"readable", "closed", "errored", "cancelled"},
              queue : Nat, delivered : Nat]
  /\ completed \in {"pending", "true", "false", "rejected"}

\* The wire and the plan are the rest of the message, but for what was garbled.
Positions ==
  /\ plan \in Seq(Tokens) /\ wire \in Seq(Tokens) /\ Taken \in Nat
  /\ \A i \in 1..Len(plan) : plan[i] = Msg[Put + i]
  /\ \A i \in 1..Len(wire) :
       wire[i] = Msg[Taken + i] \/ (wire[i][1] = "garbled" /\ ~ ByteAt(Msg, Taken + i))

\* Where the reader is agrees with what it has taken.
Placed ==
  /\ at = "start" => /\ resp = NoResponse /\ plan = <<>> /\ wire = <<>>
                     /\ conn = "idle" /\ completed = "pending" /\ raw = Opened
  /\ at # "start" => resp \in Responses
  /\ at = "head" => /\ Taken <= resp.infos /\ budget + Taken = MaxHeaderBytes
                    /\ raw = Opened /\ chunk = NoChunk /\ conn = "held" /\ completed = "pending"
  /\ at = "body" => /\ Taken > resp.infos /\ resp.infos + resp.size <= MaxHeaderBytes
                    /\ framing = BodyFraming(method, resp) /\ ~ Unreadable(method, resp)
  /\ at = "failed" => /\ conn = "closed" /\ completed = "rejected"
                      /\ raw = [Opened EXCEPT !.state = "errored"]

Complete == IF framing.kind = "until-close" THEN tail = "eof" /\ wire = <<>>
            ELSE plan = <<>> /\ wire = <<>>

\* What `completed` says of the message, and what the stream and the connection say of it.
Settled ==
  /\ conn = "held" => completed = "pending"
  /\ conn = "idle" /\ at # "start" => completed = "true" /\ framing.keep
  /\ completed = "true" => at = "body" /\ Complete
  /\ raw.state = "closed" => completed = "true"
  /\ raw.state = "errored" => completed = "rejected"
  /\ raw.state = "readable" => completed \in {"pending", "true"}
  /\ raw.state # "readable" => completed # "pending"
  /\ raw.state \in {"errored", "cancelled"} => raw.queue = 0

\* Every byte taken is in the stream, until it fails or is given up.
Counted ==
  /\ Received <= BytesTo(Msg, Taken) /\ Received <= MaxBodyBytes
  /\ at = "body" /\ raw.state \in {"readable", "closed"} => Received = BytesTo(Msg, Taken)

\* The rest of a chunk is on its way, and within the limit.
Chunked ==
  at = "body" /\ framing.kind = "chunked" /\ raw.state = "readable" =>
    /\ chunk.state # "done" /\ chunk.total = Received
    /\ chunk.state = "data" =>
         /\ chunk.total + chunk.remaining <= MaxBodyBytes
         /\ \A k \in 1..chunk.remaining : Taken + k <= Len(Msg) /\ ByteAt(Msg, Taken + k)

ConnInv == Typed /\ Positions /\ Placed /\ Settled /\ Counted /\ Chunked

\* The message and the positions in it.
LEMMA Places ==
  ASSUME Typed, Positions
  PROVE  /\ RespOK(resp) /\ Shape(Msg, method, resp) /\ Total(resp) \in Nat
         /\ Len(Msg) \in Nat /\ Len(plan) \in Nat /\ Len(wire) \in Nat
         /\ Put \in Nat /\ Taken \in Nat
         /\ Put = Taken + Len(wire) /\ Len(Msg) = Put + Len(plan)
         /\ (plan = <<>> <=> Len(plan) = 0) /\ (wire = <<>> <=> Len(wire) = 0)
PROOF
<1>1. RespOK(resp)
  BY AnswersOK DEF Typed
<1>2. Shape(Msg, method, resp) /\ Total(resp) \in Nat
  BY <1>1, MessageShape DEF Msg
<1>3. Len(Msg) \in Nat
  BY <1>2 DEF Shape
<1>4. plan \in Seq(Tokens) /\ wire \in Seq(Tokens)
  BY DEF Positions
<1>5. Len(plan) \in Nat /\ Len(wire) \in Nat
  BY <1>4
<1>6. (plan = <<>> <=> Len(plan) = 0) /\ (wire = <<>> <=> Len(wire) = 0)
  BY <1>4
<1>7. Taken \in Nat
  BY DEF Positions
<1>8. Put \in Nat /\ Put = Taken + Len(wire) /\ Len(Msg) = Put + Len(plan)
  BY <1>3, <1>5, <1>7 DEF Taken, Put
<1> QED
  BY <1>1, <1>2, <1>3, <1>5, <1>6, <1>7, <1>8

\* Nothing is put or taken.
LEMMA Stayed ==
  ASSUME UNCHANGED <<method, resp, plan, wire>>
  PROVE  /\ Msg' = Msg /\ Put' = Put /\ Taken' = Taken
         /\ Positions => Positions'
BY DEF Msg, Put, Taken, Positions

\* The reader takes the next tokens.
LEMMA Moved ==
  ASSUME Typed, Positions, NEW n \in 0..Len(wire),
         UNCHANGED <<method, resp, plan>>, wire' = SubSeq(wire, n + 1, Len(wire))
  PROVE  /\ Msg' = Msg /\ Put' = Put /\ Taken' = Taken + n /\ Taken + n <= Put
         /\ Len(wire') = Len(wire) - n /\ Positions'
PROOF
<1>1. Len(wire) \in Nat /\ Put \in Nat /\ Taken \in Nat /\ Put = Taken + Len(wire)
  BY Places
<1>2. wire \in Seq(Tokens)
  BY DEF Positions
<1>3. \A i \in (n + 1)..Len(wire) : wire[i] \in Tokens
  BY <1>1, <1>2
<1>4. /\ wire' \in Seq(Tokens)
      /\ Len(wire') = IF n + 1 <= Len(wire) THEN Len(wire) - (n + 1) + 1 ELSE 0
      /\ \A i \in 1..(Len(wire) - (n + 1) + 1) : wire'[i] = wire[n + 1 + i - 1]
  <2>1. n + 1 \in Int /\ Len(wire) \in Int
    BY <1>1
  <2> QED
    BY <1>3, <2>1, SubSeqProperties
<1>5. Len(wire') = Len(wire) - n
  BY <1>1, <1>4
<1>6. \A i \in 1..Len(wire') : n + i \in 1..Len(wire) /\ wire'[i] = wire[n + i]
  <2> SUFFICES ASSUME NEW i \in 1..Len(wire')
               PROVE n + i \in 1..Len(wire) /\ wire'[i] = wire[n + i]
    OBVIOUS
  <2>1. i \in 1..(Len(wire) - (n + 1) + 1) /\ n + 1 + i - 1 = n + i /\ n + i \in 1..Len(wire)
    BY <1>1, <1>5
  <2> QED
    BY <1>4, <2>1
<1>7. Msg' = Msg /\ Put' = Put
  BY DEF Msg, Put
<1>8. Taken' = Taken + n /\ Taken + n <= Put /\ Taken + n \in Nat
  <2>1. Taken' = Put' - Len(wire')
    BY DEF Taken
  <2> QED
    BY <1>1, <1>5, <1>7, <2>1
<1>9. \A i \in 1..Len(wire') : \/ wire'[i] = Msg[(Taken + n) + i]
                               \/ wire'[i][1] = "garbled" /\ ~ ByteAt(Msg, (Taken + n) + i)
  <2> SUFFICES ASSUME NEW i \in 1..Len(wire')
               PROVE \/ wire'[i] = Msg[(Taken + n) + i]
                     \/ wire'[i][1] = "garbled" /\ ~ ByteAt(Msg, (Taken + n) + i)
    OBVIOUS
  <2>1. n + i \in 1..Len(wire) /\ wire'[i] = wire[n + i]
    BY <1>6
  <2>2. (Taken + n) + i = Taken + (n + i)
    BY <1>1, <1>5
  <2> QED
    BY <2>1, <2>2 DEF Positions
<1>10. plan \in Seq(Tokens) /\ \A i \in 1..Len(plan) : plan[i] = Msg[Put + i]
  BY DEF Positions
<1>11. Positions'
  BY <1>4, <1>7, <1>8, <1>9, <1>10 DEF Positions
<1> QED
  BY <1>5, <1>7, <1>8, <1>11

\* The next one.
LEMMA MovedOne ==
  ASSUME Typed, Positions, wire # <<>>, UNCHANGED <<method, resp, plan>>, wire' = Tail(wire)
  PROVE  /\ Msg' = Msg /\ Put' = Put /\ Taken' = Taken + 1 /\ Taken + 1 <= Put
         /\ Len(wire') = Len(wire) - 1 /\ Positions'
PROOF
<1>1. wire \in Seq(Tokens)
  BY DEF Positions
<1>2. 1 \in 0..Len(wire) /\ 1 + 1 = 2
  BY Places
<1>3. wire' = SubSeq(wire, 1 + 1, Len(wire))
  BY <1>1, <1>2, TailIsSubSeq
<1> QED
  BY <1>2, <1>3, Moved

\* The token in front is the one after those taken, or a garbled one.
LEMMA InFront ==
  ASSUME Typed, Positions, wire # <<>>
  PROVE  /\ Taken + 1 \in 1..Len(Msg) /\ wire[1] \in Tokens
         /\ \/ wire[1] = Msg[Taken + 1]
            \/ wire[1][1] = "garbled" /\ ~ ByteAt(Msg, Taken + 1)
         /\ wire[1][1] # "byte" => BytesTo(Msg, Taken + 1) = BytesTo(Msg, Taken)
PROOF
<1>1. /\ Len(wire) \in Nat /\ Len(wire) # 0 /\ Taken \in Nat /\ Put = Taken + Len(wire)
      /\ Len(plan) \in Nat /\ Len(Msg) = Put + Len(plan) /\ Put \in Nat
  BY Places
<1>2. 1 \in 1..Len(wire) /\ Taken + 1 \in 1..Len(Msg)
  BY <1>1
<1>3. wire[1] \in Tokens
  BY <1>2 DEF Positions
<1>4. wire[1] = Msg[Taken + 1] \/ (wire[1][1] = "garbled" /\ ~ ByteAt(Msg, Taken + 1))
  BY <1>2 DEF Positions
<1>5. ASSUME wire[1][1] # "byte" PROVE BytesTo(Msg, Taken + 1) = BytesTo(Msg, Taken)
  <2>1. ~ ByteAt(Msg, Taken + 1)
    BY <1>4, <1>5 DEF ByteAt
  <2>2. \A i \in 1..1 : ~ ByteAt(Msg, Taken + i)
    BY <2>1
  <2> QED
    BY <1>1, <2>2, BytesRun
<1> QED
  BY <1>2, <1>3, <1>4, <1>5

\* In a body that is not chunked every position after the head is a byte.
LEMMA PlainBytes ==
  ASSUME Typed, Positions, ~ Bodiless(method, resp), ~ Coded(resp),
         NEW p \in Nat, p > resp.infos, p <= Len(Msg)
  PROVE  /\ BytesTo(Msg, p) = p - (resp.infos + 1)
         /\ Len(Msg) = resp.infos + 1 + Total(resp)
         /\ \A k \in Nat \ {0} : p + k <= Len(Msg) => ByteAt(Msg, p + k)
PROOF
<1>1. resp.infos \in Nat /\ Total(resp) \in Nat
  BY Places DEF RespOK
<1>2. /\ BytesTo(Msg, resp.infos + 1) = 0
      /\ Len(Msg) = resp.infos + 1 + Total(resp)
      /\ \A i \in 1..Total(resp) : ByteAt(Msg, resp.infos + 1 + i)
  BY Places DEF Shape
<1> DEFINE h == resp.infos + 1
           n == p - h
<1>3. h \in Nat /\ n \in Nat /\ h + n = p /\ \A i \in 1..n : i \in 1..Total(resp)
  BY <1>1, <1>2
<1>4. \A i \in 1..n : ByteAt(Msg, h + i)
  BY <1>2, <1>3
<1>5. BytesTo(Msg, h + n) = BytesTo(Msg, h) + n
  <2> HIDE DEF h, n
  <2> QED
    BY <1>3, <1>4, BytesRun
<1>6. ASSUME NEW k \in Nat \ {0}, p + k <= Len(Msg) PROVE ByteAt(Msg, p + k)
  <2>1. n + k \in 1..Total(resp) /\ h + (n + k) = p + k
    <3>1. Len(Msg) = h + Total(resp)
      BY <1>2
    <3> HIDE DEF h, n
    <3> QED
      BY <1>1, <1>3, <1>6, <3>1
  <2> QED
    BY <1>2, <2>1
<1> QED
  BY <1>2, <1>3, <1>5, <1>6

(***************************************************************************)
(* The steps of the connection, one by one.                                *)
(***************************************************************************)
\* A step of the server: the reader is where it was.
LEMMA ServerKeeps ==
  ASSUME ConnInv, at # "start", Positions', Msg' = Msg, Taken' = Taken,
         tail' \in {"open", "eof", "error"}, completed = "true" => Complete',
         UNCHANGED <<request, method, resp, conn, readerVars, raw, completed>>
  PROVE  ConnInv'
PROOF
<1> USE DEF ConnInv
<1>1. Typed'
  BY DEF Typed, readerVars
<1>2. Placed'
  BY DEF Placed, readerVars
<1>3. Settled'
  BY DEF Settled, readerVars
<1>4. Counted'
  BY DEF Counted, Received, readerVars
<1>5. Chunked'
  BY DEF Chunked, Received, readerVars
<1> QED
  BY <1>1, <1>2, <1>3, <1>4, <1>5

\* The server sends the next token, or a garbled line in its place.
LEMMA SendKeeps ==
  ASSUME ConnInv, Send
  PROVE  ConnInv' /\ Put' = Put + 1 /\ Msg' = Msg /\ Put < Len(Msg)
PROOF
<1> USE DEF ConnInv
<1>1. /\ Len(plan) \in Nat /\ Len(wire) \in Nat /\ Len(Msg) \in Nat /\ Put \in Nat /\ Taken \in Nat
      /\ Put = Taken + Len(wire) /\ Len(Msg) = Put + Len(plan) /\ Len(plan) # 0
  BY Places DEF Send
<1>2. plan \in Seq(Tokens) /\ wire \in Seq(Tokens)
  BY DEF Positions
<1>3. /\ plan' \in Seq(Tokens) /\ Len(plan') = Len(plan) - 1
      /\ \A i \in 1..Len(plan') : plan'[i] = plan[i + 1]
  BY <1>2, HeadTailProperties DEF Send
<1>4. Head(plan) = plan[1] /\ plan[1] \in Tokens /\ plan[1] = Msg[Put + 1]
  <2>1. 1 \in 1..Len(plan)
    BY <1>1
  <2> QED
    BY <1>2, <2>1 DEF Positions
<1>5. PICK t \in Tokens : /\ wire' = Append(wire, t)
                          /\ t = plan[1] \/ (t[1] = "garbled" /\ ~ ByteAt(Msg, Put + 1))
  <2>1. <<"garbled", 0>> \in Tokens
    BY DEF Tokens, Kinds
  <2> QED
    BY <1>4, <2>1 DEF Send, ByteAt
<1>6. /\ wire' \in Seq(Tokens) /\ Len(wire') = Len(wire) + 1 /\ wire'[Len(wire) + 1] = t
      /\ \A i \in 1..Len(wire) : wire'[i] = wire[i]
  BY <1>2, <1>5, AppendProperties
<1>7. Msg' = Msg
  BY DEF Msg, Send
<1>8. Put' = Put + 1 /\ Taken' = Taken
  <2>1. Put' = Len(Msg') - Len(plan') /\ Taken' = Put' - Len(wire')
    BY DEF Put, Taken
  <2> QED
    BY <1>1, <1>3, <1>6, <1>7, <2>1
<1>9. Positions'
  <2>1. \A i \in 1..Len(plan') : plan'[i] = Msg[(Put + 1) + i]
    <3> SUFFICES ASSUME NEW i \in 1..Len(plan') PROVE plan'[i] = Msg[(Put + 1) + i]
      OBVIOUS
    <3>1. i + 1 \in 1..Len(plan) /\ Put + (i + 1) = (Put + 1) + i
      BY <1>1, <1>3
    <3> QED
      BY <1>3, <3>1 DEF Positions
  <2>2. \A i \in 1..Len(wire') :
          wire'[i] = Msg[Taken + i] \/ (wire'[i][1] = "garbled" /\ ~ ByteAt(Msg, Taken + i))
    <3> SUFFICES ASSUME NEW i \in 1..Len(wire')
                 PROVE \/ wire'[i] = Msg[Taken + i]
                       \/ wire'[i][1] = "garbled" /\ ~ ByteAt(Msg, Taken + i)
      OBVIOUS
    <3>1. CASE i = Len(wire) + 1
      <4>1. Taken + i = Put + 1
        BY <1>1, <3>1
      <4> QED
        BY <1>4, <1>5, <1>6, <3>1, <4>1
    <3>2. CASE i # Len(wire) + 1
      <4>1. i \in 1..Len(wire)
        BY <1>1, <1>6, <3>2
      <4> QED
        BY <1>6, <4>1 DEF Positions
    <3> QED
      BY <3>1, <3>2
  <2> QED
    BY <1>1, <1>3, <1>6, <1>7, <1>8, <2>1, <2>2 DEF Positions
<1>10. at # "start" /\ completed # "true"
  <2>1. plan # <<>> /\ tail = "open"
    BY DEF Send
  <2> QED
    BY <2>1 DEF Placed, Settled, Complete
<1>11. tail' \in {"open", "eof", "error"}
       /\ UNCHANGED <<request, method, resp, conn, readerVars, raw, completed>>
  BY DEF Send, Typed
<1>12. ConnInv'
  <2> HIDE DEF ConnInv
  <2> QED
    BY <1>7, <1>8, <1>9, <1>10, <1>11, ServerKeeps
<1> QED
  BY <1>1, <1>7, <1>8, <1>12

\* The transport ends.
LEMMA ServerEndsKeeps ==
  ASSUME ConnInv, ServerEnds
  PROVE  ConnInv'
PROOF
<1>1. /\ at # "start" /\ tail = "open" /\ tail' \in {"open", "eof", "error"}
      /\ UNCHANGED <<request, method, resp, plan, wire, conn, readerVars, raw, completed>>
  BY DEF ServerEnds
<1>2. Positions' /\ Msg' = Msg /\ Taken' = Taken
  BY <1>1, Stayed DEF ConnInv
<1>3. completed = "true" => Complete'
  BY <1>1 DEF ConnInv, Settled, Complete, readerVars
<1> QED
  BY <1>1, <1>2, <1>3, ServerKeeps

\* A request finds the wire empty, so its response starts at the next token sent.
LEMMA RequestKeeps ==
  ASSUME ConnInv, Request
  PROVE  ConnInv'
PROOF
<1> USE DEF ConnInv
<1>1. wire = <<>>
  <2>1. CASE at = "start"
    BY <2>1 DEF Placed
  <2>2. CASE at # "start"
    <3>1. completed = "true" /\ framing.keep /\ at = "body" /\ Complete
      BY <2>2 DEF Request, Settled
    <3>2. framing = BodyFraming(method, resp)
      BY <3>1 DEF Placed
    <3> QED
      BY <3>1, <3>2 DEF Complete
  <2> QED
    BY <2>1, <2>2
<1>2. /\ request' = request + 1 /\ method' \in Methods /\ resp' \in Responses
      /\ plan' = Message(method', resp') /\ wire' = <<>> /\ tail' = tail
      /\ conn' = "held" /\ at' = "head" /\ budget' = MaxHeaderBytes
      /\ framing' = NoFraming /\ chunk' = NoChunk /\ raw' = Opened /\ completed' = "pending"
  BY <1>1 DEF Request
<1>3. RespOK(resp')
  BY <1>2, AnswersOK
<1>4. Msg' = plan' /\ Shape(Msg', method', resp')
  BY <1>2, <1>3, MessageShape DEF Msg
<1>5. plan' \in Seq(Tokens) /\ Len(plan') \in Nat
  BY <1>4 DEF Shape
<1>6. Put' = 0 /\ Taken' = 0
  <2>1. Put' = Len(Msg') - Len(plan') /\ Taken' = Put' - Len(wire')
    BY DEF Put, Taken
  <2>2. Len(wire') = 0
    BY <1>2
  <2> QED
    BY <1>4, <1>5, <2>1, <2>2
<1>7. Typed'
  BY <1>2, Http1Assumption DEF Typed, NoChunk, Opened
<1>8. Positions'
  <2>1. \A i \in 1..Len(plan') : plan'[i] = Msg'[0 + i]
    BY <1>4, <1>5
  <2>2. wire' \in Seq(Tokens) /\ 1..Len(wire') = {}
    BY <1>2
  <2> QED
    BY <1>5, <1>6, <2>1, <2>2 DEF Positions
<1>9. Placed'
  <2>1. resp'.infos \in Nat /\ MaxHeaderBytes + 0 = MaxHeaderBytes
    BY <1>3, Http1Assumption DEF RespOK
  <2> QED
    BY <1>2, <1>6, <2>1 DEF Placed
<1>10. Settled'
  BY <1>2 DEF Settled, Opened
<1>11. Counted'
  <2>1. BytesTo(Msg', 0) \in Nat
    <3>1. 0 \in Nat
      OBVIOUS
    <3> QED
      BY <3>1, BytesNat
  <2>2. Received' = 0
    BY <1>2 DEF Received, Opened
  <2> QED
    BY <1>2, <1>6, <2>1, <2>2, Http1Assumption DEF Counted
<1>12. Chunked'
  BY <1>2 DEF Chunked
<1> QED
  BY <1>7, <1>8, <1>9, <1>10, <1>11, <1>12

\* What the head of a response says of its body.
LEMMA FramingIs ==
  ASSUME NEW m, NEW r \in Responses, ~ Unreadable(m, r), NEW f, f = BodyFraming(m, r)
  PROVE  /\ f.kind \in {"none", "chunked", "content-length", "until-close"}
         /\ f.kind = "none" <=> Bodiless(m, r)
         /\ f.kind = "chunked" => Coded(r)
         /\ f.kind \in {"content-length", "until-close"} => ~ Coded(r)
         /\ f.kind = "content-length" => f.length = Total(r) /\ f.length <= MaxBodyBytes
         /\ f.kind = "until-close" <=> ~ Bodiless(m, r) /\ ~ Coded(r) /\ r.cl = <<>>
         /\ f.keep <=> f.kind # "until-close"
PROOF
<1>1. r.cl \in Seq(Nat)
  BY Http1Assumption
<1>2. CASE Bodiless(m, r)
  BY <1>2 DEF BodyFraming
<1>3. CASE ~ Bodiless(m, r) /\ Coded(r)
  BY <1>3 DEF BodyFraming
<1>4. CASE ~ Bodiless(m, r) /\ ~ Coded(r) /\ r.cl # <<>>
  <2>1. r.cl[1] = Total(r)
    BY <1>4, LengthAssumption DEF Unreadable, Bodiless
  <2>2. ~(r.cl[1] > MaxBodyBytes)
    BY <1>4 DEF Unreadable
  <2>3. r.cl[1] \in Nat
    <3>1. 1 \in 1..Len(r.cl)
      BY <1>1, <1>4
    <3> QED
      BY <1>1, <3>1
  <2>4. r.cl[1] <= MaxBodyBytes
    BY <2>2, <2>3, Http1Assumption
  <2> QED
    BY <1>4, <2>1, <2>4 DEF BodyFraming
<1>5. CASE ~ Bodiless(m, r) /\ ~ Coded(r) /\ r.cl = <<>>
  BY <1>5 DEF BodyFraming
<1> QED
  BY <1>2, <1>3, <1>4, <1>5

\* The next token of the head: the budget it takes, and where the reader is then.
LEMMA AtHead ==
  ASSUME ConnInv, at = "head", wire # <<>>
  PROVE  /\ wire[1][1] = "info" => Taken + 1 <= resp.infos /\ wire[1][2] = 1
         /\ wire[1][1] = "head" => Taken = resp.infos /\ wire[1][2] = resp.size
         /\ wire[1][1] \in {"info", "head"} => wire[1] = Msg[Taken + 1]
PROOF
<1>1. /\ Taken \in Nat /\ resp.infos \in Nat /\ Taken <= resp.infos
      /\ \A i \in 1..resp.infos : Msg[i] = <<"info", 1>>
      /\ Msg[resp.infos + 1] = <<"head", resp.size>>
  BY Places DEF ConnInv, Placed, RespOK, Shape
<1>2. wire[1] = Msg[Taken + 1] \/ wire[1][1] = "garbled"
  BY InFront DEF ConnInv
<1>3. CASE Taken = resp.infos
  BY <1>1, <1>2, <1>3
<1>4. CASE Taken # resp.infos
  <2>1. Taken + 1 \in 1..resp.infos
    BY <1>1, <1>4
  <2> QED
    BY <1>1, <1>2, <2>1
<1> QED
  BY <1>3, <1>4

\* A 1xx head is read and its bytes charged (readResponseHead).
LEMMA ReadInfoKeeps ==
  ASSUME ConnInv, ReadInfo
  PROVE  ConnInv'
PROOF
<1> USE DEF ConnInv
<1>1. /\ at = "head" /\ wire # <<>> /\ wire[1][1] = "info" /\ ~(wire[1][2] > budget)
      /\ budget' = budget - wire[1][2] /\ wire' = Tail(wire)
      /\ UNCHANGED <<request, method, resp, plan, tail, conn, at, framing, chunk, raw, completed>>
  BY DEF ReadInfo, Comes, OverBudget, serverVars
<1>2. Positions' /\ Msg' = Msg /\ Taken' = Taken + 1
  BY <1>1, MovedOne
<1>3. Taken + 1 <= resp.infos /\ wire[1][2] = 1
  <2> HIDE DEF ConnInv
  <2> QED
    BY <1>1, AtHead
<1>4. budget \in Nat /\ budget' = budget - 1 /\ budget' \in Nat /\ Taken \in Nat
  <2>1. budget \in Nat /\ Taken \in Nat
    BY Places DEF Typed
  <2> QED
    BY <1>1, <1>3, <2>1
<1>5. Typed'
  BY <1>1, <1>4 DEF Typed
<1>6. Placed'
  <2>1. Taken <= resp.infos /\ budget + Taken = MaxHeaderBytes
    BY <1>1 DEF Placed
  <2>2. budget' + Taken' = MaxHeaderBytes
    BY <1>2, <1>4, <2>1
  <2> QED
    BY <1>1, <1>2, <1>3, <2>2 DEF Placed
<1>7. Settled'
  BY <1>1 DEF Settled, Complete, Placed
<1>8. Counted'
  <2>1. BytesTo(Msg, Taken + 1) = BytesTo(Msg, Taken)
    BY <1>1, InFront
  <2> QED
    BY <1>1, <1>2, <2>1 DEF Counted, Received
<1>9. Chunked'
  BY <1>1 DEF Chunked
<1> QED
  BY <1>2, <1>5, <1>6, <1>7, <1>8, <1>9

\* The exchange fails before there is a body.
LEMMA ExchangeFailsKeeps ==
  ASSUME ConnInv, at = "head", ExchangeFails, Positions', budget' \in Nat,
         UNCHANGED <<request, method, resp, tail, framing, chunk>>
  PROVE  ConnInv'
PROOF
<1> USE DEF ConnInv
<1>1. raw = Opened /\ resp \in Responses /\ at' = "failed" /\ conn' = "closed"
      /\ raw' = [Opened EXCEPT !.state = "errored"] /\ completed' = "rejected"
  BY DEF Placed, ExchangeFails
<1>2. Typed'
  BY <1>1 DEF Typed, Opened
<1>3. Placed'
  BY <1>1 DEF Placed
<1>4. Settled'
  BY <1>1 DEF Settled, Opened
<1>5. Counted'
  <2>1. BytesTo(Msg', Taken') \in Nat
    <3>1. Taken' \in Nat
      BY DEF Positions
    <3> QED
      BY <3>1, BytesNat
  <2>2. Received' = 0
    BY <1>1 DEF Received, Opened
  <2> QED
    BY <1>1, <2>1, <2>2, Http1Assumption DEF Counted
<1>6. Chunked'
  BY <1>1 DEF Chunked
<1> QED
  BY <1>2, <1>3, <1>4, <1>5, <1>6

\* readResponseHead throws.
LEMMA HeadFailsKeeps ==
  ASSUME ConnInv, HeadFails
  PROVE  ConnInv'
PROOF
<1>1. /\ at = "head" /\ ExchangeFails
      /\ UNCHANGED <<request, method, resp, plan, tail, wire, budget, framing, chunk>>
  BY DEF HeadFails, serverVars
<1>2. Positions' /\ budget' \in Nat
  BY <1>1, Stayed DEF ConnInv, Typed
<1> QED
  BY <1>1, <1>2, ExchangeFailsKeeps

\* The head is read and the framing settled (bodyFraming, readResponseBody).
LEMMA ReadHeadKeeps ==
  ASSUME ConnInv, ReadHead
  PROVE  ConnInv'
PROOF
<1> USE DEF ConnInv
<1>1. /\ at = "head" /\ wire # <<>> /\ wire[1][1] = "head" /\ ~(wire[1][2] > budget)
      /\ budget' = budget - wire[1][2] /\ wire' = Tail(wire)
      /\ UNCHANGED <<request, method, resp, plan, tail, chunk>>
  BY DEF ReadHead, Comes, OverBudget, serverVars
<1>2. /\ Positions' /\ Msg' = Msg /\ Taken' = Taken + 1 /\ Taken + 1 <= Put
      /\ Len(wire') = Len(wire) - 1
  BY <1>1, MovedOne
<1>3. Taken = resp.infos /\ wire[1][2] = resp.size
  <2> HIDE DEF ConnInv
  <2> QED
    BY <1>1, AtHead
<1>4. budget \in Nat /\ resp.size \in Nat /\ resp.infos \in Nat
  BY Places DEF Typed, RespOK
<1>5. budget' \in Nat
  BY <1>1, <1>3, <1>4
<1>6. CASE Unreadable(method, resp)
  <2>1. ExchangeFails /\ framing' = framing
    BY <1>6 DEF ReadHead
  <2> HIDE DEF ConnInv
  <2> QED
    BY <1>1, <1>2, <1>5, <2>1, ExchangeFailsKeeps
<1>7. CASE ~ Unreadable(method, resp)
  <2> DEFINE f == BodyFraming(method, resp)
  <2>1. /\ at' = "body" /\ framing' = f
        /\ raw' = [raw EXCEPT !.state = IF f.kind = "none" THEN "closed" ELSE "readable"]
        /\ IF f.kind = "none" \/ (f.kind = "content-length" /\ f.length = 0)
           THEN Settle("true", f) ELSE UNCHANGED <<completed, conn>>
    BY <1>7 DEF ReadHead
  <2>2. /\ raw = Opened /\ chunk = NoChunk /\ conn = "held" /\ completed = "pending"
        /\ resp \in Responses /\ budget + Taken = MaxHeaderBytes
    BY <1>1 DEF Placed
  <2>3. /\ f.kind \in {"none", "chunked", "content-length", "until-close"}
        /\ f.kind = "none" <=> Bodiless(method, resp)
        /\ f.kind = "content-length" => f.length = Total(resp) /\ ~ Coded(resp)
        /\ f.keep <=> f.kind # "until-close"
    BY <1>7, <2>2, FramingIs
  <2>4. ASSUME f.kind = "none" \/ (f.kind = "content-length" /\ f.length = 0)
        PROVE  plan = <<>> /\ wire' = <<>>
    <3>1. Len(Msg) = resp.infos + 1
      BY <1>4, <2>3, <2>4, Places DEF Shape
    <3>2. Len(plan) = 0 /\ Len(wire') = 0
      BY <1>2, <1>3, <1>4, <3>1, Places
    <3>3. wire' \in Seq(Tokens)
      BY <1>2 DEF Positions
    <3> QED
      BY <3>2, <3>3, Places
  <2> HIDE DEF f
  <2>5. raw' = [state |-> IF f.kind = "none" THEN "closed" ELSE "readable",
                queue |-> 0, delivered |-> 0]
    BY <2>1, <2>2 DEF Opened
  <2>6. Typed'
    BY <1>1, <1>5, <2>1, <2>5 DEF Typed, Settle
  <2>7. Placed'
    <3>1. Taken' > resp.infos /\ resp.infos + resp.size <= MaxHeaderBytes
      <4>1. MaxHeaderBytes \in Nat
        BY Http1Assumption
      <4> QED
        BY <1>1, <1>2, <1>3, <1>4, <2>2, <4>1
    <3> QED
      BY <1>1, <1>7, <2>1, <2>2, <3>1 DEF Placed, f
  <2>8. Settled'
    <3>1. CASE f.kind = "none" \/ (f.kind = "content-length" /\ f.length = 0)
      <4>1. completed' = "true" /\ conn' # "held" /\ Complete'
        BY <1>1, <2>1, <2>3, <2>4, <3>1 DEF Settle, Complete
      <4> QED
        BY <2>1, <2>3, <2>5, <3>1, <4>1 DEF Settled
    <3>2. CASE ~(f.kind = "none" \/ (f.kind = "content-length" /\ f.length = 0))
      BY <2>1, <2>2, <2>5, <3>2 DEF Settled
    <3> QED
      BY <3>1, <3>2
  <2>9. Counted'
    <3>1. Received' = 0
      BY <2>5 DEF Received
    <3>2. BytesTo(Msg', Taken') = 0
      BY <1>2, <1>3, Places DEF Shape
    <3> QED
      BY <3>1, <3>2, Http1Assumption DEF Counted
  <2>10. Chunked'
    <3>1. Received' = 0
      BY <2>5 DEF Received
    <3> QED
      BY <1>1, <2>2, <3>1 DEF Chunked, NoChunk
  <2> QED
    BY <1>2, <2>6, <2>7, <2>8, <2>9, <2>10
<1> QED
  BY <1>6, <1>7

\* What readSome may return.
LEMMA SomeIs ==
  ASSUME NEW k \in Nat, Len(wire) \in Nat, NEW n \in Some(k)
  PROVE  n \in 1..Len(wire) /\ n \in 1..k
PROOF
<1> DEFINE T == {k, Len(wire)}
<1>1. \E x \in T : \A y \in T : x <= y
  OBVIOUS
<1>2. Min(T) \in T /\ \A y \in T : Min(T) <= y
  BY <1>1 DEF Min
<1>3. n \in 1..Min(T)
  BY DEF Some
<1> HIDE DEF T
<1>4. Min(T) <= k /\ Min(T) <= Len(wire) /\ Min(T) \in Nat
  BY <1>2 DEF T
<1> QED
  BY <1>3, <1>4

\* The framing of the body being read.
LEMMA InBody ==
  ASSUME ConnInv, at = "body"
  PROVE  /\ resp \in Responses /\ Taken > resp.infos /\ resp.infos \in Nat
         /\ framing.kind \in {"none", "chunked", "content-length", "until-close"}
         /\ framing.kind = "none" <=> Bodiless(method, resp)
         /\ framing.kind = "chunked" => Coded(resp)
         /\ framing.kind \in {"content-length", "until-close"} => ~ Coded(resp)
         /\ framing.kind = "content-length" =>
              framing.length = Total(resp) /\ framing.length <= MaxBodyBytes
         /\ framing.kind = "until-close" <=> UntilClose
         /\ framing.keep <=> framing.kind # "until-close"
PROOF
<1>1. /\ resp \in Responses /\ Taken > resp.infos
      /\ framing = BodyFraming(method, resp) /\ ~ Unreadable(method, resp)
  BY DEF ConnInv, Placed
<1>2. resp.infos \in Nat
  BY Places DEF ConnInv, RespOK
<1>3. UntilClose <=> ~ Bodiless(method, resp) /\ ~ Coded(resp) /\ resp.cl = <<>>
  BY DEF UntilClose, Bodiless
<1> QED
  BY <1>1, <1>2, <1>3, FramingIs

\* A body fails.
LEMMA BodyFailsKeeps ==
  ASSUME ConnInv, at = "body", raw.state = "readable", BodyFails,
         Positions', Msg' = Msg, Taken' >= Taken, Typed',
         UNCHANGED <<request, method, resp, tail, at, framing>>
  PROVE  ConnInv'
PROOF
<1> USE DEF ConnInv
<1>1. /\ raw' = [raw EXCEPT !.state = "errored", !.queue = 0]
      /\ completed' = "rejected" /\ conn' = "closed"
  BY DEF BodyFails, Settle
<1>2. /\ raw' = [state |-> "errored", queue |-> 0, delivered |-> raw.delivered]
      /\ raw.delivered \in Nat /\ raw.queue \in Nat
  BY <1>1 DEF Typed
<1>3. Taken \in Nat /\ Taken' \in Nat /\ resp.infos \in Nat
  BY Places DEF Positions, RespOK
<1>4. Placed'
  BY <1>3 DEF Placed
<1>5. Settled'
  BY <1>1, <1>2 DEF Settled
<1>6. Counted'
  <2>1. Received' = raw.delivered /\ Received \in Nat /\ raw.delivered <= Received
    BY <1>2 DEF Received
  <2>2. BytesTo(Msg, Taken) <= BytesTo(Msg, Taken') /\ BytesTo(Msg, Taken) \in Nat
        /\ BytesTo(Msg, Taken') \in Nat
    BY <1>3, BytesMono, BytesNat
  <2>3. Received <= BytesTo(Msg, Taken) /\ Received <= MaxBodyBytes
    BY DEF Counted
  <2>4. Received' <= BytesTo(Msg, Taken') /\ Received' <= MaxBodyBytes
    <3>1. \A a, b, c, d, e \in Nat : a <= b /\ b <= c /\ c <= d /\ b <= e => a <= d /\ a <= e
      OBVIOUS
    <3>2. MaxBodyBytes \in Nat /\ raw.delivered \in Nat
      BY <1>2, Http1Assumption
    <3> QED
      BY <2>1, <2>2, <2>3, <3>1, <3>2
  <2> QED
    BY <1>2, <2>4 DEF Counted
<1>7. Chunked'
  BY <1>2 DEF Chunked
<1> QED
  BY <1>4, <1>5, <1>6, <1>7

\* A stream that is read, or ended, of a body that is not chunked.
LEMMA PlainKeeps ==
  ASSUME ConnInv, at = "body", framing.kind # "chunked", raw.state = "readable", raw.queue = 0,
         NEW n \in Nat, NEW st \in {"readable", "closed"}, Enqueue(n, st),
         Positions', Msg' = Msg, Taken' = Taken + n,
         BytesTo(Msg, Taken + n) = BytesTo(Msg, Taken) + n, Received + n <= MaxBodyBytes,
         \/ st = "readable" /\ completed # "true" /\ UNCHANGED <<completed, conn>>
         \/ /\ completed' = "true" /\ Complete'
            /\ conn' \in {"idle", "closed"} /\ (conn' = "idle" => framing.keep),
         UNCHANGED <<request, method, resp, tail, at, budget, framing, chunk>>
  PROVE  ConnInv'
PROOF
<1> USE DEF ConnInv
<1>1. /\ raw' = [state |-> st, queue |-> n, delivered |-> raw.delivered]
      /\ raw.delivered \in Nat /\ Received = raw.delivered
  <2>1. raw' = [raw EXCEPT !.queue = n, !.state = st]
    BY DEF Enqueue
  <2>2. raw \in [state : {"readable", "closed", "errored", "cancelled"},
                queue : Nat, delivered : Nat]
    BY DEF Typed
  <2>3. raw.delivered \in Nat /\ Received = raw.delivered
    BY <2>2 DEF Received
  <2> QED
    BY <2>1, <2>2, <2>3
<1>2. Typed'
  BY <1>1 DEF Typed
<1>3. Placed'
  <2>1. Taken \in Nat /\ resp.infos \in Nat
    BY Places DEF RespOK
  <2> QED
    BY <2>1 DEF Placed
<1>4. Settled'
  <2>1. CASE st = "readable" /\ completed # "true" /\ UNCHANGED <<completed, conn>>
    BY <1>1, <2>1 DEF Settled
  <2>2. CASE /\ completed' = "true" /\ Complete'
             /\ conn' \in {"idle", "closed"} /\ (conn' = "idle" => framing.keep)
    BY <1>1, <2>2 DEF Settled
  <2> QED
    BY <2>1, <2>2
<1>5. Counted'
  <2>1. Received' = Received + n
    BY <1>1 DEF Received
  <2>2. Received = BytesTo(Msg, Taken)
    BY DEF Counted
  <2>3. Taken + n \in Nat
    BY Places
  <2>4. BytesTo(Msg, Taken + n) \in Nat
    BY <2>3, BytesNat
  <2>5. Received' = BytesTo(Msg', Taken')
    BY <2>1, <2>2
  <2> QED
    BY <1>1, <2>1, <2>4, <2>5 DEF Counted
<1>6. Chunked'
  BY DEF Chunked
<1> QED
  BY <1>2, <1>3, <1>4, <1>5, <1>6

\* All of it has arrived when all of its bytes have.
LEMMA PlainEnd ==
  ASSUME Typed, Positions, ~ Bodiless(method, resp), ~ Coded(resp),
         NEW p \in Nat, p > resp.infos, p <= Put, BytesTo(Msg, p) = Total(resp)
  PROVE  plan = <<>> /\ p = Put
PROOF
<1>1. /\ Len(Msg) \in Nat /\ Len(plan) \in Nat /\ Put \in Nat /\ Len(Msg) = Put + Len(plan)
      /\ resp.infos \in Nat /\ Total(resp) \in Nat /\ (plan = <<>> <=> Len(plan) = 0)
  BY Places DEF RespOK
<1>2. p <= Len(Msg)
  BY <1>1
<1>3. BytesTo(Msg, p) = p - (resp.infos + 1) /\ Len(Msg) = resp.infos + 1 + Total(resp)
  BY <1>2, PlainBytes
<1> QED
  BY <1>1, <1>3

\* The stream of a declared length.
LEMMA PullLengthKeeps ==
  ASSUME ConnInv, PullLength
  PROVE  ConnInv'
PROOF
<1> USE DEF ConnInv
<1> DEFINE remaining == framing.length - Received
<1>1. /\ at = "body" /\ framing.kind = "content-length" /\ raw.state = "readable" /\ raw.queue = 0
      /\ UNCHANGED <<request, method, resp, plan, tail, at, budget, framing, chunk>>
  BY DEF PullLength, Pulling, serverVars, readerVars
<1>2. /\ Taken > resp.infos /\ resp.infos \in Nat
      /\ ~ Bodiless(method, resp) /\ ~ Coded(resp)
      /\ framing.length = Total(resp) /\ framing.length <= MaxBodyBytes
  <2> HIDE DEF ConnInv
  <2> QED
    BY <1>1, InBody
<1>3. /\ Total(resp) \in Nat /\ Taken \in Nat /\ Len(wire) \in Nat /\ Len(plan) \in Nat
      /\ Put \in Nat /\ Put = Taken + Len(wire) /\ Len(Msg) = Put + Len(plan)
      /\ Len(Msg) \in Nat /\ (wire = <<>> <=> Len(wire) = 0)
  BY Places
<1>4. Received = BytesTo(Msg, Taken) /\ Received \in Nat
  <2>1. BytesTo(Msg, Taken) \in Nat
    BY <1>3, BytesNat
  <2> QED
    BY <1>1, <2>1 DEF Counted
<1>5. Received <= framing.length /\ remaining \in Nat
  <2>1. /\ BytesTo(Msg, Len(Msg)) = Total(resp)
    BY <1>2, Places DEF Shape
  <2>2. BytesTo(Msg, Taken) <= BytesTo(Msg, Len(Msg))
    BY <1>3, BytesMono
  <2> QED
    BY <1>2, <1>3, <1>4, <2>1, <2>2
<1>6. MaxBodyBytes \in Nat
  BY Http1Assumption
<1>7. CASE /\ remaining = 0 /\ Enqueue(0, "closed") /\ UNCHANGED wire
           /\ IF completed = "pending" THEN Settle("true", framing) ELSE UNCHANGED <<completed, conn>>
  <2>1. Received = Total(resp) /\ Taken + 0 = Taken /\ Received + 0 <= MaxBodyBytes
        /\ BytesTo(Msg, Taken) + 0 = BytesTo(Msg, Taken)
    BY <1>2, <1>3, <1>4, <1>6, <1>7
  <2>2. plan = <<>> /\ wire = <<>>
    <3>1. plan = <<>> /\ Taken = Put
      <4>1. Taken <= Put /\ BytesTo(Msg, Taken) = Total(resp)
        BY <1>3, <1>4, <2>1
      <4> QED
        BY <1>2, <1>3, <4>1, PlainEnd
    <3> QED
      BY <1>3, <3>1
  <2>3. Complete'
    BY <1>1, <1>7, <2>2 DEF Complete
  <2>4. completed' = "true" /\ conn' \in {"idle", "closed"} /\ (conn' = "idle" => framing.keep)
    <3>1. CASE completed = "pending"
      BY <1>7, <3>1 DEF Settle, Reusable
    <3>2. CASE completed # "pending"
      <4>1. completed = "true"
        BY <1>1, <3>2 DEF Settled
      <4>2. completed' = "true" /\ conn' = conn
        BY <1>7, <3>2, <4>1
      <4> QED
        BY <1>1, <4>1, <4>2 DEF Settled, Typed
    <3> QED
      BY <3>1, <3>2
  <2>5. Positions' /\ Msg' = Msg /\ Taken' = Taken + 0
    BY <1>1, <1>7, <2>1, Stayed
  <2>6. 0 \in Nat /\ BytesTo(Msg, Taken + 0) = BytesTo(Msg, Taken) + 0 /\ Enqueue(0, "closed")
    BY <1>7, <2>1
  <2> HIDE DEF ConnInv
  <2> QED
    BY <1>1, <2>1, <2>3, <2>4, <2>5, <2>6, PlainKeeps
<1>8. ASSUME remaining # 0, NEW n \in Some(remaining),
             wire' = SubSeq(wire, n + 1, Len(wire)),
             Enqueue(n, IF n = remaining THEN "closed" ELSE "readable"),
             IF n = remaining THEN Settle("true", framing) ELSE UNCHANGED <<completed, conn>>
      PROVE  ConnInv'
  <2>1. n \in 1..Len(wire) /\ n \in 1..remaining
    <3> HIDE DEF remaining
    <3> QED
      BY <1>3, <1>5, SomeIs
  <2>2. /\ Positions' /\ Msg' = Msg /\ Taken' = Taken + n /\ Taken + n <= Put /\ Put' = Put
        /\ Len(wire') = Len(wire) - n
    BY <1>1, <1>3, <1>8, <2>1, Moved
  <2>3. BytesTo(Msg, Taken + n) = BytesTo(Msg, Taken) + n
    <3> HIDE DEF ConnInv
    <3>1. Taken <= Len(Msg) /\ Typed /\ Positions
      BY <1>3 DEF ConnInv
    <3>2. \A k \in Nat \ {0} : Taken + k <= Len(Msg) => ByteAt(Msg, Taken + k)
      BY <1>2, <1>3, <3>1, PlainBytes
    <3>3. \A k \in 1..n : ByteAt(Msg, Taken + k)
      BY <1>3, <2>1, <2>2, <3>2
    <3>4. n \in Nat
      BY <2>1
    <3> QED
      BY <1>3, <3>3, <3>4, BytesRun
  <2>4. n \in Nat /\ Received + n <= MaxBodyBytes /\ completed # "true"
    <3>1. wire # <<>>
      BY <1>3, <2>1
    <3>2. completed # "true"
      BY <3>1 DEF Settled, Complete
    <3> QED
      BY <1>2, <1>3, <1>4, <1>6, <2>1, <3>2
  <2>5. CASE n = remaining
    <3>1. Received + n = Total(resp) /\ Taken + n \in Nat /\ Taken + n > resp.infos
      <4> HIDE DEF ConnInv
      <4>1. n = framing.length - Received /\ framing.length = Total(resp)
        BY <1>2, <2>5
      <4>2. Received + n = Total(resp)
        <5>1. \A a, b, c \in Nat : a = b - c => c + a = b
          OBVIOUS
        <5>2. Received \in Nat /\ n \in Nat /\ Total(resp) \in Nat
          BY <1>3, <1>4, <2>4
        <5>3. n = Total(resp) - Received
          BY <4>1
        <5> QED
          BY <5>1, <5>2, <5>3
      <4>3. Taken + n \in Nat /\ Taken + n > resp.infos
        BY <1>2, <1>3, <2>4
      <4> QED
        BY <4>2, <4>3
    <3>2. plan = <<>> /\ Taken + n = Put
      <4>1. BytesTo(Msg, Taken + n) = Total(resp)
        BY <1>4, <2>3, <3>1
      <4> QED
        BY <1>2, <2>2, <3>1, <4>1, PlainEnd
    <3>3. wire' = <<>>
      <4>1. Len(wire') = 0
        BY <1>3, <2>2, <2>4, <3>2
      <4> QED
        BY <2>2, <4>1 DEF Positions
    <3>4. Complete'
      BY <1>1, <3>2, <3>3 DEF Complete
    <3>5. /\ Enqueue(n, "closed") /\ completed' = "true"
          /\ conn' \in {"idle", "closed"} /\ (conn' = "idle" => framing.keep)
      BY <1>8, <2>5 DEF Settle, Reusable
    <3> HIDE DEF ConnInv
    <3> QED
      BY <1>1, <2>2, <2>3, <2>4, <3>4, <3>5, PlainKeeps
  <2>6. CASE n # remaining
    <3>1. Enqueue(n, "readable") /\ UNCHANGED <<completed, conn>>
      BY <1>8, <2>6
    <3> HIDE DEF ConnInv
    <3> QED
      BY <1>1, <2>2, <2>3, <2>4, <3>1, PlainKeeps
  <2> QED
    BY <2>5, <2>6
<1>9. CASE remaining # 0 /\ Ended /\ BodyFails /\ UNCHANGED wire
  <2>1. Positions' /\ Msg' = Msg /\ Taken' = Taken /\ Taken >= Taken
    BY <1>1, <1>3, <1>9, Stayed
  <2>2. Typed'
    BY <1>1, <1>9 DEF Typed, BodyFails, Settle
  <2> HIDE DEF ConnInv
  <2> QED
    BY <1>1, <1>9, <2>1, <2>2, BodyFailsKeeps
<1> QED
  BY <1>7, <1>8, <1>9 DEF PullLength

\* The stream that ends with the transport.
LEMMA PullUntilCloseKeeps ==
  ASSUME ConnInv, PullUntilClose
  PROVE  ConnInv'
PROOF
<1>1. /\ at = "body" /\ framing.kind = "until-close" /\ raw.state = "readable" /\ raw.queue = 0
      /\ UNCHANGED <<request, method, resp, plan, tail, at, budget, framing, chunk>>
  BY DEF PullUntilClose, Pulling, serverVars, readerVars
<1>2. /\ Taken > resp.infos /\ resp.infos \in Nat
      /\ ~ Bodiless(method, resp) /\ ~ Coded(resp) /\ ~ framing.keep
  BY <1>1, InBody
<1>3. Typed /\ Positions /\ Settled /\ Counted
  BY DEF ConnInv
<1>4. /\ Total(resp) \in Nat /\ Taken \in Nat /\ Len(wire) \in Nat /\ Len(plan) \in Nat
      /\ Put \in Nat /\ Put = Taken + Len(wire) /\ Len(Msg) = Put + Len(plan)
      /\ Len(Msg) \in Nat /\ (wire = <<>> <=> Len(wire) = 0)
  BY <1>3, Places
<1>5. Received = BytesTo(Msg, Taken) /\ Received \in Nat
  <2>1. BytesTo(Msg, Taken) \in Nat
    BY <1>4, BytesNat
  <2> QED
    BY <1>1, <1>3, <2>1 DEF Counted
<1>6. MaxBodyBytes \in Nat
  BY Http1Assumption
<1>7. ASSUME NEW n \in Some(Len(wire)), wire' = SubSeq(wire, n + 1, Len(wire)),
             IF Received + n > MaxBodyBytes THEN BodyFails
             ELSE Enqueue(n, "readable") /\ UNCHANGED <<completed, conn>>
      PROVE  ConnInv'
  <2>1. n \in 1..Len(wire)
    BY <1>4, SomeIs
  <2>2. n \in Nat /\ n \in 0..Len(wire)
    BY <1>4, <2>1
  <2>3. /\ Positions' /\ Msg' = Msg /\ Taken' = Taken + n /\ Taken + n <= Put /\ Put' = Put
        /\ Len(wire') = Len(wire) - n
    BY <1>1, <1>3, <1>7, <2>2, Moved
  <2>4. CASE Received + n > MaxBodyBytes
    <3>1. BodyFails
      BY <1>7, <2>4
    <3>2. Typed'
      BY <1>1, <1>3, <3>1 DEF Typed, BodyFails, Settle
    <3>3. Taken' >= Taken
      BY <1>4, <2>2, <2>3
    <3> QED
      BY <1>1, <2>3, <3>1, <3>2, <3>3, BodyFailsKeeps
  <2>5. CASE ~(Received + n > MaxBodyBytes)
    <3>1. BytesTo(Msg, Taken + n) = BytesTo(Msg, Taken) + n
      <4>1. Taken <= Len(Msg)
        BY <1>4
      <4>2. \A k \in Nat \ {0} : Taken + k <= Len(Msg) => ByteAt(Msg, Taken + k)
        BY <1>2, <1>3, <1>4, <4>1, PlainBytes
      <4>3. \A k \in 1..n : ByteAt(Msg, Taken + k)
        BY <1>4, <2>1, <2>3, <4>2
      <4> QED
        BY <1>4, <2>2, <4>3, BytesRun
    <3>2. Received + n <= MaxBodyBytes
      BY <1>5, <1>6, <2>2, <2>5
    <3>3. Enqueue(n, "readable") /\ UNCHANGED <<completed, conn>>
      BY <1>7, <2>5
    <3>4. wire # <<>>
      BY <1>4, <2>1
    <3>5. completed # "true"
      BY <1>3, <3>4 DEF Settled, Complete
    <3> QED
      BY <1>1, <2>2, <2>3, <3>1, <3>2, <3>3, <3>5, PlainKeeps
  <2> QED
    BY <2>4, <2>5
<1>8. CASE /\ Ended /\ UNCHANGED wire
           /\ IF tail = "error" THEN BodyFails ELSE Enqueue(0, "closed") /\ Settle("true", framing)
  <2>1. Positions' /\ Msg' = Msg /\ Taken' = Taken
    BY <1>1, <1>3, <1>8, Stayed
  <2>2. CASE tail = "error"
    <3>1. BodyFails /\ Taken' >= Taken
      BY <1>4, <1>8, <2>1, <2>2
    <3>2. Typed'
      BY <1>1, <1>3, <3>1 DEF Typed, BodyFails, Settle
    <3> QED
      BY <1>1, <2>1, <3>1, <3>2, BodyFailsKeeps
  <2>3. CASE tail # "error"
    <3>1. /\ Enqueue(0, "closed") /\ completed' = "true" /\ conn' = "closed"
      BY <1>2, <1>8, <2>3 DEF Settle, Reusable
    <3>2. Complete'
      BY <1>1, <1>3, <1>8, <2>3 DEF Complete, Ended, Typed
    <3>3. /\ 0 \in Nat /\ Taken + 0 = Taken /\ BytesTo(Msg, Taken) + 0 = BytesTo(Msg, Taken)
          /\ Received + 0 <= MaxBodyBytes
      BY <1>3, <1>4, <1>5, <1>6 DEF Counted
    <3>4. Taken' = Taken + 0 /\ BytesTo(Msg, Taken + 0) = BytesTo(Msg, Taken) + 0
      BY <2>1, <3>3
    <3> QED
      BY <1>1, <2>1, <3>1, <3>2, <3>3, <3>4, PlainKeeps
  <2> QED
    BY <2>2, <2>3
<1> QED
  BY <1>7, <1>8 DEF PullUntilClose

\* A line of a chunked body is taken.
LEMMA LineKeeps ==
  ASSUME ConnInv, at = "body", framing.kind = "chunked", raw.state = "readable",
         wire # <<>>, wire[1][1] # "byte", wire' = Tail(wire), Typed',
         UNCHANGED <<request, method, resp, plan, tail, conn, at, budget, framing, raw, completed>>,
         chunk'.state # "done", chunk'.total = chunk.total,
         chunk'.state = "data" =>
           /\ chunk'.total + chunk'.remaining <= MaxBodyBytes
           /\ \A k \in 1..chunk'.remaining :
                (Taken + 1) + k <= Len(Msg) /\ ByteAt(Msg, (Taken + 1) + k)
  PROVE  ConnInv'
PROOF
<1> USE DEF ConnInv
<1>1. Positions' /\ Msg' = Msg /\ Taken' = Taken + 1
  BY MovedOne
<1>2. BytesTo(Msg, Taken + 1) = BytesTo(Msg, Taken)
  BY InFront
<1>3. Placed'
  <2>1. Taken \in Nat /\ resp.infos \in Nat
    BY Places DEF RespOK
  <2> QED
    BY <1>1, <2>1 DEF Placed
<1>4. Settled'
  BY DEF Settled, Complete
<1>5. Counted'
  BY <1>1, <1>2 DEF Counted, Received
<1>6. Chunked'
  BY <1>1 DEF Chunked, Received
<1> QED
  BY <1>1, <1>3, <1>4, <1>5, <1>6

\* A chunk-size line is parsed.
LEMMA ChunkSizeKeeps ==
  ASSUME ConnInv, ChunkSize
  PROVE  ConnInv'
PROOF
<1>1. /\ at = "body" /\ framing.kind = "chunked" /\ raw.state = "readable"
      /\ wire # <<>> /\ wire[1][1] = "size" /\ wire' = Tail(wire) /\ ~ TooLarge(wire[1][2])
      /\ chunk' = [chunk EXCEPT !.remaining = wire[1][2],
                                !.state = IF wire[1][2] = 0 THEN "trailers" ELSE "data"]
      /\ UNCHANGED <<request, method, resp, plan, tail, conn, at, budget, framing, raw, completed>>
  BY DEF ChunkSize, InChunk, Pulling, Comes, serverVars
<1>2. Typed /\ Positions
  BY DEF ConnInv
<1>3. Taken + 1 \in 1..Len(Msg) /\ wire[1] = Msg[Taken + 1] /\ wire[1][2] \in Nat
  BY <1>1, <1>2, InFront DEF Tokens
<1>4. Typed'
  BY <1>1, <1>2, <1>3 DEF Typed
<1>5. chunk'.state # "done" /\ chunk'.total = chunk.total /\ chunk'.remaining = wire[1][2]
  BY <1>1, <1>2 DEF Typed
<1>6. chunk'.total + chunk'.remaining <= MaxBodyBytes
  <2>1. chunk.total \in Nat /\ MaxBodyBytes \in Nat
    BY <1>2, Http1Assumption DEF Typed
  <2> QED
    BY <1>1, <1>3, <1>5, <2>1 DEF TooLarge
<1>7. \A k \in 1..chunk'.remaining : (Taken + 1) + k <= Len(Msg) /\ ByteAt(Msg, (Taken + 1) + k)
  BY <1>1, <1>2, <1>3, <1>5, Places DEF Shape
<1> QED
  BY <1>1, <1>4, <1>5, <1>6, <1>7, LineKeeps

\* The line end after the data of a chunk.
LEMMA ChunkCrlfKeeps ==
  ASSUME ConnInv, ChunkCrlf
  PROVE  ConnInv'
PROOF
<1>1. /\ at = "body" /\ framing.kind = "chunked" /\ raw.state = "readable"
      /\ wire # <<>> /\ wire[1][1] = "crlf" /\ wire' = Tail(wire)
      /\ chunk' = [chunk EXCEPT !.state = "size"]
      /\ UNCHANGED <<request, method, resp, plan, tail, conn, at, budget, framing, raw, completed>>
  BY DEF ChunkCrlf, InChunk, Pulling, Comes, serverVars
<1>2. Typed' /\ chunk'.state = "size" /\ chunk'.total = chunk.total
  BY <1>1 DEF Typed, ConnInv
<1> QED
  BY <1>1, <1>2, LineKeeps

\* A trailer line is read and dropped.
LEMMA TrailerLineKeeps ==
  ASSUME ConnInv, TrailerLine
  PROVE  ConnInv'
PROOF
<1>1. /\ at = "body" /\ framing.kind = "chunked" /\ raw.state = "readable"
      /\ wire # <<>> /\ wire[1][1] = "trailer" /\ wire' = Tail(wire)
      /\ chunk.state = "trailers" /\ chunk.trailers > 0
      /\ chunk' = [chunk EXCEPT !.trailers = @ - 1]
      /\ UNCHANGED <<request, method, resp, plan, tail, conn, at, budget, framing, raw, completed>>
  BY DEF TrailerLine, InChunk, Pulling, Comes, serverVars
<1>2. chunk' = [state |-> "trailers", remaining |-> chunk.remaining, total |-> chunk.total,
                trailers |-> chunk.trailers - 1] /\ chunk.trailers - 1 \in Nat
  BY <1>1 DEF Typed, ConnInv
<1>3. Typed' /\ chunk'.state = "trailers" /\ chunk'.total = chunk.total
  BY <1>1, <1>2 DEF Typed, ConnInv
<1> QED
  BY <1>1, <1>3, LineKeeps

\* Some of the data of a chunk is read.
LEMMA ChunkDataKeeps ==
  ASSUME ConnInv, ChunkData
  PROVE  ConnInv'
PROOF
<1>1. /\ at = "body" /\ framing.kind = "chunked" /\ raw.state = "readable" /\ raw.queue = 0
      /\ chunk.state = "data"
      /\ UNCHANGED <<request, method, resp, plan, tail, conn, at, budget, framing, completed>>
  BY DEF ChunkData, InChunk, Pulling, serverVars
<1>2. Typed /\ Positions /\ Settled /\ Counted /\ Chunked /\ Placed
  BY DEF ConnInv
<1>3. PICK n \in Some(chunk.remaining) :
        /\ wire' = SubSeq(wire, n + 1, Len(wire))
        /\ chunk' = [chunk EXCEPT !.remaining = @ - n, !.total = @ + n,
                                  !.state = IF n = chunk.remaining THEN "data-crlf" ELSE "data"]
        /\ Enqueue(n, "readable")
  BY DEF ChunkData
<1>4. /\ Taken \in Nat /\ Len(wire) \in Nat /\ Len(Msg) \in Nat /\ (wire = <<>> <=> Len(wire) = 0)
      /\ resp.infos \in Nat
  BY <1>2, Places DEF RespOK
<1>5. /\ chunk.remaining \in Nat /\ chunk.total \in Nat /\ chunk.trailers \in Nat
      /\ raw.delivered \in Nat /\ MaxBodyBytes \in Nat
  BY <1>2, Http1Assumption DEF Typed
<1>6. n \in 1..Len(wire) /\ n \in 1..chunk.remaining
  BY <1>4, <1>5, SomeIs
<1>7. n \in Nat /\ n \in 0..Len(wire) /\ chunk.remaining - n \in Nat /\ wire # <<>>
  BY <1>4, <1>5, <1>6
<1>8. Positions' /\ Msg' = Msg /\ Taken' = Taken + n
  BY <1>1, <1>2, <1>3, <1>7, Moved
<1>9. raw' = [state |-> "readable", queue |-> n, delivered |-> raw.delivered]
  BY <1>1, <1>2, <1>3 DEF Typed, Enqueue
<1>10. chunk' = [state |-> IF n = chunk.remaining THEN "data-crlf" ELSE "data",
                 remaining |-> chunk.remaining - n, total |-> chunk.total + n,
                 trailers |-> chunk.trailers]
  BY <1>2, <1>3 DEF Typed
<1>11. /\ chunk.total = Received /\ chunk.total + chunk.remaining <= MaxBodyBytes
       /\ \A k \in 1..chunk.remaining : Taken + k <= Len(Msg) /\ ByteAt(Msg, Taken + k)
  BY <1>1, <1>2 DEF Chunked
<1>12. BytesTo(Msg, Taken + n) = BytesTo(Msg, Taken) + n
  <2>1. \A k \in 1..n : ByteAt(Msg, Taken + k)
    BY <1>5, <1>6, <1>11
  <2> QED
    BY <1>4, <1>7, <2>1, BytesRun
<1>13. Received' = Received + n
  BY <1>1, <1>5, <1>7, <1>9 DEF Received
<1>14. Typed'
  <2>1. chunk.total + n \in Nat
    BY <1>5, <1>7
  <2> QED
    BY <1>1, <1>2, <1>5, <1>7, <1>9, <1>10, <2>1 DEF Typed
<1>15. Placed'
  BY <1>1, <1>2, <1>4, <1>7, <1>8 DEF Placed
<1>16. Settled'
  BY <1>1, <1>2, <1>7, <1>9 DEF Settled, Complete
<1>17. Counted'
  <2>1. Received = BytesTo(Msg, Taken)
    BY <1>1, <1>2 DEF Counted
  <2>2. Received' = BytesTo(Msg', Taken')
    BY <1>8, <1>12, <1>13, <2>1
  <2>3. Received' \in Nat /\ Received' <= MaxBodyBytes
    BY <1>5, <1>6, <1>11, <1>13
  <2> QED
    BY <2>2, <2>3 DEF Counted
<1>18. Chunked'
  <2>1. chunk.total + n + (chunk.remaining - n) = chunk.total + chunk.remaining
    BY <1>5, <1>7
  <2>2. \A k \in 1..(chunk.remaining - n) :
          (Taken + n) + k <= Len(Msg) /\ ByteAt(Msg, (Taken + n) + k)
    <3>1. \A k \in 1..(chunk.remaining - n) :
            n + k \in 1..chunk.remaining /\ Taken + (n + k) = (Taken + n) + k
      BY <1>4, <1>5, <1>7
    <3>2. ASSUME NEW k \in 1..(chunk.remaining - n)
          PROVE  (Taken + n) + k <= Len(Msg) /\ ByteAt(Msg, (Taken + n) + k)
      <4>1. Taken + (n + k) <= Len(Msg) /\ ByteAt(Msg, Taken + (n + k))
        BY <1>11, <3>1
      <4> QED
        BY <3>1, <4>1
    <3> QED
      BY <3>2
  <2>3. chunk'.total = Received' /\ chunk'.state # "done"
        /\ chunk'.total + chunk'.remaining <= MaxBodyBytes
    BY <1>10, <1>11, <1>13, <2>1
  <2> QED
    BY <1>8, <1>10, <2>2, <2>3 DEF Chunked
<1> QED
  BY <1>8, <1>14, <1>15, <1>16, <1>17, <1>18 DEF ConnInv

\* The blank line is the end of the message.
LEMMA LastChunkKeeps ==
  ASSUME ConnInv, LastChunk
  PROVE  ConnInv'
PROOF
<1>1. /\ at = "body" /\ framing.kind = "chunked" /\ raw.state = "readable" /\ raw.queue = 0
      /\ wire # <<>> /\ wire[1][1] = "blank" /\ wire' = Tail(wire)
      /\ chunk' = [chunk EXCEPT !.state = "done"]
      /\ Enqueue(0, "closed") /\ Settle("true", framing)
      /\ UNCHANGED <<request, method, resp, plan, tail, at, budget, framing>>
  BY DEF LastChunk, InChunk, Pulling, Comes, serverVars
<1>2. Typed /\ Positions /\ Settled /\ Counted /\ Chunked /\ Placed
  BY DEF ConnInv
<1>3. /\ Taken \in Nat /\ Len(wire) \in Nat /\ Len(Msg) \in Nat /\ Len(plan) \in Nat
      /\ Put \in Nat /\ Put = Taken + Len(wire) /\ Len(Msg) = Put + Len(plan)
      /\ (plan = <<>> <=> Len(plan) = 0) /\ resp.infos \in Nat
      /\ \A i \in 1..Len(Msg) : Msg[i][1] = "blank" => i = Len(Msg)
  BY <1>2, Places DEF RespOK, Shape
<1>4. /\ Taken + 1 \in 1..Len(Msg) /\ wire[1] = Msg[Taken + 1]
      /\ BytesTo(Msg, Taken + 1) = BytesTo(Msg, Taken)
  BY <1>1, <1>2, InFront
<1>5. Taken + 1 = Len(Msg)
  BY <1>1, <1>3, <1>4
<1>6. /\ Positions' /\ Msg' = Msg /\ Taken' = Taken + 1 /\ Taken + 1 <= Put
      /\ Len(wire') = Len(wire) - 1
  BY <1>1, <1>2, MovedOne
<1>7. plan = <<>> /\ wire' = <<>>
  <2>1. Len(plan) = 0 /\ Len(wire') = 0
    BY <1>3, <1>5, <1>6
  <2> QED
    BY <1>3, <1>6, <2>1 DEF Positions
<1>8. raw' = [state |-> "closed", queue |-> 0, delivered |-> raw.delivered]
      /\ raw.delivered \in Nat
  BY <1>1, <1>2 DEF Typed, Enqueue
<1>9. Received' = Received
  BY <1>1, <1>8 DEF Received
<1>10. Typed'
  BY <1>1, <1>2, <1>8 DEF Typed, Settle
<1>11. Placed'
  BY <1>1, <1>2, <1>3, <1>6 DEF Placed
<1>12. Settled'
  BY <1>1, <1>7, <1>8 DEF Settled, Complete, Settle, Reusable
<1>13. Counted'
  BY <1>1, <1>2, <1>4, <1>6, <1>9 DEF Counted
<1>14. Chunked'
  BY <1>8 DEF Chunked
<1> QED
  BY <1>6, <1>10, <1>11, <1>12, <1>13, <1>14 DEF ConnInv

\* decodeChunked throws.
LEMMA ChunkFailsKeeps ==
  ASSUME ConnInv, ChunkFails
  PROVE  ConnInv'
PROOF
<1>1. /\ at = "body" /\ raw.state = "readable" /\ BodyFails
      /\ chunk' = [chunk EXCEPT !.state = "done"]
      /\ UNCHANGED <<request, method, resp, plan, tail, wire, at, budget, framing>>
  BY DEF ChunkFails, Pulling, serverVars
<1>2. Typed /\ Positions
  BY DEF ConnInv
<1>3. Positions' /\ Msg' = Msg /\ Taken' = Taken /\ Taken \in Nat
  BY <1>1, <1>2, Stayed, Places
<1>4. Typed'
  BY <1>1, <1>2 DEF Typed, BodyFails, Settle
<1>5. Taken' >= Taken
  BY <1>3
<1> QED
  BY <1>1, <1>3, <1>4, <1>5, BodyFailsKeeps

\* The reader of the stream takes its chunk ...
LEMMA TakeChunkKeeps ==
  ASSUME ConnInv, TakeChunk
  PROVE  ConnInv' /\ Received' = Received /\ at = "body"
PROOF
<1> USE DEF ConnInv
<1>1. /\ raw.queue > 0 /\ raw.state \in {"readable", "closed"}
      /\ raw' = [raw EXCEPT !.queue = 0, !.delivered = @ + raw.queue]
      /\ UNCHANGED <<request, method, resp, plan, tail, wire, conn, at, budget, framing, chunk,
                     completed>>
  BY DEF TakeChunk, serverVars, readerVars
<1>2. raw.queue \in Nat /\ raw.delivered \in Nat
  BY DEF Typed
<1>3. raw' = [state |-> raw.state, queue |-> 0, delivered |-> raw.delivered + raw.queue]
  BY <1>1 DEF Typed
<1>4. at = "body"
  BY <1>1 DEF Placed, Opened, Typed
<1>5. Positions' /\ Msg' = Msg /\ Taken' = Taken
  BY <1>1, Stayed
<1>6. Received' = Received
  BY <1>2, <1>3 DEF Received
<1>7. Typed'
  BY <1>1, <1>2, <1>3 DEF Typed
<1>8. Placed'
  BY <1>1, <1>4, <1>5 DEF Placed
<1>9. Settled'
  BY <1>1, <1>3 DEF Settled, Complete
<1>10. Counted'
  BY <1>1, <1>3, <1>5, <1>6 DEF Counted
<1>11. Chunked'
  BY <1>1, <1>3, <1>5, <1>6 DEF Chunked
<1> QED
  BY <1>4, <1>5, <1>6, <1>7, <1>8, <1>9, <1>10, <1>11

\* ... or gives it up.
LEMMA CancelBodyKeeps ==
  ASSUME ConnInv, CancelBody, at = "body"
  PROVE  /\ ConnInv' /\ raw'.delivered = raw.delivered /\ raw'.state # "readable"
         /\ raw.state # "readable" /\ raw.queue = 0 => raw' = raw
PROOF
<1> USE DEF ConnInv
<1>1. UNCHANGED <<request, method, resp, plan, tail, wire, at, budget, framing>>
  BY DEF CancelBody, serverVars
<1>2. raw.queue \in Nat /\ raw.delivered \in Nat
  BY DEF Typed
<1>3. Positions' /\ Msg' = Msg /\ Taken' = Taken
  BY <1>1, Stayed
<1>4. CASE ~(raw.state = "readable" \/ raw.queue > 0)
  <2>1. UNCHANGED <<raw, chunk, completed, conn>>
    BY <1>4 DEF CancelBody
  <2>2. Typed' /\ Placed' /\ Settled' /\ Counted' /\ Chunked'
    BY <1>1, <1>3, <2>1 DEF Typed, Placed, Settled, Complete, Counted, Received, Chunked
  <2> QED
    BY <1>3, <1>4, <2>1, <2>2
<1>5. CASE raw.state = "readable" \/ raw.queue > 0
  <2>1. /\ raw' = [raw EXCEPT !.state = "cancelled", !.queue = 0]
        /\ chunk' = [chunk EXCEPT !.state = "done"]
        /\ IF completed = "pending" THEN completed' = "false" /\ conn' = "closed"
           ELSE UNCHANGED <<completed, conn>>
    BY <1>5 DEF CancelBody, Settle
  <2>2. raw' = [state |-> "cancelled", queue |-> 0, delivered |-> raw.delivered]
    BY <2>1 DEF Typed
  <2>3. Typed'
    BY <1>1, <1>2, <2>1, <2>2 DEF Typed
  <2>4. Placed'
    BY <1>1, <1>3 DEF Placed
  <2>5. Settled'
    BY <1>1, <2>1, <2>2 DEF Settled, Complete
  <2>6. Counted'
    <3>1. Received' = raw.delivered /\ Received = raw.delivered + raw.queue
      BY <1>2, <2>2 DEF Received
    <3>2. BytesTo(Msg, Taken) \in Nat /\ MaxBodyBytes \in Nat
      <4>1. Taken \in Nat
        BY DEF Positions
      <4> QED
        BY <4>1, BytesNat, Http1Assumption
    <3>3. Received <= BytesTo(Msg, Taken) /\ Received <= MaxBodyBytes
      BY DEF Counted
    <3>4. \A a, b, c, d \in Nat : a + b <= c /\ a + b <= d => a <= c /\ a <= d
      OBVIOUS
    <3>5. Received' <= BytesTo(Msg, Taken) /\ Received' <= MaxBodyBytes
      <4> HIDE DEF ConnInv
      <4> QED
        BY <1>2, <3>1, <3>2, <3>3, <3>4
    <3> QED
      BY <1>3, <2>2, <3>5 DEF Counted
  <2>7. Chunked'
    BY <2>2 DEF Chunked
  <2> QED
    BY <1>2, <1>3, <1>5, <2>2, <2>3, <2>4, <2>5, <2>6, <2>7
<1> QED
  BY <1>4, <1>5

\* Every step of the connection.
LEMMA ConnectionKeeps ==
  ASSUME ConnInv, Connection
  PROVE  ConnInv'
BY SendKeeps, ServerEndsKeeps, RequestKeeps, ReadInfoKeeps, HeadFailsKeeps, ReadHeadKeeps,
   PullLengthKeeps, PullUntilCloseKeeps, ChunkSizeKeeps, ChunkDataKeeps, ChunkCrlfKeeps,
   TrailerLineKeeps, LastChunkKeeps, ChunkFailsKeeps DEF Connection

\* What they all leave alone, but for a new request.
LEMMA ConnectionFrame ==
  ASSUME ConnInv, Connection
  PROVE  \/ Request /\ request' # request
         \/ /\ request' = request /\ method' = method /\ resp' = resp
            /\ raw'.delivered = raw.delivered
            /\ raw.state # "readable" => raw' = raw
            /\ at = "body" => at' = "body" /\ framing' = framing
            /\ at' # at => at = "head" /\ at' \in {"failed", "body"}
            /\ at' = "failed" => raw'.state = "errored"
PROOF
<1> USE DEF ConnInv
<1>1. request \in Nat /\ raw.delivered \in Nat
      /\ raw \in [state : {"readable", "closed", "errored", "cancelled"},
                  queue : Nat, delivered : Nat]
  BY DEF Typed
<1>2. at = "failed" => raw.state = "errored"
  BY DEF Placed, Opened
<1>3. at = "head" => raw = Opened
  BY DEF Placed
<1>4. CASE Request
  BY <1>1, <1>4 DEF Request
<1>5. CASE Send \/ ServerEnds
  BY <1>2, <1>5 DEF Send, ServerEnds, readerVars
<1>6. CASE ReadInfo
  BY <1>2, <1>6 DEF ReadInfo, serverVars
<1>7. CASE HeadFails
  BY <1>1, <1>3, <1>7 DEF HeadFails, ExchangeFails, serverVars, Opened
<1>8. CASE ReadHead
  BY <1>1, <1>3, <1>8 DEF ReadHead, ExchangeFails, serverVars, Opened
<1>9. CASE PullLength
  BY <1>1, <1>9 DEF PullLength, Pulling, Enqueue, BodyFails, serverVars, readerVars
<1>10. CASE PullUntilClose
  BY <1>1, <1>10 DEF PullUntilClose, Pulling, Enqueue, BodyFails, serverVars, readerVars
<1>11. CASE ChunkSize \/ ChunkCrlf \/ TrailerLine
  BY <1>2, <1>11 DEF ChunkSize, ChunkCrlf, TrailerLine, serverVars
<1>12. CASE ChunkData
  BY <1>1, <1>12 DEF ChunkData, InChunk, Pulling, Enqueue, serverVars
<1>13. CASE LastChunk
  BY <1>1, <1>13 DEF LastChunk, InChunk, Pulling, Enqueue, serverVars
<1>14. CASE ChunkFails
  BY <1>1, <1>14 DEF ChunkFails, Pulling, BodyFails, serverVars
<1> QED
  BY <1>4, <1>5, <1>6, <1>7, <1>8, <1>9, <1>10, <1>11, <1>12, <1>13, <1>14 DEF Connection

\* The connection before its first request.
LEMMA ConnInit ==
  ASSUME Init
  PROVE  ConnInv
PROOF
<1>1. /\ request = 0 /\ method = "GET" /\ resp = NoResponse /\ plan = <<>> /\ wire = <<>>
      /\ tail = "open" /\ conn = "idle" /\ at = "start" /\ budget = 0 /\ framing = NoFraming
      /\ chunk = NoChunk /\ raw = Opened /\ completed = "pending"
  BY DEF Init
<1>2. Typed
  BY <1>1, Http1Assumption DEF Typed, NoChunk, Opened
<1>3. RespOK(resp)
  BY <1>2, AnswersOK DEF Typed
<1>4. Shape(Msg, method, resp)
  BY <1>3, MessageShape DEF Msg
<1>5. Len(Msg) = 1
  <2>1. Bodiless(method, resp) /\ resp.infos = 0
    BY <1>1 DEF Bodiless, NoResponse
  <2> QED
    BY <1>4, <2>1 DEF Shape
<1>6. Msg \in Seq(Tokens) /\ plan \in Seq(Tokens) /\ wire \in Seq(Tokens)
      /\ Len(plan) = 0 /\ Len(wire) = 0
  BY <1>1, <1>4 DEF Shape
<1>7. Taken = 1
  BY <1>5, <1>6 DEF Taken, Put
<1>8. Positions
  BY <1>6, <1>7 DEF Positions
<1>9. Placed
  BY <1>1 DEF Placed
<1>10. Settled
  BY <1>1 DEF Settled, Opened
<1>11. Counted
  <2>1. BytesTo(Msg, Taken) \in Nat
    <3>1. Taken \in Nat
      BY <1>7
    <3> QED
      BY <3>1, BytesNat
  <2>2. Received = 0
    BY <1>1 DEF Received, Opened
  <2> QED
    BY <1>1, <2>1, <2>2, Http1Assumption DEF Counted
<1>12. Chunked
  BY <1>1 DEF Chunked
<1> QED
  BY <1>2, <1>8, <1>9, <1>10, <1>11, <1>12 DEF ConnInv

-----------------------------------------------------------------------------
(***************************************************************************)
(* The pipeline: what each stage has from the one before, and what the     *)
(* caller has been told.                                                   *)
(***************************************************************************)
StreamStates == {"readable", "closed", "errored", "cancelled"}

PipeTyped ==
  /\ coding \in {"none", "gzip"} /\ aborted \in BOOLEAN /\ got \in Nat
  /\ caller \in {"reading", "done", "error", "cancelled"}
  /\ guard \in [state : StreamStates, queue : Nat]
  /\ stage \in [at : {"sniff", "pump", "ended", "broken", "empty"},
                fed : Nat, out : Nat, produced : Nat, state : StreamStates, queue : Nat]

Fresh == guard = NewGuard /\ stage = NewStage /\ got = 0

\* The caller hears of a failure only once the connection's stream is over.
Told ==
  /\ at # "body" \/ framing.kind = "none" => Fresh
  /\ at = "start" => caller = "done"
  /\ at = "head" => caller = "reading"
  /\ at = "failed" => caller = "error"
  /\ caller \in {"error", "cancelled"} => raw.state # "readable"

\* What has left the deadline's stream, and what waits in it.
Onward == IF coding = "gzip" THEN stage.fed + guard.queue ELSE got + guard.queue

\* The deadline's stream passes on what it takes, and ends as the body does.
Passed ==
  /\ guard.state # "readable" => raw.state # "readable"
  /\ guard.state = "closed" => Drained
  /\ guard.state \in {"errored", "cancelled"} => guard.queue = 0
  /\ Onward <= raw.delivered
  /\ guard.state \in {"readable", "closed"} => Onward = raw.delivered

\* The stage hands on what the decompressor has made of what it was fed.
Inflated ==
  coding = "gzip" =>
    /\ got + stage.queue = stage.produced /\ stage.produced <= MaxBodyBytes
    /\ stage.produced <= Inflate * stage.fed
    /\ stage.at \in {"pump", "ended"} => stage.produced + stage.out = Inflate * stage.fed
    /\ stage.at \in {"sniff", "empty"} => stage.produced = 0
    /\ stage.at = "ended" => stage.fed = Total(resp) /\ AtEnd(guard)
    /\ stage.at = "empty" => stage.fed = 0 /\ AtEnd(guard)
    /\ stage.state = "closed" => stage.at = "empty" \/ (stage.at = "ended" /\ stage.out = 0)
    /\ stage.state \in {"errored", "cancelled"} => guard.state # "readable"

PipeInv == ConnInv /\ PipeTyped /\ Told /\ Passed /\ Inflated

\* Products of numbers.
LEMMA Products ==
  ASSUME NEW a \in Nat, NEW b \in Nat, NEW c \in Nat
  PROVE  /\ a * b \in Nat /\ a * 0 = 0 /\ 1 * b = b /\ b * a = a * b
         /\ a * (b + c) = a * b + a * c
         /\ b <= c => a * b <= a * c
PROOF
<1>1. a * b \in Nat /\ a * 0 = 0 /\ 1 * b = b /\ b * a = a * b /\ a * (b + c) = a * b + a * c
  OBVIOUS
<1>2. ASSUME b <= c PROVE a * b <= a * c
  <2>1. PICK d \in Nat : c = b + d
    <3>1. c - b \in Nat /\ c = b + (c - b)
      BY <1>2
    <3> QED
      BY <3>1
  <2>2. a * d \in Nat /\ a * b \in Nat
    OBVIOUS
  <2>3. a * c = a * b + a * d
    BY <2>1
  <2> QED
    BY <2>2, <2>3
<1> QED
  BY <1>1, <1>2

\* Before the first request.
LEMMA PipeInitInv ==
  ASSUME PipeInit
  PROVE  PipeInv
PROOF
<1>1. ConnInv
  BY ConnInit DEF PipeInit
<1>2. /\ coding = "none" /\ aborted = FALSE /\ guard = NewGuard /\ stage = NewStage
      /\ caller = "done" /\ got = 0 /\ raw = Opened /\ at = "start"
  BY DEF PipeInit, Init
<1>3. PipeTyped
  BY <1>2 DEF PipeTyped, NewGuard, NewStage, StreamStates
<1>4. Told
  BY <1>2 DEF Told, Fresh
<1>5. Passed
  BY <1>2 DEF Passed, Onward, NewGuard, Opened
<1>6. Inflated
  BY <1>2 DEF Inflated
<1> QED
  BY <1>1, <1>3, <1>4, <1>5, <1>6 DEF PipeInv

\* A new request, or a step of the connection that the stages do not see.
LEMMA AdvanceInv ==
  ASSUME PipeInv, Advance
  PROVE  PipeInv'
PROOF
<1> USE DEF PipeInv
<1>1. ConnInv' /\ Connection
  BY ConnectionKeeps DEF Advance
<1>2. CASE Request /\ request' # request
  <2>1. /\ coding' \in {"none", "gzip"} /\ aborted' = FALSE /\ guard' = NewGuard
        /\ stage' = NewStage /\ caller' = "reading" /\ got' = 0
        /\ at' = "head" /\ raw' = Opened
    BY <1>2, PipelineAssumption DEF Advance, Request
  <2>2. PipeTyped'
    BY <2>1 DEF PipeTyped, NewGuard, NewStage, StreamStates
  <2>3. Told'
    BY <2>1 DEF Told, Fresh
  <2>4. Passed'
    BY <2>1 DEF Passed, Onward, NewGuard, NewStage, Opened
  <2>5. Inflated'
    <3>1. Inflate * 0 = 0 /\ 0 <= MaxBodyBytes
      BY Products, PipelineAssumption, Http1Assumption
    <3> QED
      BY <2>1, <3>1 DEF Inflated, NewStage
  <2> QED
    BY <1>1, <2>2, <2>3, <2>4, <2>5
<1>3. CASE request' = request
  <2>1. /\ method' = method /\ resp' = resp
        /\ raw'.delivered = raw.delivered
        /\ raw.state # "readable" => raw' = raw
        /\ at = "body" => at' = "body" /\ framing' = framing
        /\ at' # at => at = "head" /\ at' \in {"failed", "body"}
        /\ at' = "failed" => raw'.state = "errored"
    BY <1>1, <1>3, ConnectionFrame
  <2>2. /\ caller' = IF at' = at THEN caller
                     ELSE IF at' = "failed" THEN "error"
                     ELSE IF framing'.kind = "none" THEN "done" ELSE caller
        /\ UNCHANGED <<coding, aborted, guard, stage, got>>
    BY <1>3 DEF Advance
  <2>3. PipeTyped'
    BY <2>2 DEF PipeTyped
  <2>4. Told'
    <3>1. (at # "body" \/ framing.kind = "none" => Fresh)'
      BY <2>1, <2>2 DEF Told, Fresh
    <3>2. (caller \in {"error", "cancelled"} => raw.state # "readable")'
      <4>1. CASE at' = at
        BY <2>1, <2>2, <4>1 DEF Told
      <4>2. CASE at' # at
        BY <2>1, <2>2, <4>2 DEF Told
      <4> QED
        BY <4>1, <4>2
    <3> QED
      BY <2>1, <2>2, <3>1, <3>2 DEF Told
  <2>5. Passed'
    BY <2>1, <2>2 DEF Passed, Onward, Drained
  <2>6. Inflated'
    BY <2>1, <2>2 DEF Inflated, AtEnd
  <2> QED
    BY <1>1, <2>3, <2>4, <2>5, <2>6
<1> QED
  BY <1>1, <1>2, <1>3, ConnectionFrame

\* A step of a stage that leaves the connection alone.
LEMMA ConnSame ==
  ASSUME ConnInv, UNCHANGED http1Vars
  PROVE  ConnInv'
PROOF
<1>1. UNCHANGED <<request, method, resp, plan, tail, wire, conn, at, budget, framing, chunk, raw,
                  completed>>
  BY DEF http1Vars, serverVars, readerVars
<1>2. Positions' /\ Msg' = Msg /\ Taken' = Taken
  BY <1>1, Stayed DEF ConnInv
<1>3. Typed' /\ Placed' /\ Settled' /\ Counted' /\ Chunked'
  BY <1>1, <1>2 DEF ConnInv, Typed, Placed, Settled, Complete, Counted, Received, Chunked
<1> QED
  BY <1>2, <1>3 DEF ConnInv

\* The source of the stage is given up: either it was over, or it is now.
LEMMA CancelGuardIs ==
  ASSUME ConnInv, PipeTyped, Passed, Guarded, CancelGuard
  PROVE  /\ ConnInv' /\ Guarded' /\ UNCHANGED <<request, method, resp, plan, tail, wire, at, framing>>
         /\ guard' \in [state : StreamStates, queue : Nat]
         /\ guard'.state # "readable" /\ raw'.state # "readable"
         /\ raw'.delivered = raw.delivered
         /\ guard'.queue <= guard.queue
         /\ guard.state # "readable" => guard' = guard /\ UNCHANGED http1Vars
         /\ guard.state = "readable" => guard' = [state |-> "cancelled", queue |-> 0]
PROOF
<1>1. at = "body" /\ framing.kind # "none"
  BY DEF Guarded
<1>2. guard \in [state : StreamStates, queue : Nat] /\ guard.queue \in Nat
  BY DEF PipeTyped
<1>3. CASE guard.state = "readable"
  <2>1. CancelBody /\ guard' = [guard EXCEPT !.state = "cancelled", !.queue = 0]
    BY <1>3 DEF CancelGuard
  <2>2. guard' = [state |-> "cancelled", queue |-> 0]
    BY <1>2, <2>1
  <2>3. UNCHANGED <<request, method, resp, plan, tail, wire, at, budget, framing>>
    BY <2>1 DEF CancelBody, serverVars
  <2>4. ConnInv' /\ raw'.delivered = raw.delivered /\ raw'.state # "readable"
    BY <1>1, <2>1, CancelBodyKeeps
  <2>5. guard' \in [state : StreamStates, queue : Nat] /\ guard'.queue <= guard.queue
    BY <1>2, <2>2 DEF StreamStates
  <2>6. Guarded'
    BY <1>1, <2>3 DEF Guarded
  <2> QED
    BY <1>3, <2>2, <2>3, <2>4, <2>5, <2>6
<1>4. CASE guard.state # "readable"
  <2>1. UNCHANGED <<http1Vars, guard>>
    BY <1>4 DEF CancelGuard
  <2>2. ConnInv'
    BY <2>1, ConnSame
  <2>3. UNCHANGED <<request, method, resp, plan, tail, wire, at, framing, raw>>
    BY <2>1 DEF http1Vars, serverVars, readerVars
  <2>4. raw.state # "readable"
    BY <1>4 DEF Passed
  <2>5. guard.queue <= guard.queue
    BY <1>2
  <2>6. Guarded'
    BY <1>1, <2>3 DEF Guarded
  <2> QED
    BY <1>2, <1>4, <2>1, <2>2, <2>3, <2>4, <2>5, <2>6
<1> QED
  BY <1>3, <1>4

\* The deadline fires.
LEMMA ExpireInv ==
  ASSUME PipeInv, Expire
  PROVE  PipeInv'
PROOF
<1>1. UNCHANGED <<http1Vars, coding, guard, stage, caller, got>> /\ aborted' = TRUE
  BY DEF Expire
<1>2. UNCHANGED <<resp, at, framing, raw>>
  BY <1>1 DEF http1Vars, serverVars, readerVars
<1>3. ConnInv'
  BY <1>1, ConnSame DEF PipeInv
<1>4. PipeTyped' /\ Told' /\ Passed' /\ Inflated'
  BY <1>1, <1>2 DEF PipeInv, PipeTyped, Told, Fresh, Passed, Onward, Drained, Inflated, AtEnd
<1> QED
  BY <1>3, <1>4 DEF PipeInv

\* The deadline's stream takes what has come, or ends.
LEMMA GuardPullInv ==
  ASSUME PipeInv, GuardPull
  PROVE  PipeInv'
PROOF
<1> USE DEF PipeInv
<1>1. /\ at = "body" /\ framing.kind # "none" /\ guard.state = "readable" /\ guard.queue = 0
      /\ UNCHANGED <<coding, aborted, stage, caller, got>>
  BY DEF GuardPull, Guarded, Flowing
<1>2. /\ guard \in [state : StreamStates, queue : Nat] /\ stage.fed \in Nat /\ got \in Nat
      /\ raw \in [state : {"readable", "closed", "errored", "cancelled"},
                  queue : Nat, delivered : Nat]
  <2>1. raw \in [state : {"readable", "closed", "errored", "cancelled"},
                 queue : Nat, delivered : Nat]
    BY DEF ConnInv, Typed
  <2>2. guard \in [state : StreamStates, queue : Nat] /\ got \in Nat
    BY DEF PipeTyped
  <2>3. stage.fed \in Nat
    BY DEF PipeTyped
  <2> QED
    BY <2>1, <2>2, <2>3
<1>3. /\ Onward = raw.delivered
      /\ Onward = IF coding = "gzip" THEN stage.fed ELSE got
  BY <1>1, <1>2 DEF Passed, Onward
<1>4. coding = "gzip" => /\ stage.at \notin {"ended", "empty"}
                         /\ stage.state \notin {"closed", "errored", "cancelled"}
  BY <1>1 DEF Inflated, AtEnd
<1>5. ASSUME NEW q \in Nat, NEW st \in StreamStates, guard' = [state |-> st, queue |-> q],
             ConnInv', UNCHANGED <<resp, at, framing>>,
             raw'.delivered = raw.delivered + q,
             raw.state # "readable" => raw'.state # "readable",
             st # "readable" => raw'.state # "readable" /\ q = 0,
             st = "closed" => Drained'
      PROVE  PipeInv'
  <2>1. PipeTyped'
    BY <1>1, <1>5 DEF PipeTyped
  <2>2. Told'
    BY <1>1, <1>5 DEF Told
  <2>3. Passed'
    <3>1. Onward' = (IF coding = "gzip" THEN stage.fed ELSE got) + q
      BY <1>1, <1>5 DEF Onward
    <3>2. Onward' = raw'.delivered /\ raw'.delivered \in Nat
      <4>1. Onward' = raw.delivered + q
        BY <1>3, <3>1
      <4>2. raw.delivered \in Nat
        BY <1>2
      <4> QED
        BY <1>5, <4>1, <4>2
    <3> QED
      BY <1>5, <3>2 DEF Passed
  <2>4. Inflated'
    BY <1>1, <1>4, <1>5 DEF Inflated
  <2> QED
    BY <1>5, <2>1, <2>2, <2>3, <2>4
<1>6. CASE CancelBody /\ guard' = [guard EXCEPT !.state = "errored"]
  <2>1. guard' = [state |-> "errored", queue |-> 0]
    BY <1>1, <1>2, <1>6
  <2>2. ConnInv' /\ raw'.delivered = raw.delivered /\ raw'.state # "readable"
    BY <1>1, <1>6, CancelBodyKeeps
  <2>3. UNCHANGED <<resp, at, framing>>
    BY <1>6 DEF CancelBody, serverVars
  <2>4. raw'.delivered = raw.delivered + 0 /\ "errored" \in StreamStates /\ 0 \in Nat
    BY <1>2, <2>2 DEF StreamStates
  <2> HIDE DEF PipeInv
  <2> QED
    BY <1>5, <2>1, <2>2, <2>3, <2>4
<1>7. CASE TakeChunk /\ guard' = [guard EXCEPT !.queue = raw.queue]
  <2>1. guard' = [state |-> "readable", queue |-> raw.queue] /\ raw.queue \in Nat
    BY <1>1, <1>2, <1>7
  <2>2. ConnInv'
    BY <1>7, TakeChunkKeeps
  <2>3. /\ raw' = [raw EXCEPT !.queue = 0, !.delivered = @ + raw.queue]
        /\ UNCHANGED <<resp, at, framing>>
    BY <1>7 DEF TakeChunk, serverVars, readerVars
  <2>4. raw'.delivered = raw.delivered + raw.queue /\ raw'.state = raw.state
        /\ "readable" \in StreamStates
    BY <1>2, <2>3 DEF StreamStates
  <2> HIDE DEF PipeInv
  <2> QED
    BY <1>5, <2>1, <2>2, <2>3, <2>4
<1>8. CASE /\ UNCHANGED http1Vars
           /\ \/ Drained /\ guard' = [guard EXCEPT !.state = "closed"]
              \/ raw.state = "errored" /\ guard' = [guard EXCEPT !.state = "errored"]
  <2>1. UNCHANGED <<resp, at, framing, raw>>
    BY <1>8 DEF http1Vars, serverVars, readerVars
  <2>2. ConnInv'
    BY <1>8, ConnSame
  <2>3. raw'.delivered = raw.delivered + 0 /\ 0 \in Nat
        /\ "closed" \in StreamStates /\ "errored" \in StreamStates
    BY <1>2, <2>1 DEF StreamStates
  <2>4. CASE Drained /\ guard' = [guard EXCEPT !.state = "closed"]
    <3>1. guard' = [state |-> "closed", queue |-> 0] /\ raw'.state # "readable" /\ Drained'
      BY <1>1, <1>2, <2>1, <2>4 DEF Drained
    <3> HIDE DEF PipeInv
    <3> QED
      BY <1>5, <2>1, <2>2, <2>3, <3>1
  <2>5. CASE raw.state = "errored" /\ guard' = [guard EXCEPT !.state = "errored"]
    <3>1. guard' = [state |-> "errored", queue |-> 0] /\ raw'.state # "readable"
      BY <1>1, <1>2, <2>1, <2>5
    <3> HIDE DEF PipeInv
    <3> QED
      BY <1>5, <2>1, <2>2, <2>3, <3>1
  <2> QED
    BY <1>8, <2>4, <2>5
<1> QED
  BY <1>6, <1>7, <1>8 DEF GuardPull

\* A step of the stage that leaves the connection, and the ends of its source, as they are.
LEMMA StageMoves ==
  ASSUME PipeInv, Decoding, UNCHANGED <<http1Vars, coding, aborted, caller, got>>,
         guard' = guard \/ guard' = [guard EXCEPT !.queue = 0],
         PipeTyped', stage'.fed + guard'.queue = stage.fed + guard.queue, Inflated'
  PROVE  PipeInv'
PROOF
<1> USE DEF PipeInv
<1>1. UNCHANGED <<resp, at, framing, raw>>
  BY DEF http1Vars, serverVars, readerVars
<1>2. ConnInv'
  BY ConnSame
<1>3. guard \in [state : StreamStates, queue : Nat]
  BY DEF PipeTyped
<1>4. guard'.state = guard.state /\ (guard.queue = 0 => guard'.queue = 0)
  BY <1>3
<1>5. Told'
  BY <1>1 DEF Told, Decoding, Guarded
<1>6. Passed'
  <2>1. Onward' = Onward
    BY DEF Onward, Decoding
  <2> QED
    BY <1>1, <1>4, <2>1 DEF Passed, Drained
<1> QED
  BY <1>2, <1>5, <1>6

\* A step that gives up the source of the stage.
LEMMA StageCancels ==
  ASSUME PipeInv, Guarded, CancelGuard, UNCHANGED <<coding, aborted, got>>,
         caller' = caller \/ caller' = "cancelled",
         PipeTyped', stage'.fed = stage.fed, Inflated'
  PROVE  PipeInv'
PROOF
<1> USE DEF PipeInv
<1>1. /\ ConnInv' /\ UNCHANGED <<resp, at, framing>>
      /\ guard'.state # "readable" /\ raw'.state # "readable"
      /\ raw'.delivered = raw.delivered /\ guard'.queue <= guard.queue
      /\ guard.state # "readable" => guard' = guard /\ UNCHANGED http1Vars
      /\ guard.state = "readable" => guard' = [state |-> "cancelled", queue |-> 0]
  BY CancelGuardIs
<1>2. at = "body" /\ framing.kind # "none"
  BY DEF Guarded
<1>3. Told'
  BY <1>1, <1>2 DEF Told
<1>4. /\ guard.queue \in Nat /\ guard'.queue \in Nat /\ raw.delivered \in Nat
      /\ stage.fed \in Nat /\ got \in Nat
  <2>1. raw.delivered \in Nat
    BY DEF ConnInv, Typed
  <2>2. guard.queue \in Nat /\ guard'.queue \in Nat
    BY DEF PipeTyped
  <2>3. stage.fed \in Nat /\ got \in Nat
    BY DEF PipeTyped
  <2> QED
    BY <2>1, <2>2, <2>3
<1>5. Passed'
  <2>1. CASE guard.state = "readable"
    <3>1. guard' = [state |-> "cancelled", queue |-> 0]
      BY <1>1, <2>1
    <3>2. Onward' <= raw'.delivered
      <4>1. Onward' = IF coding = "gzip" THEN stage.fed + 0 ELSE got + 0
        BY <3>1 DEF Onward
      <4>2. (IF coding = "gzip" THEN stage.fed + guard.queue ELSE got + guard.queue) <= raw.delivered
        BY DEF Passed, Onward
      <4>3. \A x, y, z \in Nat : x + y <= z => x + 0 <= z
        OBVIOUS
      <4> HIDE DEF PipeInv
      <4> QED
        BY <1>1, <1>4, <4>1, <4>2, <4>3
    <3> QED
      BY <1>1, <3>1, <3>2 DEF Passed
  <2>2. CASE guard.state # "readable"
    <3>1. guard' = guard /\ raw' = raw
      BY <1>1, <2>2 DEF http1Vars
    <3>2. Onward' = Onward
      BY <3>1 DEF Onward
    <3> QED
      BY <2>2, <3>1, <3>2 DEF Passed, Drained
  <2> QED
    BY <2>1, <2>2
<1> QED
  BY <1>1, <1>3, <1>5

\* The types of the stage and of the stream before it, and the factor's.
LEMMA StageTyped ==
  ASSUME PipeTyped
  PROVE  /\ guard \in [state : StreamStates, queue : Nat] /\ guard.queue \in Nat
         /\ stage \in [at : {"sniff", "pump", "ended", "broken", "empty"},
                       fed : Nat, out : Nat, produced : Nat, state : StreamStates, queue : Nat]
         /\ stage.fed \in Nat /\ stage.out \in Nat /\ stage.produced \in Nat /\ stage.queue \in Nat
         /\ got \in Nat /\ Inflate \in Nat /\ MaxBodyBytes \in Nat
PROOF
<1>1. Inflate \in Nat /\ MaxBodyBytes \in Nat
  BY PipelineAssumption, Http1Assumption
<1>2. guard \in [state : StreamStates, queue : Nat] /\ got \in Nat
  BY DEF PipeTyped
<1>3. stage \in [at : {"sniff", "pump", "ended", "broken", "empty"},
                 fed : Nat, out : Nat, produced : Nat, state : StreamStates, queue : Nat]
  BY DEF PipeTyped
<1> QED
  BY <1>1, <1>2, <1>3

\* The stage collects the first bytes.
LEMMA SniffInv ==
  ASSUME PipeInv, Sniff
  PROVE  PipeInv'
PROOF
<1>1. /\ Decoding /\ coding = "gzip" /\ stage.at = "sniff"
      /\ UNCHANGED <<http1Vars, coding, aborted, caller, got>>
  BY DEF Sniff, Pumping, Decoding
<1>2. PipeTyped /\ Inflated
  BY DEF PipeInv
<1>3. /\ guard \in [state : StreamStates, queue : Nat] /\ guard.queue \in Nat
      /\ stage.fed \in Nat /\ stage.out \in Nat /\ stage.produced \in Nat /\ stage.queue \in Nat
      /\ stage \in [at : {"sniff", "pump", "ended", "broken", "empty"},
                    fed : Nat, out : Nat, produced : Nat, state : StreamStates, queue : Nat]
      /\ got \in Nat /\ Inflate \in Nat /\ MaxBodyBytes \in Nat
  BY <1>2, StageTyped
<1>4. /\ got + stage.queue = 0 /\ stage.produced = 0 /\ stage.state # "closed"
      /\ stage.state \in {"errored", "cancelled"} => guard.state # "readable"
  BY <1>1, <1>2 DEF Inflated
<1>5. resp' = resp
  BY <1>1 DEF http1Vars, serverVars
<1>6. ASSUME NEW n \in Nat, NEW place \in {"sniff", "pump", "empty", "broken"}, NEW o \in Nat,
             stage' = [at |-> place, fed |-> n, out |-> o, produced |-> stage.produced,
                       state |-> stage.state, queue |-> stage.queue],
             guard' = guard \/ guard' = [guard EXCEPT !.queue = 0],
             n + guard'.queue = stage.fed + guard.queue,
             place = "pump" => o = n * Inflate,
             place = "empty" => n = 0 /\ AtEnd(guard')
      PROVE  PipeInv'
  <2>1. guard' \in [state : StreamStates, queue : Nat] /\ guard'.state = guard.state
    BY <1>3, <1>6
  <2>2. PipeTyped'
    BY <1>1, <1>2, <1>3, <1>6, <2>1 DEF PipeTyped
  <2>3. Inflate * n \in Nat /\ n * Inflate = Inflate * n
    BY <1>3, Products
  <2>4. Inflated'
    BY <1>1, <1>3, <1>4, <1>5, <1>6, <2>1, <2>3 DEF Inflated
  <2>5. stage'.fed + guard'.queue = stage.fed + guard.queue
    BY <1>6
  <2> QED
    BY <1>1, <1>6, <2>2, <2>4, <2>5, StageMoves
<1>7. CASE /\ guard' = [guard EXCEPT !.queue = 0]
           /\ LET n == stage.fed + guard.queue IN
              stage' = [stage EXCEPT !.fed = n, !.at = IF n < 2 THEN "sniff" ELSE "pump",
                                     !.out = IF n < 2 THEN 0 ELSE n * Inflate]
  <2> DEFINE n == stage.fed + guard.queue
             place == IF n < 2 THEN "sniff" ELSE "pump"
             o == IF n < 2 THEN 0 ELSE n * Inflate
  <2>1. n \in Nat
    BY <1>3
  <2>2. o \in Nat /\ place \in {"sniff", "pump"} /\ (place = "pump" => o = n * Inflate)
    BY <1>3, <2>1, Products
  <2>3. stage' = [at |-> place, fed |-> n, out |-> o, produced |-> stage.produced,
                  state |-> stage.state, queue |-> stage.queue]
    BY <1>3, <1>7
  <2>4. guard'.queue = 0 /\ n + guard'.queue = stage.fed + guard.queue
    BY <1>3, <1>7
  <2> HIDE DEF n, place, o
  <2> QED
    BY <1>6, <1>7, <2>1, <2>2, <2>3, <2>4
<1>8. CASE /\ AtEnd(guard)
           /\ stage' = [stage EXCEPT !.at = IF stage.fed = 0 THEN "empty" ELSE "pump",
                                     !.out = stage.fed * Inflate]
           /\ UNCHANGED guard
  <2> DEFINE place == IF stage.fed = 0 THEN "empty" ELSE "pump"
             o == stage.fed * Inflate
  <2>1. o \in Nat /\ place \in {"empty", "pump"}
        /\ (place = "empty" => stage.fed = 0)
    BY <1>3, Products
  <2>2. stage' = [at |-> place, fed |-> stage.fed, out |-> o, produced |-> stage.produced,
                  state |-> stage.state, queue |-> stage.queue]
    BY <1>3, <1>8
  <2>3. AtEnd(guard') /\ stage.fed + guard'.queue = stage.fed + guard.queue
        /\ (place = "pump" => o = stage.fed * Inflate)
    BY <1>8
  <2> HIDE DEF place, o
  <2> QED
    BY <1>3, <1>6, <1>8, <2>1, <2>2, <2>3
<1>9. CASE /\ guard.state = "errored"
           /\ stage' = [stage EXCEPT !.at = "broken"]
           /\ UNCHANGED guard
  <2>1. stage' = [at |-> "broken", fed |-> stage.fed, out |-> stage.out,
                  produced |-> stage.produced, state |-> stage.state, queue |-> stage.queue]
    BY <1>3, <1>9
  <2>2. stage.fed + guard'.queue = stage.fed + guard.queue
    BY <1>9
  <2> QED
    BY <1>3, <1>6, <1>9, <2>1, <2>2
<1> QED
  BY <1>7, <1>8, <1>9 DEF Sniff

\* The pump feeds the decompressor.
LEMMA FeedInv ==
  ASSUME PipeInv, Feed
  PROVE  PipeInv'
PROOF
<1>1. /\ Decoding /\ coding = "gzip" /\ stage.at = "pump"
      /\ UNCHANGED <<http1Vars, coding, aborted, caller, got>>
      /\ guard' = [guard EXCEPT !.queue = 0]
      /\ stage' = [stage EXCEPT !.fed = @ + guard.queue, !.out = @ + guard.queue * Inflate]
  BY DEF Feed, Pumping, Decoding
<1>2. PipeTyped /\ Inflated
  BY DEF PipeInv
<1>3. /\ guard \in [state : StreamStates, queue : Nat] /\ guard.queue \in Nat
      /\ stage.fed \in Nat /\ stage.out \in Nat /\ stage.produced \in Nat /\ stage.queue \in Nat
      /\ stage \in [at : {"sniff", "pump", "ended", "broken", "empty"},
                    fed : Nat, out : Nat, produced : Nat, state : StreamStates, queue : Nat]
      /\ got \in Nat /\ Inflate \in Nat /\ MaxBodyBytes \in Nat
  BY <1>2, StageTyped
<1> DEFINE x == guard.queue * Inflate
<1>4. /\ x \in Nat /\ x = Inflate * guard.queue /\ Inflate * stage.fed \in Nat
      /\ Inflate * (stage.fed + guard.queue) = Inflate * stage.fed + x
  BY <1>3, Products
<1>5. stage' = [at |-> "pump", fed |-> stage.fed + guard.queue, out |-> stage.out + x,
                produced |-> stage.produced, state |-> stage.state, queue |-> stage.queue]
  BY <1>1, <1>3
<1> HIDE DEF x
<1>6. /\ got + stage.queue = stage.produced /\ stage.produced <= MaxBodyBytes
      /\ stage.produced + stage.out = Inflate * stage.fed /\ stage.state # "closed"
      /\ stage.state \in {"errored", "cancelled"} => guard.state # "readable"
  BY <1>1, <1>2 DEF Inflated
<1>7. guard' = [state |-> guard.state, queue |-> 0] /\ guard'.state = guard.state
  BY <1>1, <1>3
<1>8. PipeTyped'
  <2>1. stage.fed + guard.queue \in Nat /\ stage.out + x \in Nat
    BY <1>3, <1>4
  <2> QED
    BY <1>1, <1>2, <1>3, <1>5, <1>7, <2>1 DEF PipeTyped
<1>9. Inflated'
  <2>1. stage.produced + (stage.out + x) = Inflate * (stage.fed + guard.queue)
        /\ stage.produced <= Inflate * (stage.fed + guard.queue)
    BY <1>3, <1>4, <1>6
  <2>2. /\ stage'.at = "pump" /\ stage'.fed = stage.fed + guard.queue
        /\ stage'.out = stage.out + x /\ stage'.produced = stage.produced
        /\ stage'.state = stage.state /\ stage'.queue = stage.queue
    BY <1>5
  <2>3. /\ stage'.produced <= Inflate * stage'.fed
        /\ stage'.produced + stage'.out = Inflate * stage'.fed
    BY <2>1, <2>2
  <2>4. got' = got
    BY <1>1
  <2> QED
    BY <1>6, <1>7, <2>2, <2>3, <2>4 DEF Inflated
<1>10. stage'.fed + guard'.queue = stage.fed + guard.queue
  BY <1>3, <1>5, <1>7
<1> QED
  BY <1>1, <1>8, <1>9, <1>10, StageMoves

\* The pump closes the decompressor.
LEMMA FeedEndInv ==
  ASSUME PipeInv, FeedEnd
  PROVE  PipeInv'
PROOF
<1>1. /\ Decoding /\ coding = "gzip" /\ stage.at = "pump" /\ AtEnd(guard)
      /\ UNCHANGED <<http1Vars, coding, aborted, guard, caller, got>>
      /\ stage' = [stage EXCEPT !.at = IF stage.fed = Total(resp) THEN "ended" ELSE "broken"]
  BY DEF FeedEnd, Pumping, Decoding
<1>2. PipeTyped /\ Inflated /\ resp' = resp
  BY <1>1 DEF PipeInv, http1Vars, serverVars
<1>3. stage \in [at : {"sniff", "pump", "ended", "broken", "empty"},
                 fed : Nat, out : Nat, produced : Nat, state : StreamStates, queue : Nat]
  BY <1>2, StageTyped
<1>4. stage' = [at |-> IF stage.fed = Total(resp) THEN "ended" ELSE "broken",
                fed |-> stage.fed, out |-> stage.out,
                produced |-> stage.produced, state |-> stage.state, queue |-> stage.queue]
  BY <1>1, <1>3
<1>5. PipeTyped'
  BY <1>1, <1>2, <1>3, <1>4 DEF PipeTyped
<1>6. Inflated'
  BY <1>1, <1>2, <1>4 DEF Inflated
<1>7. stage'.fed + guard'.queue = stage.fed + guard.queue
  BY <1>1, <1>4
<1> QED
  BY <1>1, <1>5, <1>6, <1>7, StageMoves

\* The stage fails, in its pump or as it is read, or is given up with it.
LEMMA StageOver ==
  ASSUME PipeInv, Guarded, CancelGuard, UNCHANGED <<coding, aborted, got>>,
         caller' = caller \/ caller' = "cancelled",
         NEW place, place = stage.at \/ place = "broken",
         NEW st, st = stage.state \/ st \in {"errored", "cancelled"},
         NEW q \in Nat, q = stage.queue,
         stage' = [at |-> place, fed |-> stage.fed, out |-> stage.out,
                   produced |-> stage.produced, state |-> st, queue |-> q],
         st = "closed" => place = stage.at
  PROVE  PipeInv'
PROOF
<1>1. PipeTyped /\ Inflated /\ ConnInv /\ Passed
  BY DEF PipeInv
<1>2. /\ UNCHANGED <<resp, at, framing>>
      /\ guard' \in [state : StreamStates, queue : Nat]
      /\ guard'.state # "readable"
      /\ guard.state # "readable" => guard' = guard
  BY <1>1, CancelGuardIs
<1>3. stage \in [at : {"sniff", "pump", "ended", "broken", "empty"},
                 fed : Nat, out : Nat, produced : Nat, state : StreamStates, queue : Nat]
  BY <1>1, StageTyped
<1>4. PipeTyped'
  <2>1. place \in {"sniff", "pump", "ended", "broken", "empty"} /\ st \in StreamStates
    BY <1>3 DEF StreamStates
  <2>2. caller' \in {"reading", "done", "error", "cancelled"}
    BY <1>1 DEF PipeTyped
  <2> QED
    BY <1>1, <1>2, <1>3, <2>1, <2>2 DEF PipeTyped
<1>5. Inflated'
  <2>1. AtEnd(guard) => guard' = guard /\ AtEnd(guard')
    BY <1>2 DEF AtEnd
  <2> QED
    BY <1>1, <1>2, <2>1 DEF Inflated
<1>6. stage'.fed = stage.fed
  OBVIOUS
<1> QED
  BY <1>4, <1>5, <1>6, StageCancels

\* The record of the stage, field by field.
LEMMA StageFields ==
  ASSUME PipeTyped
  PROVE  stage = [at |-> stage.at, fed |-> stage.fed, out |-> stage.out,
                  produced |-> stage.produced, state |-> stage.state, queue |-> stage.queue]
BY StageTyped

\* The pump's catch.
LEMMA FeedFailsInv ==
  ASSUME PipeInv, FeedFails
  PROVE  PipeInv'
PROOF
<1>1. /\ Guarded /\ stage.at = "pump" /\ coding = "gzip" /\ CancelGuard
      /\ UNCHANGED <<coding, aborted, caller, got>>
      /\ stage' = [stage EXCEPT !.at = "broken"]
  BY DEF FeedFails, Pumping, Decoding
<1>2. PipeTyped /\ Inflated
  BY DEF PipeInv
<1>3. stage.queue \in Nat /\ stage.state # "closed"
  BY <1>1, <1>2, StageTyped DEF Inflated
<1>4. stage' = [at |-> "broken", fed |-> stage.fed, out |-> stage.out,
                produced |-> stage.produced, state |-> stage.state, queue |-> stage.queue]
  BY <1>1, <1>2, StageFields
<1> QED
  BY <1>1, <1>3, <1>4, StageOver

\* The stage is pulled.
LEMMA StagePullInv ==
  ASSUME PipeInv, StagePull
  PROVE  PipeInv'
PROOF
<1>1. /\ Decoding /\ Guarded /\ coding = "gzip" /\ stage.state = "readable" /\ stage.queue = 0
      /\ UNCHANGED <<coding, aborted, caller, got>>
  BY DEF StagePull, Decoding, Flowing
<1>2. PipeTyped /\ Inflated
  BY DEF PipeInv
<1>3. /\ stage.fed \in Nat /\ stage.out \in Nat /\ stage.produced \in Nat /\ stage.queue \in Nat
      /\ stage \in [at : {"sniff", "pump", "ended", "broken", "empty"},
                    fed : Nat, out : Nat, produced : Nat, state : StreamStates, queue : Nat]
      /\ got \in Nat /\ Inflate \in Nat /\ MaxBodyBytes \in Nat
  BY <1>2, StageTyped
<1>4. ASSUME StageFails PROVE PipeInv'
  <2>1. CancelGuard /\ stage' = [stage EXCEPT !.state = "errored"]
    BY <1>4 DEF StageFails
  <2>2. stage' = [at |-> stage.at, fed |-> stage.fed, out |-> stage.out,
                  produced |-> stage.produced, state |-> "errored", queue |-> stage.queue]
    BY <1>2, <2>1, StageFields
  <2> QED
    BY <1>1, <1>3, <2>1, <2>2, StageOver
<1>5. ASSUME /\ stage.at = "empty" \/ (stage.at = "ended" /\ stage.out = 0)
             /\ stage' = [stage EXCEPT !.state = "closed"]
             /\ UNCHANGED <<http1Vars, guard>>
      PROVE  PipeInv'
  <2>1. stage' = [at |-> stage.at, fed |-> stage.fed, out |-> stage.out,
                  produced |-> stage.produced, state |-> "closed", queue |-> stage.queue]
    BY <1>2, <1>5, StageFields
  <2>2. resp' = resp /\ guard' = guard
    BY <1>5 DEF http1Vars, serverVars
  <2>3. PipeTyped'
    BY <1>1, <1>2, <1>3, <2>1, <2>2 DEF PipeTyped, StreamStates
  <2>4. Inflated'
    BY <1>1, <1>2, <1>5, <2>1, <2>2 DEF Inflated
  <2>5. stage'.fed + guard'.queue = stage.fed + guard.queue
    BY <2>1, <2>2
  <2> QED
    BY <1>1, <1>5, <2>2, <2>3, <2>4, <2>5, StageMoves
<1>6. ASSUME stage.at \in {"pump", "ended"}, NEW n \in 1..stage.out,
             ~(stage.produced + n > MaxBodyBytes),
             stage' = [stage EXCEPT !.out = @ - n, !.produced = @ + n, !.queue = n],
             UNCHANGED <<http1Vars, guard>>
      PROVE  PipeInv'
  <2>1. n \in Nat /\ stage.out - n \in Nat /\ stage.produced + n \in Nat
    BY <1>3, <1>6
  <2>2. stage' = [at |-> stage.at, fed |-> stage.fed, out |-> stage.out - n,
                  produced |-> stage.produced + n, state |-> stage.state, queue |-> n]
    BY <1>3, <1>6
  <2>3. resp' = resp /\ guard' = guard /\ got' = got
    BY <1>1, <1>6 DEF http1Vars, serverVars
  <2>4. PipeTyped'
    BY <1>1, <1>2, <1>3, <2>1, <2>2, <2>3 DEF PipeTyped
  <2>5. /\ got + stage.queue = stage.produced
        /\ stage.produced + stage.out = Inflate * stage.fed
        /\ stage.at = "ended" => stage.fed = Total(resp) /\ AtEnd(guard)
    BY <1>1, <1>2, <1>6 DEF Inflated
  <2>6. /\ got + n = stage.produced + n /\ stage.produced + n <= MaxBodyBytes
        /\ (stage.produced + n) + (stage.out - n) = stage.produced + stage.out
        /\ stage.produced + n <= stage.produced + stage.out
    BY <1>1, <1>3, <1>6, <2>1, <2>5
  <2>7. /\ stage'.at = stage.at /\ stage'.fed = stage.fed /\ stage'.out = stage.out - n
        /\ stage'.produced = stage.produced + n /\ stage'.state = "readable" /\ stage'.queue = n
    BY <1>1, <2>2
  <2>8. Inflated'
    <3>1. /\ got' + stage'.queue = stage'.produced /\ stage'.produced <= MaxBodyBytes
          /\ stage'.produced <= Inflate * stage'.fed
          /\ stage'.produced + stage'.out = Inflate * stage'.fed
      BY <2>3, <2>5, <2>6, <2>7
    <3> QED
      BY <1>6, <2>3, <2>5, <2>7, <3>1 DEF Inflated
  <2>9. stage'.fed + guard'.queue = stage.fed + guard.queue
    BY <2>3, <2>7
  <2> QED
    BY <1>1, <1>6, <2>3, <2>4, <2>8, <2>9, StageMoves
<1> QED
  BY <1>4, <1>5, <1>6 DEF StagePull

\* The caller reads: what it is given has left the last stream.
LEMMA ReadInv ==
  ASSUME PipeInv, Read
  PROVE  PipeInv'
PROOF
<1>1. /\ Guarded /\ caller = "reading" /\ got' = got + Source.queue
      /\ UNCHANGED <<http1Vars, coding, aborted, caller>>
      /\ IF coding = "gzip" THEN stage' = [stage EXCEPT !.queue = 0] /\ UNCHANGED guard
         ELSE guard' = [guard EXCEPT !.queue = 0] /\ UNCHANGED stage
  BY DEF Read, Reading
<1>2. ConnInv /\ PipeTyped /\ Told /\ Passed /\ Inflated /\ ConnInv'
  BY <1>1, ConnSame DEF PipeInv
<1>3. UNCHANGED <<resp, at, framing, raw>>
  BY <1>1 DEF http1Vars, serverVars, readerVars
<1>4. /\ guard \in [state : StreamStates, queue : Nat] /\ guard.queue \in Nat
      /\ stage.fed \in Nat /\ stage.out \in Nat /\ stage.produced \in Nat /\ stage.queue \in Nat
      /\ stage \in [at : {"sniff", "pump", "ended", "broken", "empty"},
                    fed : Nat, out : Nat, produced : Nat, state : StreamStates, queue : Nat]
      /\ got \in Nat /\ Inflate \in Nat /\ MaxBodyBytes \in Nat
  BY <1>2, StageTyped
<1>5. Told'
  BY <1>1, <1>2, <1>3 DEF Told, Guarded
<1>6. CASE coding = "gzip"
  <2>1. /\ got' = got + stage.queue /\ guard' = guard /\ coding' = coding
        /\ stage' = [at |-> stage.at, fed |-> stage.fed, out |-> stage.out,
                     produced |-> stage.produced, state |-> stage.state, queue |-> 0]
    BY <1>1, <1>4, <1>6 DEF Source
  <2>2. PipeTyped'
    <3>1. got + stage.queue \in Nat
      BY <1>4
    <3> QED
      BY <1>1, <1>2, <1>4, <2>1, <3>1 DEF PipeTyped
  <2>3. Passed'
    <3>1. Onward' = Onward
      BY <1>6, <2>1 DEF Onward
    <3> QED
      BY <1>2, <1>3, <2>1, <3>1 DEF Passed, Drained
  <2>4. Inflated'
    <3>1. (got + stage.queue) + 0 = got + stage.queue
      BY <1>4
    <3> QED
      BY <1>2, <1>3, <1>6, <2>1, <3>1 DEF Inflated
  <2> QED
    BY <1>2, <1>5, <2>2, <2>3, <2>4 DEF PipeInv
<1>7. CASE coding # "gzip"
  <2>1. /\ got' = got + guard.queue /\ stage' = stage /\ coding' = coding
        /\ guard' = [state |-> guard.state, queue |-> 0]
    BY <1>1, <1>4, <1>7 DEF Source
  <2>2. PipeTyped'
    <3>1. got + guard.queue \in Nat
      BY <1>4
    <3> QED
      BY <1>1, <1>2, <1>4, <2>1, <3>1 DEF PipeTyped
  <2>3. Passed'
    <3>1. Onward' = Onward
      <4>1. Onward' = (got + guard.queue) + 0 /\ Onward = got + guard.queue
        BY <1>7, <2>1 DEF Onward
      <4> QED
        BY <1>4, <4>1
    <3> QED
      BY <1>2, <1>3, <2>1, <3>1 DEF Passed, Drained
  <2>4. Inflated'
    BY <1>7, <2>1 DEF Inflated
  <2> QED
    BY <1>2, <1>5, <2>2, <2>3, <2>4 DEF PipeInv
<1> QED
  BY <1>6, <1>7

\* ... or learns how it ended: an error that reaches it has reached the connection.
LEMMA LearnInv ==
  ASSUME PipeInv, Learn
  PROVE  PipeInv'
PROOF
<1>1. /\ Guarded /\ caller = "reading"
      /\ caller' \in {"done", "error"} /\ (caller' = "error" => Source.state = "errored")
      /\ UNCHANGED <<http1Vars, coding, aborted, guard, stage, got>>
  BY DEF Learn, Reading
<1>2. ConnInv /\ PipeTyped /\ Told /\ Passed /\ Inflated /\ ConnInv'
  BY <1>1, ConnSame DEF PipeInv
<1>3. UNCHANGED <<resp, at, framing, raw>>
  BY <1>1 DEF http1Vars, serverVars, readerVars
<1>4. Source.state = "errored" => raw.state # "readable"
  BY <1>2 DEF Source, Passed, Inflated
<1>5. Told'
  BY <1>1, <1>2, <1>3, <1>4 DEF Told, Guarded
<1>6. PipeTyped' /\ Passed' /\ Inflated'
  BY <1>1, <1>2, <1>3 DEF PipeTyped, Passed, Onward, Drained, Inflated, AtEnd
<1> QED
  BY <1>2, <1>5, <1>6 DEF PipeInv

\* The caller gives the body up.
LEMMA CancelInv ==
  ASSUME PipeInv, Cancel
  PROVE  PipeInv'
PROOF
<1>1. /\ Guarded /\ caller' = "cancelled" /\ CancelGuard
      /\ UNCHANGED <<coding, aborted, got>>
      /\ stage' = [stage EXCEPT !.state = "cancelled", !.at = "broken"]
  BY DEF Cancel, Reading
<1>2. PipeTyped /\ stage.queue \in Nat
  BY StageTyped DEF PipeInv
<1>3. stage' = [at |-> "broken", fed |-> stage.fed, out |-> stage.out,
                produced |-> stage.produced, state |-> "cancelled", queue |-> stage.queue]
  BY <1>1, <1>2, StageFields
<1> QED
  BY <1>1, <1>2, <1>3, StageOver

\* A step that changes nothing.
LEMMA PipeSame ==
  ASSUME PipeInv, UNCHANGED vars
  PROVE  PipeInv'
PROOF
<1>1. UNCHANGED <<http1Vars, coding, aborted, guard, stage, caller, got>>
  BY DEF vars, pipeVars
<1>2. UNCHANGED <<resp, at, framing, raw>>
  BY <1>1 DEF http1Vars, serverVars, readerVars
<1>3. ConnInv'
  BY <1>1, ConnSame DEF PipeInv
<1>4. PipeTyped' /\ Told' /\ Passed' /\ Inflated'
  BY <1>1, <1>2 DEF PipeInv, PipeTyped, Told, Fresh, Passed, Onward, Drained, Inflated, AtEnd
<1> QED
  BY <1>3, <1>4 DEF PipeInv

\* The invariant of the connection and of the stages.
LEMMA PipeInvariant == Spec => []PipeInv
PROOF
<1>1. PipeInit => PipeInv
  BY PipeInitInv
<1>2. PipeInv /\ [PipeNext]_vars => PipeInv'
  BY AdvanceInv, ExpireInv, GuardPullInv, SniffInv, FeedInv, FeedEndInv, FeedFailsInv,
     StagePullInv, ReadInv, LearnInv, CancelInv, PipeSame DEF PipeNext
<1> QED
  BY <1>1, <1>2, PTL DEF Spec

(***************************************************************************)
(* An error or a cancel leaves neither `completed` pending nor the         *)
(* connection held, whichever stage it arose in: sendAndReceive's release  *)
(* is wired to `completed` alone.                                          *)
(***************************************************************************)
THEOREM PipelineReleases == Spec => []FailureReleases
PROOF
<1>1. PipeInv => FailureReleases
  BY DEF PipeInv, ConnInv, Told, Settled, FailureReleases
<1> QED
  BY <1>1, PipeInvariant, PTL

(***************************************************************************)
(* The limits hold: the heads within one budget however many 1xx precede   *)
(* the final one, and the body, coded or decoded, within maxBodyBytes.     *)
(***************************************************************************)
THEOREM PipelineBounded == Spec => []Bounded
PROOF
<1>1. ASSUME PipeInv PROVE Bounded
  <2>1. ConnInv /\ PipeTyped /\ Passed /\ Inflated
    BY <1>1 DEF PipeInv
  <2>2. at = "body" => resp.infos + resp.size <= MaxHeaderBytes
    BY <2>1 DEF ConnInv, Placed
  <2>3. Received <= MaxBodyBytes
    BY <2>1 DEF ConnInv, Counted
  <2>4. /\ guard.queue \in Nat /\ stage.queue \in Nat /\ got \in Nat /\ MaxBodyBytes \in Nat
        /\ raw.queue \in Nat /\ raw.delivered \in Nat
    <3>1. raw.queue \in Nat /\ raw.delivered \in Nat
      BY <2>1 DEF ConnInv, Typed
    <3> QED
      BY <2>1, <3>1, StageTyped
  <2>5. CASE coding = "gzip"
    BY <2>1, <2>2, <2>3, <2>5 DEF Bounded, Source, Inflated
  <2>6. CASE coding # "gzip"
    <3>1. got + guard.queue <= raw.delivered
      BY <2>1, <2>6 DEF Passed, Onward
    <3>2. raw.delivered <= MaxBodyBytes
      BY <2>3, <2>4 DEF Received
    <3>3. got + guard.queue <= MaxBodyBytes
      BY <2>4, <3>1, <3>2
    <3> QED
      BY <2>2, <2>3, <2>6, <3>3 DEF Bounded, Source
  <2> QED
    BY <2>5, <2>6
<1> QED
  BY <1>1, PipeInvariant, PTL

(***************************************************************************)
(* A connection goes back to the pool only where a message ends: nothing   *)
(* is on its way or unread, and a reader that has not cancelled was given  *)
(* the whole body.                                                         *)
(***************************************************************************)
THEOREM ConnectionReusedAtBoundary == Spec => []ReuseAtBoundary
PROOF
<1>1. ASSUME PipeInv, conn = "idle"
      PROVE  /\ plan = <<>> /\ wire = <<>>
             /\ ~ Bodiless(method, resp) /\ raw.state # "cancelled" => Received = Total(resp)
  <2>1. ConnInv /\ Typed /\ Positions /\ Placed /\ Settled /\ Counted
    BY <1>1 DEF PipeInv, ConnInv
  <2>2. CASE at = "start"
    BY <2>1, <2>2 DEF Placed, Bodiless, NoResponse
  <2>3. CASE at # "start"
    <3>1. completed = "true" /\ framing.keep /\ at = "body" /\ Complete
      BY <1>1, <2>1, <2>3 DEF Settled
    <3>2. framing.kind # "until-close"
      BY <2>1, <3>1, InBody
    <3>3. plan = <<>> /\ wire = <<>>
      BY <3>1, <3>2 DEF Complete
    <3>4. ASSUME ~ Bodiless(method, resp), raw.state # "cancelled" PROVE Received = Total(resp)
      <4>1. raw.state \in {"readable", "closed"}
        BY <2>1, <3>1, <3>4 DEF Settled, Typed
      <4>2. Received = BytesTo(Msg, Taken)
        BY <2>1, <3>1, <4>1 DEF Counted
      <4>3. Taken = Len(Msg)
        BY <2>1, <3>3, Places
      <4>4. BytesTo(Msg, Len(Msg)) = Total(resp)
        BY <2>1, <3>4, Places DEF Shape
      <4> QED
        BY <4>2, <4>3, <4>4
    <3> QED
      BY <3>3, <3>4
  <2> QED
    BY <2>2, <2>3
<1>2. PipeInv => ReuseAtBoundary
  BY <1>1 DEF ReuseAtBoundary
<1> QED
  BY <1>2, PipeInvariant, PTL

-----------------------------------------------------------------------------
(***************************************************************************)
(* The pipeline implements the contract of a response body.                *)
(***************************************************************************)
\* The bytes the server has put in the body are those of the tokens it has sent.
LEMMA SentIs ==
  ASSUME Typed, Positions
  PROVE  /\ Sent = BytesTo(Msg, Put) /\ Sent \in Nat
         /\ BytesTo(Msg, Taken) <= Sent
PROOF
<1>1. /\ Put \in Nat /\ Taken \in Nat /\ Len(plan) \in Nat /\ Len(wire) \in Nat
      /\ Put = Taken + Len(wire) /\ Len(Msg) = Put + Len(plan) /\ Len(Msg) \in Nat
      /\ Total(resp) \in Nat
      /\ BytesTo(Msg, Len(Msg)) = IF Bodiless(method, resp) THEN 0 ELSE Total(resp)
  BY Places DEF Shape
<1>2. /\ BytesTo(Msg, Put) \in Nat /\ BytesTo(Msg, Len(Msg)) \in Nat
      /\ BytesTo(Msg, Put) <= BytesTo(Msg, Len(Msg)) /\ BytesTo(Msg, Taken) <= BytesTo(Msg, Put)
  <2>1. Put <= Len(Msg) /\ Taken <= Put
    BY <1>1
  <2> QED
    BY <1>1, <2>1, BytesNat, BytesMono
<1>3. CASE Bodiless(method, resp)
  <2>1. Sent = 0
    BY <1>3 DEF Sent
  <2> QED
    BY <1>1, <1>2, <1>3, <2>1
<1>4. CASE ~ Bodiless(method, resp)
  <2>1. Cardinality({i \in DOMAIN plan : plan[i][1] = "byte"})
          = BytesTo(Msg, Put + Len(plan)) - BytesTo(Msg, Put)
    <3>1. DOMAIN plan = 1..Len(plan) /\ \A i \in 1..Len(plan) : plan[i] = Msg[Put + i]
      BY LenProperties DEF Positions
    <3>2. Put \in Nat /\ Len(plan) \in Nat
      BY <1>1
    <3> HIDE DEF Put, Msg
    <3> QED
      BY <3>1, <3>2, BytesLeft, Zenon
  <2>2. Sent = Total(resp) - (Total(resp) - BytesTo(Msg, Put))
    BY <1>1, <1>4, <2>1 DEF Sent
  <2> QED
    BY <1>1, <1>2, <2>2
<1> QED
  BY <1>3, <1>4

\* Steps that leave the server's side of the body alone.
LEMMA BodySame ==
  ASSUME UNCHANGED <<method, resp, plan, tail, coding>>
  PROVE  /\ Sent' = Sent /\ (Factor * Sent)' = Factor * Sent /\ ServerDone' = ServerDone
         /\ UNCHANGED <<got, caller>> => UNCHANGED Contract!bodyVars
         /\ got' = got /\ caller = "reading" /\ caller' \in {"error", "cancelled"} => Contract!Next
         /\ got' = got /\ caller = "reading" /\ caller' = "done" /\ ServerDone /\ got = Factor * Sent
              => Contract!Next
         /\ caller' = caller /\ caller = "reading" /\ got' \in got..(Factor * Sent) => Contract!Next
PROOF
<1>1. Sent' = Sent /\ Factor' = Factor
  BY DEF Sent, Factor
<1>2. (Factor * Sent)' = Factor * Sent
  BY <1>1
<1>3. ServerDone' = ServerDone
  BY <1>1 DEF ServerDone, UntilClose
<1> QED
  BY <1>1, <1>2, <1>3 DEF Contract!bodyVars, Contract!Next, Contract!Abandon, Contract!Finish,
     Contract!Deliver

\* What the caller has, or is about to have, is no more than was sent.
LEMMA SourceWithin ==
  ASSUME PipeInv
  PROVE  got + Source.queue \in Nat /\ got + Source.queue <= Factor * Sent
PROOF
<1>1. ConnInv /\ Typed /\ Positions /\ Counted /\ PipeTyped /\ Passed /\ Inflated
  BY DEF PipeInv, ConnInv
<1>2. /\ guard.queue \in Nat /\ stage.queue \in Nat /\ stage.fed \in Nat /\ stage.produced \in Nat
      /\ got \in Nat /\ Inflate \in Nat
  BY <1>1, StageTyped
<1>3. raw.queue \in Nat /\ raw.delivered \in Nat
  BY <1>1 DEF Typed
<1>4. Sent \in Nat /\ BytesTo(Msg, Taken) <= Sent /\ BytesTo(Msg, Taken) \in Nat
  <2>1. Taken \in Nat
    BY <1>1 DEF Positions
  <2> QED
    BY <1>1, <2>1, SentIs, BytesNat
<1>5. raw.delivered <= Sent
  <2>1. raw.delivered + raw.queue <= BytesTo(Msg, Taken)
    BY <1>1 DEF Counted, Received
  <2>2. \A a, b, c, d \in Nat : a + b <= c /\ c <= d => a <= d
    OBVIOUS
  <2> QED
    BY <1>3, <1>4, <2>1, <2>2
<1>6. CASE coding = "gzip"
  <2>1. stage.fed + guard.queue <= raw.delivered
    BY <1>1, <1>6 DEF Passed, Onward
  <2>2. stage.fed <= Sent
    BY <1>2, <1>3, <1>4, <1>5, <2>1
  <2>3. Inflate * stage.fed <= Inflate * Sent /\ Inflate * stage.fed \in Nat /\ Inflate * Sent \in Nat
    BY <1>2, <1>4, <2>2, Products
  <2>4. got + stage.queue = stage.produced /\ stage.produced <= Inflate * stage.fed
    BY <1>1, <1>6 DEF Inflated
  <2>5. got + stage.queue <= Inflate * Sent
    BY <1>2, <2>3, <2>4
  <2> QED
    BY <1>2, <1>6, <2>5 DEF Source, Factor
<1>7. CASE coding # "gzip"
  <2>1. got + guard.queue <= raw.delivered
    BY <1>1, <1>7 DEF Passed, Onward
  <2>2. got + guard.queue <= Sent /\ got + guard.queue \in Nat
    BY <1>2, <1>3, <1>4, <1>5, <2>1
  <2>3. 1 * Sent = Sent
    BY <1>4
  <2> QED
    BY <1>7, <2>2, <2>3 DEF Source, Factor
<1> QED
  BY <1>6, <1>7

\* The end of the caller's stream is the end of the response, and all of it was handed over.
LEMMA EndIsWhole ==
  ASSUME PipeInv, Guarded, AtEnd(Source)
  PROVE  ServerDone /\ got = Factor * Sent
PROOF
<1>1. ConnInv /\ Typed /\ Positions /\ Counted /\ Settled /\ PipeTyped /\ Passed /\ Inflated
  BY DEF PipeInv, ConnInv
<1>2. at = "body" /\ framing.kind # "none"
  BY DEF Guarded
<1>3. /\ guard.queue \in Nat /\ stage.queue \in Nat /\ stage.fed \in Nat /\ stage.produced \in Nat
      /\ stage.out \in Nat /\ got \in Nat /\ Inflate \in Nat
  BY <1>1, StageTyped
<1>4. AtEnd(guard)
  BY <1>1 DEF AtEnd, Source, Inflated
<1>5. raw.state = "closed" /\ raw.queue = 0 /\ raw.delivered \in Nat
  BY <1>1, <1>4 DEF AtEnd, Passed, Drained, Typed
<1>6. Complete /\ wire = <<>>
  BY <1>1, <1>5 DEF Settled, Complete
<1>7. Sent = raw.delivered /\ Sent = BytesTo(Msg, Put) /\ Sent \in Nat
  <2>1. Taken = Put
    BY <1>1, <1>6, Places
  <2>2. raw.delivered + raw.queue = BytesTo(Msg, Taken)
    BY <1>1, <1>2, <1>5 DEF Counted, Received
  <2> QED
    BY <1>1, <1>5, <2>1, <2>2, SentIs
<1>8. Sent = IF coding = "gzip" THEN stage.fed ELSE got
  <2>1. Sent = IF coding = "gzip" THEN stage.fed + 0 ELSE got + 0
    BY <1>1, <1>4, <1>7 DEF Passed, Onward, AtEnd
  <2> QED
    BY <1>3, <2>1
<1>9. /\ framing.kind = "until-close" <=> UntilClose
      /\ Taken > resp.infos /\ resp.infos \in Nat
      /\ UntilClose => ~ Coded(resp) /\ ~ Bodiless(method, resp)
  BY <1>1, <1>2, InBody DEF UntilClose, Bodiless
<1>10. ASSUME coding = "gzip"
       PROVE  \/ stage.at = "empty" /\ Sent = 0 /\ got = 0
              \/ stage.at = "ended" /\ Sent = Total(resp) /\ got = Inflate * Sent
  <2>1. stage.state = "closed" /\ stage.queue = 0
    BY <1>10 DEF AtEnd, Source
  <2>2. got = stage.produced
    <3>1. got + 0 = stage.produced
      BY <1>1, <1>10, <2>1 DEF Inflated
    <3> QED
      BY <1>3, <3>1
  <2>3. CASE stage.at = "empty"
    BY <1>1, <1>8, <1>10, <2>2, <2>3 DEF Inflated
  <2>4. CASE stage.at = "ended" /\ stage.out = 0
    <3>1. stage.produced + 0 = Inflate * stage.fed /\ stage.fed = Total(resp)
      BY <1>1, <1>10, <2>4 DEF Inflated
    <3>2. stage.produced = Inflate * stage.fed
      BY <1>3, <3>1
    <3> QED
      BY <1>8, <1>10, <2>2, <2>4, <3>1, <3>2
  <2> QED
    BY <1>1, <1>10, <2>1, <2>3, <2>4 DEF Inflated
<1>11. got = Factor * Sent
  <2>1. CASE coding = "gzip"
    <3>1. Inflate * 0 = 0
      BY <1>3
    <3> QED
      BY <1>10, <2>1, <3>1 DEF Factor
  <2>2. CASE coding # "gzip"
    <3>1. 1 * Sent = Sent
      BY <1>7
    <3> QED
      BY <1>8, <2>2, <3>1 DEF Factor
  <2> QED
    BY <2>1, <2>2
<1>12. ServerDone
  <2>1. CASE ~ UntilClose
    BY <1>6, <1>9, <2>1 DEF ServerDone, Complete
  <2>2. CASE UntilClose
    <3>1. tail = "eof"
      BY <1>6, <1>9, <2>2 DEF Complete
    <3>2. ASSUME coding = "gzip", Sent > 0 PROVE plan = <<>>
      <4>1. BytesTo(Msg, Put) = Total(resp)
        BY <1>7, <1>10, <3>2
      <4>2. Put = Taken /\ Put \in Nat /\ Put <= Put
        BY <1>1, <1>6, Places
      <4> QED
        BY <1>1, <1>9, <2>2, <4>1, <4>2, PlainEnd
    <3> QED
      BY <2>2, <3>1, <3>2 DEF ServerDone
  <2> QED
    BY <2>1, <2>2
<1> QED
  BY <1>11, <1>12

\* Between the connection and the caller the stages move nothing the contract speaks of.
LEMMA StagesQuiet ==
  ASSUME PipeInv, Expire \/ GuardPull \/ Sniff \/ Feed \/ FeedEnd \/ FeedFails \/ StagePull
  PROVE  UNCHANGED <<method, resp, plan, tail, coding, got, caller>>
PROOF
<1>1. ASSUME UNCHANGED http1Vars PROVE UNCHANGED <<method, resp, plan, tail>>
  BY <1>1 DEF http1Vars, serverVars
<1>2. ASSUME CancelBody \/ TakeChunk PROVE UNCHANGED <<method, resp, plan, tail>>
  BY <1>2 DEF CancelBody, TakeChunk, serverVars
<1>3. ASSUME CancelGuard PROVE UNCHANGED <<method, resp, plan, tail>>
  BY <1>1, <1>2, <1>3 DEF CancelGuard
<1>4. CASE Expire
  BY <1>1, <1>4 DEF Expire
<1>5. CASE GuardPull
  BY <1>1, <1>2, <1>5 DEF GuardPull
<1>6. CASE Sniff \/ Feed \/ FeedEnd
  BY <1>1, <1>6 DEF Sniff, Feed, FeedEnd
<1>7. CASE FeedFails
  BY <1>3, <1>7 DEF FeedFails
<1>8. CASE StagePull
  <2>1. UNCHANGED <<coding, got, caller>> /\ (UNCHANGED http1Vars \/ CancelGuard)
    BY <1>8 DEF StagePull, StageFails
  <2> QED
    BY <1>1, <1>3, <2>1
<1> QED
  BY <1>4, <1>5, <1>6, <1>7, <1>8

\* What the server has sent, decoded.
LEMMA FactorNat ==
  ASSUME Typed, Positions
  PROVE  Factor \in Nat /\ Factor * Sent \in Nat
PROOF
<1>1. Factor \in Nat
  BY PipelineAssumption DEF Factor
<1>2. Sent \in Nat
  BY SentIs
<1> QED
  BY <1>1, <1>2, Products

\* What the caller does is what the contract lets a reader do.
LEMMA CallerKeepsContract ==
  ASSUME PipeInv, Read \/ Learn \/ Cancel
  PROVE  Contract!Next
PROOF
<1>1. ConnInv /\ PipeTyped /\ Passed /\ got \in Nat
  BY DEF PipeInv, PipeTyped
<1>2. Guarded /\ caller = "reading"
  BY DEF Read, Learn, Cancel, Reading
<1>3. CASE Read
  <2>1. UNCHANGED <<method, resp, plan, tail, coding, caller>> /\ got' = got + Source.queue
    BY <1>3 DEF Read, http1Vars, serverVars
  <2>2. got + Source.queue \in got..(Factor * Sent)
    <3>1. got + Source.queue \in Nat /\ got + Source.queue <= Factor * Sent
      BY SourceWithin
    <3>2. Source.queue > 0 /\ Source.queue \in Nat
      BY <1>1, <1>3, StageTyped DEF Read, Source
    <3>3. Factor * Sent \in Nat
      BY <1>1, FactorNat DEF ConnInv
    <3> HIDE DEF Source, Factor, Sent
    <3> QED
      BY <1>1, <3>1, <3>2, <3>3
  <2> QED
    BY <1>2, <2>1, <2>2, BodySame
<1>4. CASE Learn
  <2>1. UNCHANGED <<method, resp, plan, tail, coding>> /\ got' = got
    BY <1>4 DEF Learn, http1Vars, serverVars
  <2>2. CASE AtEnd(Source) /\ caller' = "done"
    <3>1. ServerDone /\ got = Factor * Sent
      BY <1>2, <2>2, EndIsWhole
    <3> QED
      BY <1>2, <2>1, <2>2, <3>1, BodySame
  <2>3. CASE caller' = "error"
    BY <1>2, <2>1, <2>3, BodySame
  <2> QED
    BY <1>4, <2>2, <2>3 DEF Learn
<1>5. CASE Cancel
  <2>1. UNCHANGED <<method, resp, plan, tail, coding>> /\ got' = got /\ caller' = "cancelled"
    BY <1>1, <1>2, <1>5, CancelGuardIs DEF Cancel
  <2> QED
    BY <1>2, <2>1, BodySame
<1> QED
  BY <1>3, <1>4, <1>5

\* Only a head begins a body.
LEMMA ReadHeadOnly ==
  ASSUME Connection, at = "head", at' = "body"
  PROVE  ReadHead
BY DEF Connection, Send, ServerEnds, Request, ReadInfo, HeadFails, ExchangeFails, PullLength,
   PullUntilClose, ChunkSize, ChunkData, ChunkCrlf, TrailerLine, LastChunk, ChunkFails, readerVars

\* What the connection does is what the contract lets a server do, or ends the body.
LEMMA ConnectionKeepsContract ==
  ASSUME PipeInv, Advance, request' = request
  PROVE  [Contract!Next]_(Contract!bodyVars)
PROOF
<1>1. ConnInv /\ Typed /\ Positions /\ Placed /\ Settled /\ Told /\ PipeTyped /\ Connection
  BY DEF PipeInv, ConnInv, Advance
<1>2. /\ method' = method /\ resp' = resp
      /\ at = "body" => at' = "body" /\ framing' = framing
      /\ at' # at => at = "head" /\ at' \in {"failed", "body"}
  BY <1>1, ConnectionFrame
<1>3. /\ coding' = coding /\ got' = got
      /\ caller' = IF at' = at THEN caller
                   ELSE IF at' = "failed" THEN "error"
                   ELSE IF framing'.kind = "none" THEN "done" ELSE caller
  BY DEF Advance
<1>4. Factor' = Factor /\ Factor \in Nat
  BY <1>1, <1>3, PipelineAssumption DEF Factor
<1>5. CASE Send
  <2>1. tail = "open" /\ tail' = tail /\ plan # <<>> /\ at' = at
    BY <1>5 DEF Send, readerVars
  <2>2. ConnInv' /\ Put' = Put + 1 /\ Msg' = Msg
    BY <1>1, <1>5, SendKeeps
  <2>3. Sent = BytesTo(Msg, Put) /\ Sent \in Nat /\ Put \in Nat
    BY <1>1, SentIs, Places
  <2>4. Sent' = BytesTo(Msg, Put)' /\ Sent' \in Nat
    <3>1. Typed' /\ Positions'
      BY <2>2 DEF ConnInv
    <3>2. (Typed /\ Positions => Sent = BytesTo(Msg, Put) /\ Sent \in Nat)'
      BY SentIs, PTL
    <3> QED
      BY <3>1, <3>2
  <2>5. Sent <= Sent'
    <3>1. Put <= Put + 1 /\ Put + 1 \in Nat
      BY <2>3
    <3>2. Sent' = BytesTo(Msg, Put + 1)
      BY <2>2, <2>4 DEF BytesTo
    <3> QED
      BY <2>3, <3>1, <3>2, BytesMono
  <2>6. (Factor * Sent)' = Factor * Sent' /\ Factor * Sent <= Factor * Sent' /\ Factor * Sent' \in Nat
        /\ Factor * Sent \in Nat
    BY <1>4, <2>3, <2>4, <2>5, Products
  <2>7. ~ ServerDone
    BY <2>1 DEF ServerDone
  <2>8. ServerDone' \in BOOLEAN
    BY DEF ServerDone
  <2>9. caller' = caller
    BY <1>3, <2>1
  <2> QED
    BY <1>3, <2>6, <2>7, <2>8, <2>9 DEF Contract!Next, Contract!Produce
<1>6. CASE ServerEnds
  <2>1. tail = "open" /\ plan' = plan /\ at' = at
    BY <1>6 DEF ServerEnds, readerVars
  <2>2. caller' = caller /\ Sent' = Sent /\ Sent \in Nat
    BY <1>1, <1>2, <1>3, <2>1, SentIs DEF Sent
  <2>3. (Factor * Sent)' = Factor * Sent /\ Factor * Sent \in Nat /\ Factor * Sent <= Factor * Sent
    BY <1>4, <2>2, Products
  <2>4. CASE UntilClose
    <3>1. ~ ServerDone /\ ServerDone' \in BOOLEAN
      BY <2>1, <2>4 DEF ServerDone
    <3> QED
      BY <1>3, <2>2, <2>3, <3>1 DEF Contract!Next, Contract!Produce
  <2>5. CASE ~ UntilClose
    <3>1. ServerDone' = ServerDone
      BY <1>2, <2>1, <2>5 DEF ServerDone, UntilClose
    <3> QED
      BY <1>3, <2>2, <2>3, <3>1 DEF Contract!bodyVars
  <2> QED
    BY <2>4, <2>5
<1>7. ASSUME UNCHANGED <<plan, tail>> PROVE [Contract!Next]_(Contract!bodyVars)
  <2>1. UNCHANGED <<method, resp, plan, tail, coding>>
    BY <1>2, <1>3, <1>7
  <2>2. CASE at' = at
    <3>1. UNCHANGED <<got, caller>>
      BY <1>3, <2>2
    <3> QED
      BY <2>1, <3>1, BodySame
  <2>3. CASE at' # at /\ at' = "failed"
    <3>1. caller = "reading" /\ caller' = "error"
      BY <1>1, <1>2, <1>3, <2>3 DEF Told
    <3> QED
      BY <1>3, <2>1, <3>1, BodySame
  <2>4. CASE at' # at /\ at' = "body"
    <3>1. caller = "reading" /\ at = "head"
      BY <1>1, <1>2, <2>4 DEF Told
    <3>2. CASE framing'.kind = "none"
      <4>1. caller' = "done" /\ got = 0
        BY <1>1, <1>3, <2>4, <3>1, <3>2 DEF Told, Fresh
      <4>2. ReadHead /\ ConnInv'
        BY <1>1, <2>4, <3>1, ReadHeadOnly, ConnectionKeeps
      <4>3. /\ resp \in Responses /\ completed' = "true" /\ ~ Unreadable(method, resp)
            /\ framing' = BodyFraming(method, resp)
        BY <1>1, <2>4, <3>1, <3>2, <4>2 DEF ReadHead, ExchangeFails, Settle, Placed
      <4>4. Bodiless(method, resp)
        BY <3>2, <4>3, FramingIs
      <4>5. ~ UntilClose
        BY <4>4 DEF UntilClose, Bodiless
      <4>6. plan' = <<>>
        BY <3>2, <4>2, <4>3 DEF ConnInv, Settled, Complete
      <4>7. ServerDone
        BY <1>7, <4>5, <4>6 DEF ServerDone
      <4>8. got = Factor * Sent
        <5>1. Sent = 0
          BY <4>4 DEF Sent
        <5> QED
          BY <1>4, <4>1, <5>1, Products
      <4> QED
        BY <1>3, <2>1, <3>1, <4>1, <4>7, <4>8, BodySame
    <3>3. CASE framing'.kind # "none"
      <4>1. UNCHANGED <<got, caller>>
        BY <1>3, <2>4, <3>3
      <4> QED
        BY <2>1, <4>1, BodySame
    <3> QED
      BY <3>2, <3>3
  <2> QED
    BY <1>2, <2>2, <2>3, <2>4
<1>8. ASSUME ~ Send, ~ ServerEnds PROVE UNCHANGED <<plan, tail>>
  <2>1. request \in Nat /\ request + 1 # request
    BY <1>1 DEF Typed
  <2>2. ~ Request
    BY <2>1 DEF Request
  <2> QED
    BY <1>1, <1>8, <2>2 DEF Connection, ReadInfo, HeadFails, ReadHead, PullLength, PullUntilClose,
       ChunkSize, ChunkData, ChunkCrlf, TrailerLine, LastChunk, ChunkFails, serverVars
<1> QED
  BY <1>5, <1>6, <1>7, <1>8

(***************************************************************************)
(* The whole body or an error: within one response, every step of the      *)
(* connection, of the deadline and decompression stages and of the caller  *)
(* is a step of ResponseBody or changes nothing it speaks of.              *)
(***************************************************************************)
THEOREM PipelineWholeOrError == Spec => WholeOrError
PROOF
<1>1. PipeInv /\ [PipeNext]_vars => (request' = request => [Contract!Next]_(Contract!bodyVars))
  <2> SUFFICES ASSUME PipeInv, [PipeNext]_vars, request' = request
               PROVE  [Contract!Next]_(Contract!bodyVars)
    OBVIOUS
  <2>1. CASE Advance
    BY <2>1, ConnectionKeepsContract
  <2>2. CASE Expire \/ GuardPull \/ Sniff \/ Feed \/ FeedEnd \/ FeedFails \/ StagePull
    BY <2>2, StagesQuiet, BodySame
  <2>3. CASE Read \/ Learn \/ Cancel
    BY <2>3, CallerKeepsContract
  <2>4. CASE UNCHANGED vars
    <3>1. UNCHANGED <<method, resp, plan, tail, coding, got, caller>>
      BY <2>4 DEF vars, http1Vars, serverVars, pipeVars
    <3> QED
      BY <3>1, BodySame
  <2> QED
    BY <2>1, <2>2, <2>3, <2>4 DEF PipeNext
<1>2. PipeInv /\ [PipeNext]_vars
        => [request' = request => [Contract!Next]_(Contract!bodyVars)]_vars
  BY <1>1
<1> QED
  BY <1>2, PipeInvariant, PTL DEF Spec, WholeOrError
=============================================================================
