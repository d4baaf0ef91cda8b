----------------------- MODULE Http2Connection_proofs -----------------------
(***************************************************************************)
(* Proofs about Http2Connection, for any number of streams, any windows,   *)
(* bodies, limits and scenarios.                                           *)
(***************************************************************************)
EXTENDS Http2Connection, SequenceTheorems, FiniteSetTheorems, TLAPS

-----------------------------------------------------------------------------
(***************************************************************************)
(* The stream object: what each operation on it changes.                   *)
(***************************************************************************)
Fields == {"opened", "closed", "head", "responded", "queue", "recvEnded", "declared", "exempt",
           "received", "error", "completed", "pull", "delivered", "outcome", "recvWindow",
           "recvConsumed", "localEnded", "rstSent"}

\* Two stream objects that agree on all but `changed`.
Agree(r, q, changed) == \A x \in Fields \ changed : q[x] = r[x]

\* A stream that has failed, with e if it was the first to say why.
Failed(r, q, e) ==
  /\ q \in StreamType
  /\ q.closed /\ q.pull # "blocked" /\ (q.pull = "none" <=> r.pull = "none")
  /\ q.error = IF r.error = "none" THEN e ELSE r.error
  /\ q.head = IF r.head = "pending" THEN e ELSE r.head
  /\ Agree(r, q, {"closed", "pull", "error", "head", "completed"})

\* _wakePull: a blocked pull runs again.
LEMMA Wakes ==
  ASSUME NEW r \in StreamType
  PROVE  /\ WakePull(r) \in StreamType /\ WakePull(r).pull # "blocked"
         /\ WakePull(r).pull = "none" <=> r.pull = "none"
         /\ Agree(r, WakePull(r), {"pull"})
PROOF
BY DEF WakePull, StreamType, Agree, Fields

\* _removeStream wakes the reader.
LEMMA Removes ==
  ASSUME NEW r \in StreamType
  PROVE  /\ RemoveStream(r) \in StreamType /\ RemoveStream(r).closed
         /\ RemoveStream(r).pull # "blocked"
         /\ RemoveStream(r).pull = "none" <=> r.pull = "none"
         /\ Agree(r, RemoveStream(r), {"closed", "pull"})
PROOF
<1> DEFINE q == [r EXCEPT !.closed = TRUE]
<1>1. q \in StreamType /\ q.closed /\ q.pull = r.pull /\ Agree(r, q, {"closed"})
  BY DEF StreamType, Agree, Fields
<1>2. RemoveStream(r) = WakePull(q)
  BY DEF RemoveStream
<1> HIDE DEF q
<1>3. /\ WakePull(q) \in StreamType /\ WakePull(q).pull # "blocked"
      /\ WakePull(q).pull = "none" <=> q.pull = "none"
      /\ Agree(q, WakePull(q), {"pull"})
  BY <1>1, Wakes
<1>4. WakePull(q).closed
  BY <1>1, <1>3 DEF Agree, Fields
<1>5. Agree(r, WakePull(q), {"closed", "pull"})
  BY <1>1, <1>3 DEF Agree
<1> QED
  BY <1>1, <1>2, <1>3, <1>4, <1>5

\* _failStream removes and rejects it.
LEMMA Fails ==
  ASSUME NEW r \in StreamType, NEW e \in Failures
  PROVE  Failed(r, FailStream(r, e), e)
PROOF
<1> DEFINE p == RemoveStream(r)
           q == [p EXCEPT !.error     = IF p.error = "none" THEN e ELSE p.error,
                          !.head      = Settle(p.head, e),
                          !.completed = Settle(p.completed, "rejected")]
<1>1. /\ p \in StreamType /\ p.closed /\ p.pull # "blocked"
      /\ p.pull = "none" <=> r.pull = "none"
      /\ Agree(r, p, {"closed", "pull"})
  BY Removes
<1>2. FailStream(r, e) = WakePull(q)
  BY DEF FailStream, RejectStream
<1> HIDE DEF p
<1>3. /\ q \in StreamType /\ q.closed = p.closed /\ q.pull = p.pull
      /\ q.error = IF p.error = "none" THEN e ELSE p.error
      /\ q.head = IF p.head = "pending" THEN e ELSE p.head
      /\ Agree(p, q, {"error", "head", "completed"})
  <2> DEFINE x == IF p.error = "none" THEN e ELSE p.error
             y == Settle(p.head, e)
             z == Settle(p.completed, "rejected")
  <2>1. /\ x \in {"none"} \union Failures /\ y \in {"pending", "ok"} \union Failures
        /\ z \in {"pending", "whole", "partial", "rejected"}
        /\ y = IF p.head = "pending" THEN e ELSE p.head
    BY <1>1 DEF StreamType, Settle
  <2> HIDE DEF x, y, z
  <2>2. [p EXCEPT !.error = x, !.head = y, !.completed = z] \in StreamType
    <3> DEFINE a == [p EXCEPT !.error = x]
               b == [a EXCEPT !.head = y]
    <3>1. a \in StreamType
      BY <1>1, <2>1 DEF StreamType
    <3>2. b \in StreamType
      <4> HIDE DEF a
      <4> QED BY <2>1, <3>1 DEF StreamType
    <3>3. [b EXCEPT !.completed = z] \in StreamType
      <4> HIDE DEF b
      <4> QED BY <2>1, <3>2 DEF StreamType
    <3> QED
      BY <3>3
  <2>3. DOMAIN p = Fields
    BY <1>1 DEF StreamType, Fields
  <2>4. Agree(p, q, {"error", "head", "completed"})
    BY <2>3 DEF Agree, q
  <2>5. q.error = x /\ q.head = y /\ q.closed = p.closed /\ q.pull = p.pull
    BY <2>3 DEF q, Fields, x, y, z
  <2> QED
    BY <2>1, <2>2, <2>4, <2>5 DEF q, x, y, z
<1> HIDE DEF q
<1>4. /\ WakePull(q) \in StreamType /\ WakePull(q).pull # "blocked"
      /\ WakePull(q).pull = "none" <=> q.pull = "none"
      /\ Agree(q, WakePull(q), {"pull"})
  BY <1>3, Wakes
<1>5. /\ p.error = r.error /\ p.head = r.head
      /\ WakePull(q).closed = q.closed /\ WakePull(q).error = q.error /\ WakePull(q).head = q.head
  BY <1>1, <1>4 DEF Agree, Fields
<1>6. Agree(r, WakePull(q), {"closed", "pull", "error", "head", "completed"})
  BY <1>1, <1>3, <1>4 DEF Agree
<1> QED
  BY <1>1, <1>2, <1>3, <1>4, <1>5, <1>6 DEF Failed

\* _maybeCloseStream removes it when both halves have ended.
LEMMA MaybeCloses ==
  ASSUME NEW r \in StreamType
  PROVE  LET q == MaybeClose(r) IN
         /\ q \in StreamType
         /\ q.pull = "none" <=> r.pull = "none"
         /\ q.pull = "blocked" => r.pull = "blocked"
         /\ q.closed <=> r.closed \/ (r.recvEnded /\ r.localEnded)
         /\ q.closed /\ ~r.closed => q.pull # "blocked"
         /\ Agree(r, q, {"closed", "pull"})
PROOF
<1>1. CASE r.recvEnded /\ r.localEnded
  BY <1>1, Removes DEF MaybeClose
<1>2. CASE ~(r.recvEnded /\ r.localEnded)
  BY <1>2 DEF MaybeClose, Agree, StreamType
<1> QED
  BY <1>1, <1>2

\* _replenish touches nothing but the stream's window.
LEMMA Replenishes ==
  ASSUME NEW r \in StreamType, NEW n \in Nat
  PROVE  /\ ReplenishStream(r, n) \in StreamType
         /\ Agree(r, ReplenishStream(r, n), {"recvWindow", "recvConsumed"})
PROOF
<1>1. r.recvConsumed + n \in Nat /\ r.recvWindow + n \in Int
  BY DEF StreamType
<1> QED
  BY <1>1 DEF ReplenishStream, StreamType, Agree, Fields

\* pull() takes the oldest chunk of a queue.
LEMMA TakesChunk ==
  ASSUME NEW r \in StreamType, r.queue # <<>>
  PROVE  LET p == TakeChunk(r)
             n == Head(r.queue).len
         IN /\ n \in Nat /\ p \in StreamType /\ p.pull = "none" /\ p.queue = Tail(r.queue)
            /\ p.delivered = r.delivered + n /\ Agree(r, p, {"queue", "delivered", "pull"})
PROOF
<1> DEFINE p == TakeChunk(r)
           n == Head(r.queue).len
<1>0. Tail(r.queue) \in Seq(Chunks) /\ n \in Nat /\ r.delivered \in Nat
  <2>1. r.queue \in Seq(Chunks) /\ r.delivered \in Nat
    BY DEF StreamType
  <2>2. Head(r.queue) \in Chunks /\ Tail(r.queue) \in Seq(Chunks)
    BY <2>1, HeadTailProperties
  <2> QED
    BY <2>1, <2>2 DEF Chunks
<1> DEFINE x == Tail(r.queue)
           y == r.delivered + n
<1>1. x \in Seq(Chunks) /\ y \in Nat
  BY <1>0 DEF StreamType
<1>2. p = [r EXCEPT !.queue = x, !.delivered = y, !.pull = "none"]
  BY DEF TakeChunk
<1> HIDE DEF x, y, p
<1>3. p \in StreamType
  <2> DEFINE a == [r EXCEPT !.queue = x]
             b == [a EXCEPT !.delivered = y]
  <2>1. a \in StreamType
    BY <1>1 DEF StreamType
  <2>2. b \in StreamType
    <3> HIDE DEF a
    <3> QED BY <1>1, <2>1 DEF StreamType
  <2>3. [b EXCEPT !.pull = "none"] \in StreamType
    <3> HIDE DEF b
    <3> QED BY <2>2 DEF StreamType
  <2> QED
    BY <1>2, <2>3
<1>4. DOMAIN r = Fields
  BY DEF StreamType, Fields
<1>5. p.pull = "none" /\ p.queue = x /\ p.delivered = y /\ Agree(r, p, {"queue", "delivered", "pull"})
  BY <1>2, <1>4 DEF Agree, Fields
<1> QED
  BY <1>0, <1>3, <1>5 DEF x, y, p

-----------------------------------------------------------------------------
(***************************************************************************)
(* Sums.  Total is recursive, so its laws need induction.  The library's   *)
(* induction theorems are about operators; here it is stated for a set of  *)
(* numbers, from the library's fact that strict inclusion of finite sets   *)
(* is well founded.                                                        *)
(***************************************************************************)
\* A set of numbers has a least member.
LEMMA LeastNat ==
  ASSUME NEW T, T \subseteq Nat, T # {}
  PROVE  \E n \in T : \A m \in T : n <= m
PROOF
<1> DEFINE Segments == {0..n : n \in T}
           R == StrictSubsetOrdering(Nat)
<1>1. IsWellFoundedOn(R, FiniteSubsetsOf(Nat))
  BY FS_StrictSubsetOrderingWellFounded
<1>2. Segments \subseteq FiniteSubsetsOf(Nat) /\ Segments # {}
  <2> SUFFICES ASSUME NEW n \in T PROVE (0..n) \in FiniteSubsetsOf(Nat)
    OBVIOUS
  <2>1. IsFiniteSet(0..n)
    BY FS_Interval
  <2> QED
    BY <2>1 DEF FiniteSubsetsOf
<1>3. PICK x \in Segments : \A y \in Segments : <<y, x>> \notin R
  <2> HIDE DEF Segments, R
  <2> QED
    BY <1>1, <1>2, WFMin
<1>4. PICK n \in T : x = 0..n
  OBVIOUS
<1>5. ASSUME NEW m \in T, ~(n <= m) PROVE FALSE
  <2>1. (0..m) \subseteq (0..n) /\ n \in 0..n /\ n \notin 0..m /\ 0..m \in Segments
    BY <1>5
  <2>2. <<0..m, 0..n>> \in R
    BY <2>1 DEF StrictSubsetOrdering
  <2> QED
    BY <1>3, <1>4, <2>1, <2>2
<1> QED
  BY <1>5

\* A set with 0 and every successor of a member has all numbers.
LEMMA SetInduction ==
  ASSUME NEW T, 0 \in T, \A n \in Nat : n \in T => n + 1 \in T
  PROVE  Nat \subseteq T
PROOF
<1>1. SUFFICES ASSUME Nat \ T # {} PROVE FALSE
  OBVIOUS
<1>2. PICK n \in Nat \ T : \A m \in Nat \ T : n <= m
  BY <1>1, LeastNat
<1>3. n # 0 /\ n - 1 \in Nat /\ ~(n <= n - 1)
  OBVIOUS
<1>4. n - 1 \in T
  BY <1>2, <1>3
<1> QED
  BY <1>2, <1>3, <1>4

\* The running sums of a sequence; those of its first n members.
Sums(nums, p) == p = [i \in 0..Len(nums) |-> IF i = 0 THEN 0 ELSE p[i - 1] + nums[i]]
SumsTo(nums, n) == {p \in [0..n -> Int] : \A i \in 0..n : p[i] = IF i = 0 THEN 0 ELSE p[i - 1] + nums[i]}

\* A sequence has one series of running sums ...
LEMMA SumsUnique ==
  ASSUME NEW nums \in Seq(Int), NEW p, Sums(nums, p), NEW q, Sums(nums, q)
  PROVE  p = q
PROOF
<1> DEFINE T == {i \in Nat : i <= Len(nums) => p[i] = q[i]}
<1>1. Len(nums) \in Nat
  OBVIOUS
<1>2. 0 \in T
  BY <1>1 DEF Sums
<1>3. ASSUME NEW n \in Nat, n \in T PROVE n + 1 \in T
  <2> SUFFICES ASSUME n + 1 <= Len(nums) PROVE p[n + 1] = q[n + 1]
    OBVIOUS
  <2>1. p[n] = q[n] /\ n + 1 \in 0..Len(nums) /\ n + 1 - 1 = n /\ n + 1 # 0
    BY <1>1, <1>3
  <2> QED
    BY <2>1 DEF Sums
<1>4. Nat \subseteq T
  <2> HIDE DEF T
  <2> QED
    BY <1>2, <1>3, SetInduction
<1>5. \A i \in 0..Len(nums) : p[i] = q[i]
  BY <1>1, <1>4
<1> QED
  BY <1>5 DEF Sums

\* ... and has one.
LEMMA SumsExist ==
  ASSUME NEW nums \in Seq(Int)
  PROVE  \E p \in [0..Len(nums) -> Int] : Sums(nums, p)
PROOF
<1> DEFINE T == {n \in Nat : n <= Len(nums) => SumsTo(nums, n) # {}}
<1>1. Len(nums) \in Nat
  OBVIOUS
<1>2. 0 \in T
  <2>1. [i \in 0..0 |-> 0] \in SumsTo(nums, 0)
    BY DEF SumsTo
  <2> QED
    BY <2>1
<1>3. ASSUME NEW n \in Nat, n \in T PROVE n + 1 \in T
  <2> SUFFICES ASSUME n + 1 <= Len(nums) PROVE SumsTo(nums, n + 1) # {}
    OBVIOUS
  <2>1. PICK p : p \in SumsTo(nums, n)
    BY <1>1, <1>3
  <2> DEFINE q == [i \in 0..(n + 1) |-> IF i = n + 1 THEN p[n] + nums[n + 1] ELSE p[i]]
  <2>2. n + 1 \in 1..Len(nums) /\ nums[n + 1] \in Int /\ p[n] \in Int /\ p \in [0..n -> Int]
    BY <1>1, <2>1 DEF SumsTo
  <2>3. q \in [0..(n + 1) -> Int]
    BY <2>2
  <2>4. ASSUME NEW i \in 0..(n + 1) PROVE q[i] = IF i = 0 THEN 0 ELSE q[i - 1] + nums[i]
    <3>1. CASE i = n + 1
      BY <3>1
    <3>2. CASE i # n + 1
      <4>1. i \in 0..n /\ q[i] = p[i] /\ (i # 0 => i - 1 \in 0..n /\ q[i - 1] = p[i - 1])
        BY <3>2
      <4> QED
        BY <2>1, <4>1 DEF SumsTo
    <3> QED
      BY <3>1, <3>2
  <2> HIDE DEF q
  <2>5. q \in SumsTo(nums, n + 1)
    BY <2>3, <2>4 DEF SumsTo
  <2> QED
    BY <2>5
<1>4. Nat \subseteq T
  <2> HIDE DEF T
  <2> QED
    BY <1>2, <1>3, SetInduction
<1>5. PICK p : p \in SumsTo(nums, Len(nums))
  BY <1>1, <1>4
<1>6. p \in [0..Len(nums) -> Int] /\ Sums(nums, p)
  BY <1>5 DEF SumsTo, Sums
<1> QED
  BY <1>6

\* Total is the last of the running sums.
LEMMA TotalIs ==
  ASSUME NEW nums \in Seq(Int), NEW p, Sums(nums, p)
  PROVE  Total(nums) = p[Len(nums)]
PROOF
<1> DEFINE u == CHOOSE u : Sums(nums, u)
<1>1. Sums(nums, u)
  OBVIOUS
<1>2. u = p
  BY <1>1, SumsUnique
<1>3. Total(nums) = u[Len(nums)]
  BY DEF Total, Sums
<1> QED
  BY <1>2, <1>3

\* The running sums, as the laws below use them.
LEMMA TotalHas ==
  ASSUME NEW nums \in Seq(Int)
  PROVE  \E p \in [0..Len(nums) -> Int] :
           /\ p[0] = 0 /\ Total(nums) = p[Len(nums)]
           /\ \A i \in 1..Len(nums) : p[i] = p[i - 1] + nums[i]
PROOF
<1>1. PICK p \in [0..Len(nums) -> Int] : Sums(nums, p)
  BY SumsExist
<1>2. Total(nums) = p[Len(nums)] /\ Len(nums) \in Nat
  BY <1>1, TotalIs
<1>3. p[0] = 0
  BY <1>1, <1>2 DEF Sums
<1>4. ASSUME NEW i \in 1..Len(nums) PROVE p[i] = p[i - 1] + nums[i]
  <2>1. i \in 0..Len(nums) /\ i # 0
    BY <1>2
  <2> QED
    BY <1>1, <2>1 DEF Sums
<1> QED
  BY <1>2, <1>3, <1>4

\* A function that runs like the sums gives the total.
LEMMA TotalByRun ==
  ASSUME NEW nums \in Seq(Int), NEW p \in [0..Len(nums) -> Int],
         p[0] = 0, \A i \in 1..Len(nums) : p[i] = p[i - 1] + nums[i]
  PROVE  Total(nums) = p[Len(nums)]
PROOF
<1>1. Len(nums) \in Nat
  OBVIOUS
<1>2. ASSUME NEW i \in 0..Len(nums) PROVE p[i] = IF i = 0 THEN 0 ELSE p[i - 1] + nums[i]
  <2>1. i # 0 => i \in 1..Len(nums)
    BY <1>1
  <2> QED
    BY <2>1
<1>3. Sums(nums, p)
  BY <1>2 DEF Sums
<1> QED
  BY <1>3, TotalIs

\* The total of nothing, and of nothing but zeros.
LEMMA TotalZero ==
  ASSUME NEW nums \in Seq(Int), \A i \in 1..Len(nums) : nums[i] = 0
  PROVE  Total(nums) = 0
PROOF
<1> DEFINE p == [i \in 0..Len(nums) |-> 0]
<1>1. Len(nums) \in Nat /\ p \in [0..Len(nums) -> Int] /\ p[0] = 0 /\ p[Len(nums)] = 0
  OBVIOUS
<1>2. ASSUME NEW i \in 1..Len(nums) PROVE p[i] = p[i - 1] + nums[i]
  BY <1>1
<1> HIDE DEF p
<1> QED
  BY <1>1, <1>2, TotalByRun

\* One number more at the end.
LEMMA TotalAppend ==
  ASSUME NEW nums \in Seq(Int), NEW x \in Int
  PROVE  Total(Append(nums, x)) = Total(nums) + x
PROOF
<1> DEFINE n == Len(nums)
           more == Append(nums, x)
<1>1. /\ more \in Seq(Int) /\ Len(more) = n + 1 /\ n \in Nat
      /\ more[n + 1] = x /\ \A i \in 1..n : more[i] = nums[i]
  BY AppendProperties
<1>2. PICK p \in [0..n -> Int] : /\ p[0] = 0 /\ Total(nums) = p[n]
                                 /\ \A i \in 1..n : p[i] = p[i - 1] + nums[i]
  BY TotalHas
<1> DEFINE q == [i \in 0..(n + 1) |-> IF i = n + 1 THEN p[n] + x ELSE p[i]]
<1> HIDE DEF n, more
<1>3. q \in [0..(n + 1) -> Int] /\ q[0] = 0 /\ q[n + 1] = p[n] + x
  BY <1>1, <1>2
<1>4. ASSUME NEW i \in 1..(n + 1) PROVE q[i] = q[i - 1] + more[i]
  <2>1. CASE i = n + 1
    BY <1>1, <2>1
  <2>2. CASE i \in 1..n
    BY <1>1, <1>2, <2>2
  <2> QED
    BY <1>1, <2>1, <2>2
<1> HIDE DEF q
<1>5. Total(more) = q[n + 1]
  BY <1>1, <1>3, <1>4, TotalByRun
<1> QED
  BY <1>2, <1>3, <1>5 DEF more

\* The first number taken off.
LEMMA TotalTail ==
  ASSUME NEW nums \in Seq(Int), nums # <<>>
  PROVE  Total(Tail(nums)) = Total(nums) - nums[1]
PROOF
<1> DEFINE n == Len(nums)
           less == Tail(nums)
<1>1. /\ less \in Seq(Int) /\ Len(less) = n - 1 /\ n \in Nat \ {0}
      /\ \A i \in 1..(n - 1) : less[i] = nums[i + 1]
      /\ \A i \in 1..n : nums[i] \in Int
  BY EmptySeq
<1>2. PICK p \in [0..n -> Int] : /\ p[0] = 0 /\ Total(nums) = p[n]
                                 /\ \A i \in 1..n : p[i] = p[i - 1] + nums[i]
  BY TotalHas
<1> DEFINE q == [i \in 0..(n - 1) |-> p[i + 1] - nums[1]]
<1> HIDE DEF n, less
<1>3. q \in [0..(n - 1) -> Int] /\ q[0] = 0 /\ q[n - 1] = p[n] - nums[1]
  BY <1>1, <1>2
<1>4. ASSUME NEW i \in 1..(n - 1) PROVE q[i] = q[i - 1] + less[i]
  <2>1. i + 1 \in 1..n /\ i \in 0..(n - 1) /\ i - 1 \in 0..(n - 1) /\ (i + 1) - 1 = i /\ (i - 1) + 1 = i
    BY <1>1
  <2>2. p[i + 1] = p[i] + nums[i + 1] /\ less[i] = nums[i + 1]
    BY <1>1, <1>2, <2>1
  <2>3. p[i] \in Int /\ p[i + 1] \in Int /\ nums[1] \in Int /\ nums[i + 1] \in Int
    BY <1>1, <2>1
  <2>4. q[i] = p[i + 1] - nums[1] /\ q[i - 1] = p[i] - nums[1]
    BY <2>1
  <2> HIDE DEF q
  <2> QED
    BY <2>2, <2>3, <2>4
<1> HIDE DEF q
<1>5. Total(less) = q[n - 1]
  BY <1>1, <1>3, <1>4, TotalByRun
<1> QED
  BY <1>2, <1>3, <1>5 DEF less

\* One number changed.
LEMMA TotalChange ==
  ASSUME NEW nums \in Seq(Int), NEW more \in Seq(Int), Len(more) = Len(nums),
         NEW k \in 1..Len(nums), NEW d \in Int, more[k] = nums[k] + d,
         \A i \in 1..Len(nums) : i # k => more[i] = nums[i]
  PROVE  Total(more) = Total(nums) + d
PROOF
<1> DEFINE n == Len(nums)
<1>1. n \in Nat /\ Len(more) = n /\ \A i \in 1..n : nums[i] \in Int
  OBVIOUS
<1>2. PICK p \in [0..n -> Int] : /\ p[0] = 0 /\ Total(nums) = p[n]
                                 /\ \A i \in 1..n : p[i] = p[i - 1] + nums[i]
  BY TotalHas
<1> DEFINE q == [i \in 0..n |-> IF i < k THEN p[i] ELSE p[i] + d]
<1>3. q \in [0..n -> Int] /\ q[0] = 0 /\ q[n] = p[n] + d
  BY <1>1, <1>2
<1>4. ASSUME NEW i \in 1..n PROVE q[i] = q[i - 1] + more[i]
  <2>a. i \in 0..n /\ i - 1 \in 0..n /\ i \in Int /\ k \in Int
    BY <1>1
  <2>1. p[i] \in Int /\ p[i - 1] \in Int /\ nums[i] \in Int
    <3> HIDE DEF q, n
    <3> QED
      BY <1>1, <2>a
  <2>2. p[i] = p[i - 1] + nums[i]
    BY <1>2
  <2>3. CASE i = k
    <3>1. q[i] = p[i] + d
      BY <2>a, <2>3, SMTT(30)
    <3>2. q[i - 1] = p[i - 1]
      BY <2>a, <2>3, SMTT(30)
    <3>3. more[i] = nums[i] + d
      BY <2>3
    <3> HIDE DEF q
    <3> QED
      BY <2>1, <2>2, <3>1, <3>2, <3>3
  <2>4. CASE i # k
    <3>1. more[i] = nums[i]
      BY <2>4
    <3>2. \/ q[i] = p[i] /\ q[i - 1] = p[i - 1]
          \/ q[i] = p[i] + d /\ q[i - 1] = p[i - 1] + d
      BY <2>a, <2>1, <2>4, SMTT(30)
    <3> HIDE DEF q
    <3> QED
      BY ONLY d \in Int, <2>1, <2>2, <3>1, <3>2
  <2> QED
    BY <2>3, <2>4
<1> HIDE DEF q
<1>5. Total(more) = q[n]
  BY <1>1, <1>3, <1>4, TotalByRun
<1> QED
  BY <1>2, <1>3, <1>5

\* A total of natural numbers is one, and no less than any of them.
LEMMA TotalNat ==
  ASSUME NEW nums \in Seq(Nat)
  PROVE  Total(nums) \in Nat /\ \A i \in 1..Len(nums) : nums[i] <= Total(nums)
PROOF
<1> DEFINE n == Len(nums)
<1>1. n \in Nat /\ nums \in Seq(Int) /\ \A i \in 1..n : nums[i] \in Nat
  OBVIOUS
<1>2. PICK p \in [0..n -> Int] : /\ p[0] = 0 /\ Total(nums) = p[n]
                                 /\ \A i \in 1..n : p[i] = p[i - 1] + nums[i]
  BY <1>1, TotalHas
<1> HIDE DEF n
<1> DEFINE T == {m \in Nat : m <= n => p[m] \in Nat /\ \A i \in 1..m : nums[i] <= p[m]}
<1>3. 0 \in T
  BY <1>2
<1>4. ASSUME NEW m \in Nat, m \in T PROVE m + 1 \in T
  <2> SUFFICES ASSUME m + 1 <= n
               PROVE  p[m + 1] \in Nat /\ \A i \in 1..(m + 1) : nums[i] <= p[m + 1]
    OBVIOUS
  <2>1. p[m] \in Nat /\ \A i \in 1..m : nums[i] <= p[m]
    BY <1>1, <1>4
  <2>2. m + 1 \in 1..n /\ (m + 1) - 1 = m
    BY <1>1
  <2>3. p[m + 1] = p[m] + nums[m + 1] /\ nums[m + 1] \in Nat
    BY <1>1, <1>2, <2>2
  <2>4. ASSUME NEW i \in 1..(m + 1) PROVE nums[i] <= p[m + 1]
    <3>1. i = m + 1 \/ i \in 1..m
      OBVIOUS
    <3>2. nums[i] \in Nat
      BY <1>1, <2>2
    <3> QED
      BY <2>1, <2>3, <3>1, <3>2
  <2> QED
    BY <2>1, <2>3, <2>4
<1>5. Nat \subseteq T
  <2> HIDE DEF T
  <2> QED
    BY <1>3, <1>4, SetInduction
<1>6. n \in T
  BY <1>1, <1>5
<1> QED
  BY <1>1, <1>2, <1>6 DEF n

-----------------------------------------------------------------------------
(***************************************************************************)
(* Positions in a body.  A sequence of chunks, or of frames, goes from     *)
(* position a of the body of stream s to position b if its members carry   *)
(* the bytes between the two; p[i] is the position after the i-th of them. *)
(***************************************************************************)
Rises(q, p, a, b) ==
  /\ p \in [0..Len(q) -> Nat] /\ p[0] = a /\ p[Len(q)] = b
  /\ \A i, j \in 0..Len(q) : i <= j => p[i] <= p[j]

\* What the frame f carries of the body of stream s, and whether it ends it.
Carried(f, s) == IF f.type = "data" /\ f.stream = s THEN f.len ELSE 0
Ends(f, s) == f.type \in {"data", "headers"} /\ f.stream = s /\ f.end

\* The frames on the wire; nothing follows the end of a body.
Wire(q, s, a, b, ended) ==
  \E p : /\ Rises(q, p, a, b)
         /\ \A i \in 1..Len(q) :
              /\ p[i] = p[i - 1] + Carried(q[i], s)
              /\ q[i].type = "data" /\ q[i].stream = s => q[i].from = p[i - 1]
              /\ Ends(q[i], s) => p[i] = b /\ ended

\* The scenario has an honest server.
HonestIn(ev) == "rogue" \notin ev

\* The chunks of a queue; those of an honest server are the stream's own bytes.
Filled(q, s, a, b, ev) ==
  \E p : /\ Rises(q, p, a, b)
         /\ \A i \in 1..Len(q) :
              /\ p[i] = p[i - 1] + q[i].len
              /\ HonestIn(ev) => q[i].stream = s /\ q[i].from = p[i - 1]

\* An empty sequence goes nowhere.
LEMMA RisesEmpty == ASSUME NEW a \in Nat PROVE Rises(<<>>, [i \in {0} |-> a], a, a)
PROOF
<1>1. Len(<<>>) = 0 /\ 0..0 = {0}
  OBVIOUS
<1> QED
  BY <1>1 DEF Rises

\* One member more takes the sequence further.
LEMMA RisesAppend ==
  ASSUME NEW S, NEW q \in Seq(S), NEW f \in S, NEW p, NEW a, NEW b, Rises(q, p, a, b), NEW n \in Nat
  PROVE  LET r == [i \in 0..(Len(q) + 1) |-> IF i <= Len(q) THEN p[i] ELSE b + n] IN
         /\ Rises(Append(q, f), r, a, b + n)
         /\ \A i \in 0..Len(q) : r[i] = p[i]
         /\ r[Len(q) + 1] = b + n
PROOF
<1> DEFINE m == Len(q)
           r == [i \in 0..(m + 1) |-> IF i <= m THEN p[i] ELSE b + n]
<1>1. m \in Nat /\ Len(Append(q, f)) = m + 1
  BY LenProperties, AppendProperties
<1>2. /\ p \in [0..m -> Nat] /\ p[0] = a /\ p[m] = b
      /\ \A i, j \in 0..m : i <= j => p[i] <= p[j]
  BY DEF Rises
<1> HIDE DEF m
<1>3. b \in Nat
  BY <1>1, <1>2
<1>4. \A i \in 0..m : r[i] = p[i] /\ r[i] \in Nat
  BY <1>1, <1>2
<1>5. r[m + 1] = b + n /\ b + n \in Nat
  BY <1>1, <1>3
<1>6. \A i \in 0..(m + 1) : i \in 0..m \/ i = m + 1
  BY <1>1
<1>7. r \in [0..(m + 1) -> Nat]
  BY <1>1, <1>2, <1>3
<1> HIDE DEF r
<1>8. ASSUME NEW i \in 0..(m + 1), NEW j \in 0..(m + 1), i <= j PROVE r[i] <= r[j]
  <2>1. CASE j \in 0..m
    BY <1>1, <1>2, <1>4, <1>8, <2>1
  <2>2. CASE j = m + 1 /\ i \in 0..m
    <3>1. p[i] <= b
      BY <1>1, <1>2, <2>2
    <3> QED
      BY <1>2, <1>3, <1>4, <1>5, <2>2, <3>1
  <2>3. CASE j = m + 1 /\ i = m + 1
    BY <1>5, <2>3
  <2> QED
    BY <1>6, <2>1, <2>2, <2>3
<1>9. r[0] = a
  BY <1>1, <1>2, <1>4
<1> QED
  BY <1>1, <1>4, <1>5, <1>7, <1>8, <1>9 DEF Rises, r, m

\* Without its first member the sequence begins where that one ended.
LEMMA RisesTail ==
  ASSUME NEW S, NEW q \in Seq(S), q # <<>>, NEW p, NEW a, NEW b, Rises(q, p, a, b)
  PROVE  LET r == [i \in 0..(Len(q) - 1) |-> p[i + 1]] IN
         /\ Rises(Tail(q), r, p[1], b)
         /\ Len(q) \in Nat /\ Len(q) >= 1 /\ Len(Tail(q)) = Len(q) - 1
         /\ \A i \in 1..(Len(q) - 1) : /\ Tail(q)[i] = q[i + 1] /\ i + 1 \in 1..Len(q)
                                       /\ r[i] = p[i + 1] /\ r[i - 1] = p[i]
         /\ p[0] = a /\ p[1] \in Nat /\ p[1] <= b
PROOF
<1> DEFINE m == Len(q)
           r == [i \in 0..(m - 1) |-> p[i + 1]]
<1>1. /\ m \in Nat /\ m >= 1 /\ Len(Tail(q)) = m - 1
      /\ \A i \in 1..(m - 1) : Tail(q)[i] = q[i + 1]
  <2>1. m \in Nat /\ m # 0
    BY LenProperties, EmptySeq
  <2> QED
    BY <2>1, HeadTailProperties
<1>2. /\ p \in [0..m -> Nat] /\ p[0] = a /\ p[m] = b
      /\ \A i, j \in 0..m : i <= j => p[i] <= p[j]
  BY DEF Rises
<1> HIDE DEF m
<1>3. \A i \in 0..(m - 1) : i + 1 \in 0..m /\ r[i] = p[i + 1] /\ r[i] \in Nat
  BY <1>1, <1>2
<1>4. r \in [0..(m - 1) -> Nat]
  BY <1>1, <1>2
<1>5. m - 1 \in 0..(m - 1) /\ (m - 1) + 1 = m /\ 0 \in 0..(m - 1)
  BY <1>1
<1> HIDE DEF r
<1>6. r[0] = p[1] /\ r[m - 1] = b
  BY <1>2, <1>3, <1>5
<1>7. ASSUME NEW i \in 0..(m - 1), NEW j \in 0..(m - 1), i <= j PROVE r[i] <= r[j]
  BY <1>1, <1>2, <1>3, <1>7
<1>8. ASSUME NEW i \in 1..(m - 1)
      PROVE  i + 1 \in 1..m /\ r[i] = p[i + 1] /\ r[i - 1] = p[i]
  BY <1>1, <1>3, <1>8
<1>9. p[1] \in Nat /\ p[1] <= b
  BY <1>1, <1>2
<1> QED
  BY <1>1, <1>2, <1>4, <1>6, <1>7, <1>8, <1>9 DEF Rises, r, m

\* What the server writes.
HeaderFrames == [type : {"headers"}, stream : Streams, declared : Int, exempt : BOOLEAN,
                 end : BOOLEAN, malformed : BOOLEAN]
DataFrames == [type : {"data"}, stream : Streams, from : Nat, len : Nat, pad : Nat, end : BOOLEAN]
RstFrames == [type : {"rst"}, stream : Streams, refused : BOOLEAN]
GoawayFrames == [type : {"goaway"}, last : 0..MaxStreams]
SettingsFrames == [type : {"settings"}, limit : PeerLimits]
EofFrames == [type : {"eof"}]
Frames == HeaderFrames \union DataFrames \union RstFrames \union GoawayFrames
            \union SettingsFrames \union EofFrames

\* A frame is told by its type.
LEMMA FrameTypes ==
  ASSUME NEW f \in Frames
  PROVE  /\ f.type = "headers" => f \in HeaderFrames
         /\ f.type = "data" => f \in DataFrames
         /\ f.type = "rst" => f \in RstFrames
         /\ f.type = "goaway" => f \in GoawayFrames
         /\ f.type = "settings" => f \in SettingsFrames
         /\ \A s : Carried(f, s) \in Nat
PROOF
<1>1. /\ f.type = "headers" => f \in HeaderFrames
      /\ f.type = "data" => f \in DataFrames
      /\ f.type = "rst" => f \in RstFrames
      /\ f.type = "goaway" => f \in GoawayFrames
      /\ f.type = "settings" => f \in SettingsFrames
  BY DEF Frames, HeaderFrames, DataFrames, RstFrames, GoawayFrames, SettingsFrames, EofFrames
<1>2. \A s : Carried(f, s) \in Nat
  BY <1>1 DEF Carried, DataFrames
<1> QED
  BY <1>1, <1>2

\* Nothing on the wire.
LEMMA WireEmpty == ASSUME NEW s, NEW a \in Nat, NEW ended PROVE Wire(<<>>, s, a, a, ended)
PROOF
<1>1. Len(<<>>) = 0 /\ 1..0 = {}
  OBVIOUS
<1> QED
  BY <1>1, RisesEmpty DEF Wire

\* The server writes one frame more; bytes continue where it stands, before the end.
LEMMA WireAppend ==
  ASSUME NEW q \in Seq(Frames), NEW f \in Frames, NEW s, NEW a, NEW b, NEW ended, NEW ends,
         Wire(q, s, a, b, ended), ended => ends,
         f.type = "data" /\ f.stream = s => f.from = b /\ ~ended,
         Ends(f, s) => ends
  PROVE  Wire(Append(q, f), s, a, b + Carried(f, s), ends)
PROOF
<1> DEFINE n == Carried(f, s)
           m == Len(q)
<1>1. n \in Nat
  BY FrameTypes
<1>2. PICK p : /\ Rises(q, p, a, b)
               /\ \A i \in 1..m :
                    /\ p[i] = p[i - 1] + Carried(q[i], s)
                    /\ q[i].type = "data" /\ q[i].stream = s => q[i].from = p[i - 1]
                    /\ Ends(q[i], s) => p[i] = b /\ ended
  BY DEF Wire
<1> DEFINE r == [i \in 0..(m + 1) |-> IF i <= m THEN p[i] ELSE b + n]
<1> HIDE DEF n
<1>3. /\ Rises(Append(q, f), r, a, b + n)
      /\ \A i \in 0..m : r[i] = p[i]
      /\ r[m + 1] = b + n
  BY <1>1, <1>2, RisesAppend
<1>4. /\ m \in Nat /\ Len(Append(q, f)) = m + 1 /\ Append(q, f)[m + 1] = f
      /\ \A i \in 1..m : Append(q, f)[i] = q[i]
  BY LenProperties, AppendProperties
<1>5. p[m] = b /\ b \in Nat
  BY <1>2, <1>4 DEF Rises
<1> HIDE DEF r, m
<1>6. ASSUME NEW i \in 1..m
      PROVE  /\ r[i] = r[i - 1] + Carried(Append(q, f)[i], s)
             /\ Append(q, f)[i].type = "data" /\ Append(q, f)[i].stream = s
                  => Append(q, f)[i].from = r[i - 1]
             /\ Ends(Append(q, f)[i], s) => r[i] = b + n /\ ends
  <2>1. i - 1 \in 0..m /\ i \in 0..m /\ Append(q, f)[i] = q[i]
    BY <1>4
  <2>2. ASSUME Ends(q[i], s) PROVE n = 0
    BY <1>2, <2>2 DEF n, Carried
  <2>3. b + 0 = b
    BY <1>5
  <2> QED
    BY <1>2, <1>3, <2>1, <2>2, <2>3
<1>7. /\ r[m + 1] = r[(m + 1) - 1] + Carried(f, s)
      /\ f.type = "data" /\ f.stream = s => f.from = r[(m + 1) - 1]
      /\ Ends(f, s) => r[m + 1] = b + n /\ ends
  <2>1. (m + 1) - 1 = m /\ m \in 0..m
    BY <1>4
  <2> QED
    BY <1>3, <1>5, <2>1 DEF n
<1>8. \A i \in 1..(m + 1) : i \in 1..m \/ i = m + 1
  BY <1>4
<1>9. \A i \in 1..(m + 1) :
        /\ r[i] = r[i - 1] + Carried(Append(q, f)[i], s)
        /\ Append(q, f)[i].type = "data" /\ Append(q, f)[i].stream = s
             => Append(q, f)[i].from = r[i - 1]
        /\ Ends(Append(q, f)[i], s) => r[i] = b + n /\ ends
  BY <1>4, <1>6, <1>7, <1>8
<1> QED
  BY <1>3, <1>4, <1>9 DEF Wire, n

\* The read loop takes the oldest frame.
LEMMA WireTail ==
  ASSUME NEW q \in Seq(Frames), q # <<>>, NEW s, NEW a, NEW b, NEW ended, Wire(q, s, a, b, ended)
  PROVE  LET f == Head(q) IN
         /\ Wire(Tail(q), s, a + Carried(f, s), b, ended)
         /\ a \in Nat /\ b \in Nat /\ a + Carried(f, s) <= b
         /\ f.type = "data" /\ f.stream = s => f.from = a
         /\ Ends(f, s) => a + Carried(f, s) = b /\ ended
PROOF
<1> DEFINE m == Len(q)
<1>1. PICK p : /\ Rises(q, p, a, b)
               /\ \A i \in 1..m :
                    /\ p[i] = p[i - 1] + Carried(q[i], s)
                    /\ q[i].type = "data" /\ q[i].stream = s => q[i].from = p[i - 1]
                    /\ Ends(q[i], s) => p[i] = b /\ ended
  BY DEF Wire
<1> DEFINE r == [i \in 0..(m - 1) |-> p[i + 1]]
<1>2. /\ Rises(Tail(q), r, p[1], b)
      /\ m \in Nat /\ m >= 1 /\ Len(Tail(q)) = m - 1
      /\ \A i \in 1..(m - 1) : /\ Tail(q)[i] = q[i + 1] /\ i + 1 \in 1..m
                               /\ r[i] = p[i + 1] /\ r[i - 1] = p[i]
      /\ p[0] = a /\ p[1] \in Nat /\ p[1] <= b
  BY <1>1, RisesTail
<1>3. Head(q) = q[1] /\ 1 \in 1..m /\ 1 - 1 = 0
  BY <1>2, HeadTailProperties
<1>4. p[1] = a + Carried(Head(q), s)
  BY <1>1, <1>2, <1>3
<1>5. a \in Nat /\ b \in Nat
  BY <1>1, <1>2 DEF Rises
<1> HIDE DEF r, m
<1>6. \A i \in 1..(m - 1) : (i + 1) - 1 = i
  BY <1>2
<1>7. \A i \in 1..(m - 1) :
        /\ r[i] = r[i - 1] + Carried(Tail(q)[i], s)
        /\ Tail(q)[i].type = "data" /\ Tail(q)[i].stream = s => Tail(q)[i].from = r[i - 1]
        /\ Ends(Tail(q)[i], s) => r[i] = b /\ ended
  BY <1>1, <1>2, <1>6
<1>8. Wire(Tail(q), s, p[1], b, ended)
  BY <1>2, <1>7 DEF Wire
<1>9. /\ Head(q).type = "data" /\ Head(q).stream = s => Head(q).from = a
      /\ Ends(Head(q), s) => p[1] = b /\ ended
  BY <1>1, <1>2, <1>3
<1> QED
  BY <1>2, <1>4, <1>5, <1>8, <1>9

\* A body whose queue is empty.
LEMMA FilledEmpty == ASSUME NEW s, NEW a \in Nat, NEW ev PROVE Filled(<<>>, s, a, a, ev)
PROOF
<1>1. Len(<<>>) = 0 /\ 1..0 = {}
  OBVIOUS
<1> QED
  BY <1>1, RisesEmpty DEF Filled

\* A chunk joins the queue where the stream stands.
LEMMA FilledAppend ==
  ASSUME NEW q \in Seq(Chunks), NEW c \in Chunks, NEW s, NEW a, NEW b, NEW ev, Filled(q, s, a, b, ev),
         HonestIn(ev) => c.stream = s /\ c.from = b
  PROVE  Filled(Append(q, c), s, a, b + c.len, ev)
PROOF
<1> DEFINE n == c.len
           m == Len(q)
<1>1. n \in Nat
  BY DEF Chunks
<1>2. PICK p : /\ Rises(q, p, a, b)
               /\ \A i \in 1..m : /\ p[i] = p[i - 1] + q[i].len
                                  /\ HonestIn(ev) => q[i].stream = s /\ q[i].from = p[i - 1]
  BY DEF Filled
<1> DEFINE r == [i \in 0..(m + 1) |-> IF i <= m THEN p[i] ELSE b + n]
<1> HIDE DEF n
<1>3. /\ Rises(Append(q, c), r, a, b + n)
      /\ \A i \in 0..m : r[i] = p[i]
      /\ r[m + 1] = b + n
  BY <1>1, <1>2, RisesAppend
<1>4. /\ m \in Nat /\ Len(Append(q, c)) = m + 1 /\ Append(q, c)[m + 1] = c
      /\ \A i \in 1..m : Append(q, c)[i] = q[i]
  BY LenProperties, AppendProperties
<1>5. p[m] = b
  BY <1>2 DEF Rises
<1> HIDE DEF r, m
<1>6. \A i \in 1..m : i - 1 \in 0..m /\ i \in 0..m
  BY <1>4
<1>7. \A i \in 1..(m + 1) : i \in 1..m \/ i = m + 1
  BY <1>4
<1>8. (m + 1) - 1 = m /\ m \in 0..m
  BY <1>4
<1>9. \A i \in 1..(m + 1) :
        /\ r[i] = r[i - 1] + Append(q, c)[i].len
        /\ HonestIn(ev) => Append(q, c)[i].stream = s /\ Append(q, c)[i].from = r[i - 1]
  BY <1>2, <1>3, <1>4, <1>5, <1>6, <1>7, <1>8 DEF n
<1> QED
  BY <1>3, <1>4, <1>9 DEF Filled, n

\* pull() takes the oldest chunk, which begins where its reader stands.
LEMMA FilledTail ==
  ASSUME NEW q \in Seq(Chunks), q # <<>>, NEW s, NEW a, NEW b, NEW ev, Filled(q, s, a, b, ev)
  PROVE  /\ Filled(Tail(q), s, a + Head(q).len, b, ev)
         /\ a \in Nat /\ b \in Nat /\ a + Head(q).len <= b
PROOF
<1> DEFINE m == Len(q)
<1>1. PICK p : /\ Rises(q, p, a, b)
               /\ \A i \in 1..m : /\ p[i] = p[i - 1] + q[i].len
                                  /\ HonestIn(ev) => q[i].stream = s /\ q[i].from = p[i - 1]
  BY DEF Filled
<1> DEFINE r == [i \in 0..(m - 1) |-> p[i + 1]]
<1>2. /\ Rises(Tail(q), r, p[1], b)
      /\ m \in Nat /\ m >= 1 /\ Len(Tail(q)) = m - 1
      /\ \A i \in 1..(m - 1) : /\ Tail(q)[i] = q[i + 1] /\ i + 1 \in 1..m
                               /\ r[i] = p[i + 1] /\ r[i - 1] = p[i]
      /\ p[0] = a /\ p[1] \in Nat /\ p[1] <= b
  BY <1>1, RisesTail
<1>3. Head(q) = q[1] /\ 1 \in 1..m /\ 1 - 1 = 0
  BY <1>2, HeadTailProperties
<1>4. p[1] = a + Head(q).len
  BY <1>1, <1>2, <1>3
<1>5. a \in Nat /\ b \in Nat
  BY <1>1, <1>2 DEF Rises
<1> HIDE DEF r, m
<1>6. \A i \in 1..(m - 1) : (i + 1) - 1 = i
  BY <1>2
<1>7. \A i \in 1..(m - 1) :
        /\ r[i] = r[i - 1] + Tail(q)[i].len
        /\ HonestIn(ev) => Tail(q)[i].stream = s /\ Tail(q)[i].from = r[i - 1]
  BY <1>1, <1>2, <1>6
<1>8. Filled(Tail(q), s, p[1], b, ev)
  BY <1>2, <1>7 DEF Filled
<1> QED
  BY <1>2, <1>4, <1>5, <1>8

\* The queue of an honest server's stream is its own bytes in order.
LEMMA FilledInOrder ==
  ASSUME NEW q \in Seq(Chunks), NEW s, NEW a, NEW b, NEW ev, Filled(q, s, a, b, ev), HonestIn(ev)
  PROVE  \A i \in DOMAIN q : /\ q[i].stream = s
                             /\ q[i].from = IF i = 1 THEN a ELSE q[i - 1].from + q[i - 1].len
PROOF
<1>1. PICK p : /\ Rises(q, p, a, b)
               /\ \A i \in 1..Len(q) : /\ p[i] = p[i - 1] + q[i].len
                                       /\ q[i].stream = s /\ q[i].from = p[i - 1]
  BY DEF Filled
<1>2. DOMAIN q = 1..Len(q) /\ p[0] = a /\ Len(q) \in Nat
  BY <1>1, LenProperties DEF Rises
<1>3. ASSUME NEW i \in 1..Len(q)
      PROVE  q[i].stream = s /\ q[i].from = IF i = 1 THEN a ELSE q[i - 1].from + q[i - 1].len
  <2>1. CASE i = 1
    BY <1>1, <1>2, <2>1
  <2>2. CASE i # 1
    <3>1. i - 1 \in 1..Len(q)
      BY <1>2, <2>2
    <3> QED
      BY <1>1, <2>2, <3>1
  <2> QED
    BY <2>1, <2>2
<1> QED
  BY <1>2, <1>3

-----------------------------------------------------------------------------
(***************************************************************************)
(* The invariant: what holds of each stream object r, of the server's side *)
(* v of the same stream, and of the frames between them.                   *)
(***************************************************************************)
\* A pull is under way only while the body is being read; a body belongs to a
\* stream that has a head, and a head to a stream that was opened.
Reading(r) ==
  /\ r.pull # "none" => r.head = "ok" /\ r.outcome = "reading"
  /\ r.outcome = "done" => r.responded
  /\ r.head = "ok" => r.responded
  /\ r.recvEnded => r.responded
  /\ r.responded => r.opened
  /\ r.declared # NoLength => r.responded

\* A body that was read to its end has the length it declared.
Finished(r) ==
  r.outcome = "done" /\ ~r.exempt /\ r.declared # NoLength => r.delivered = r.declared

\* The server has not started on what was handed back, and never will.
Refusable(s, r, v, last) ==
  /\ v.processed => s <= last
  /\ r.head = "retryable" => ~v.processed /\ (v.rst \/ s > last)

\* The queue begins where the reader stands, and holds what the server sent.
Stored(s, r, v, ev) ==
  \E total \in Nat : /\ Filled(r.queue, s, r.delivered, total, ev)
                     /\ HonestIn(ev) => total <= v.sent

\* Unless the stream has failed it holds all that was received.
Queueing(s, r, v, ev) ==
  \E total \in Nat : /\ Filled(r.queue, s, r.delivered, total, ev)
                     /\ HonestIn(ev) => total <= v.sent
                     /\ r.error = "none" => total = r.received

\* What leaves the map has settled its head and says why it ended; nobody
\* waits on it, nor on a stream that has something to give; the body of a live
\* stream is being read until the response has ended.
Waiting(r) ==
  /\ r.closed => /\ r.head # "pending"
                 /\ r.error # "none" \/ r.recvEnded \/ r.outcome = "cancelled"
  /\ ~r.closed => /\ r.error = "none" /\ r.head \in {"pending", "ok"}
                  /\ r.outcome = "reading" \/ r.recvEnded
  /\ r.responded => r.head # "pending"
  /\ r.pull = "blocked" => r.opened /\ ~r.closed /\ ~r.recvEnded /\ r.queue = <<>>

\* A stream that was reset is gone, and the server heard no more of it.
Silenced(r, v) ==
  /\ v.gotRst => r.rstSent /\ r.closed
  /\ ~v.late

\* The server knows only streams that were opened.
Begun(r, v, ev) ==
  /\ v.open => r.opened
  /\ HonestIn(ev) /\ ~v.open => v.sent = 0

\* A response that ended cleanly has its declared length, and is all there.
Whole(r, v, ev) ==
  r.recvEnded /\ r.error = "none" =>
    /\ LengthAgrees(r)
    /\ HonestIn(ev) => v.ended /\ r.received = v.sent

\* What a failure keeps, and all of it.
Core(s, r, v, last, ev) ==
  Reading(r) /\ Finished(r) /\ Refusable(s, r, v, last) /\ Stored(s, r, v, ev)
Good(s, r, v, last, ev) ==
  /\ Reading(r) /\ Finished(r) /\ Refusable(s, r, v, last) /\ Queueing(s, r, v, ev)
  /\ Waiting(r) /\ Silenced(r, v) /\ Begun(r, v, ev) /\ Whole(r, v, ev)

\* The frames on the wire lead from what a live stream received to what was sent.
OnItsWay(q, s, r, v, ev) ==
  HonestIn(ev) /\ ~r.closed => Wire(q, s, r.received, v.sent, v.ended)

\* A refusal or a promise on the wire is kept: the server has noted it.
Noted(f, w, last) ==
  /\ f.type = "rst" => (f.refused => w[f.stream].rst /\ ~w[f.stream].processed)
  /\ f.type = "goaway" => last <= f.last

Scalars ==
  /\ nextStream \in 1..(MaxStreams + 1)
  /\ recvWin \in Int /\ consumed \in Nat /\ srvWin \in Int
  /\ goaway \in 0..NoGoaway /\ srvLast \in 0..NoGoaway
  /\ peerMax \in PeerLimits
  /\ fatal \in {"none"} \union Failures
  /\ events \in Scenarios
StreamInv ==
  /\ st \in [Streams -> StreamType] /\ srv \in [Streams -> ServerType]
  /\ s2c \in Seq(Frames)
  /\ \A s \in Streams : Good(s, st[s], srv[s], srvLast, events)
  /\ \A s \in Streams : OnItsWay(s2c, s, st[s], srv[s], events)
  /\ \A i \in 1..Len(s2c) : Noted(s2c[i], srv, srvLast)
HInv == Scalars /\ StreamInv

\* What was kept can be failed.
LEMMA GoodIsCore ==
  ASSUME NEW s, NEW r, NEW v, NEW last, NEW ev, Good(s, r, v, last, ev)
  PROVE  Core(s, r, v, last, ev)
PROOF
BY DEF Good, Core, Queueing, Stored

\* The two sides of the server's record that no frame of the client changes.
SrvFields == {"open", "clientEnded", "gotRst", "late", "processed", "headers", "left", "sent",
              "ended", "rst", "win"}
SrvAgree(v, w, changed) == \A x \in SrvFields \ changed : w[x] = v[x]

\* _failStream keeps the invariant, whatever was happening to the stream.
LEMMA FailKeeps ==
  ASSUME NEW s \in Streams, NEW r \in StreamType, NEW v \in ServerType, NEW w \in ServerType,
         NEW last \in Nat, NEW ev, NEW q, NEW e \in Failures, NEW p,
         Core(s, r, v, last, ev), Begun(r, v, ev), p = FailStream(r, e),
         SrvAgree(v, w, {"clientEnded", "gotRst", "late", "headers", "left", "win"}),
         w.gotRst => r.rstSent, ~w.late,
         e = "retryable" => ~v.processed /\ (v.rst \/ s > last)
  PROVE  p \in StreamType /\ Good(s, p, w, last, ev) /\ OnItsWay(q, s, p, w, ev)
PROOF
<1>1. Failed(r, p, e)
  BY Fails
<1>2. p \in StreamType
  BY <1>1 DEF Failed
<1>3. /\ w.processed = v.processed /\ w.rst = v.rst /\ w.sent = v.sent /\ w.open = v.open
  BY DEF SrvAgree, SrvFields
<1>4. /\ p.responded = r.responded /\ p.outcome = r.outcome /\ p.recvEnded = r.recvEnded
      /\ p.opened = r.opened /\ p.exempt = r.exempt /\ p.declared = r.declared
      /\ p.delivered = r.delivered /\ p.queue = r.queue /\ p.rstSent = r.rstSent
  BY <1>1 DEF Failed, Agree, Fields
<1>5. /\ p.closed /\ p.pull # "blocked" /\ (p.pull = "none" <=> r.pull = "none")
      /\ p.error # "none" /\ p.head # "pending"
      /\ p.head = "ok" <=> r.head = "ok"
      /\ p.head = "retryable" => r.head = "retryable" \/ e = "retryable"
  BY <1>1 DEF Failed, Failures
<1>6. Reading(p)
  BY <1>4, <1>5 DEF Core, Reading
<1>7. Finished(p)
  BY <1>4 DEF Core, Finished
<1>8. Refusable(s, p, w, last)
  BY <1>3, <1>5 DEF Core, Refusable
<1>9. Queueing(s, p, w, ev)
  BY <1>3, <1>4, <1>5 DEF Core, Stored, Queueing
<1>10. Waiting(p) /\ Silenced(p, w) /\ Begun(p, w, ev) /\ Whole(p, w, ev)
  BY <1>3, <1>4, <1>5 DEF Waiting, Silenced, Begun, Whole
<1>11. OnItsWay(q, s, p, w, ev)
  BY <1>5 DEF OnItsWay
<1> QED
  BY <1>2, <1>6, <1>7, <1>8, <1>9, <1>10, <1>11 DEF Good

-----------------------------------------------------------------------------
(***************************************************************************)
(* Steps that touch one stream.                                            *)
(***************************************************************************)
\* Both ends of every stream but s are as they were.
OnlyAt(s) ==
  /\ st' \in [Streams -> StreamType] /\ srv' \in [Streams -> ServerType]
  /\ \A t \in Streams \ {s} : st'[t] = st[t] /\ srv'[t] = srv[t]
  /\ srvLast' = srvLast /\ events' = events
  /\ srv[s].rst /\ ~srv[s].processed => srv'[s].rst /\ ~srv'[s].processed

\* What the frames on the wire say is still so.
LEMMA StillNoted ==
  ASSUME NEW s \in Streams, OnlyAt(s), NEW f \in Frames, Noted(f, srv, srvLast)
  PROVE  Noted(f, srv', srvLast')
PROOF
<1>1. f.type = "rst" => f.stream \in Streams
  BY FrameTypes DEF RstFrames
<1>2. ASSUME NEW t \in Streams PROVE srv[t].rst /\ ~srv[t].processed => srv'[t].rst /\ ~srv'[t].processed
  BY DEF OnlyAt
<1> QED
  BY <1>1, <1>2 DEF Noted, OnlyAt

\* A step of the client, or of the server without a frame.
LEMMA QuietStep ==
  ASSUME StreamInv, NEW s \in Streams, OnlyAt(s), UNCHANGED s2c,
         Good(s, st'[s], srv'[s], srvLast, events),
         OnItsWay(s2c, s, st'[s], srv'[s], events)
  PROVE  StreamInv'
PROOF
<1>1. ASSUME NEW t \in Streams
      PROVE  Good(t, st'[t], srv'[t], srvLast, events) /\ OnItsWay(s2c, t, st'[t], srv'[t], events)
  BY DEF StreamInv, OnlyAt
<1>2. ASSUME NEW i \in 1..Len(s2c) PROVE Noted(s2c[i], srv', srvLast')
  <2>1. s2c[i] \in Frames
    BY ElementOfSeq DEF StreamInv
  <2> QED
    BY <2>1, StillNoted DEF StreamInv
<1> QED
  BY <1>1, <1>2 DEF StreamInv, OnlyAt

\* The frames that are left when the oldest is taken off the wire.
LEMMA FramesLeft ==
  ASSUME s2c \in Seq(Frames), s2c # <<>>, s2c' = Tail(s2c)
  PROVE  /\ s2c' \in Seq(Frames)
         /\ \A i \in 1..Len(s2c') : s2c'[i] = s2c[i + 1] /\ i + 1 \in 1..Len(s2c)
PROOF
<1>1. /\ Tail(s2c) \in Seq(Frames) /\ Len(s2c) \in Nat /\ Len(Tail(s2c)) = Len(s2c) - 1
      /\ \A i \in 1..Len(Tail(s2c)) : Tail(s2c)[i] = s2c[i + 1]
  BY LenProperties, HeadTailProperties
<1> QED
  BY <1>1

\* The oldest frame is taken off the wire, and it is not about another stream.
LEMMA TakenStep ==
  ASSUME StreamInv, NEW s \in Streams, OnlyAt(s), s2c # <<>>, s2c' = Tail(s2c),
         \A t \in Streams \ {s} : Carried(Head(s2c), t) = 0,
         Good(s, st'[s], srv'[s], srvLast, events),
         OnItsWay(Tail(s2c), s, st'[s], srv'[s], events)
  PROVE  StreamInv'
PROOF
<1>0. s2c \in Seq(Frames)
  BY DEF StreamInv
<1>1. ASSUME NEW t \in Streams
      PROVE  Good(t, st'[t], srv'[t], srvLast, events)
  BY DEF StreamInv, OnlyAt
<1>2. ASSUME NEW t \in Streams, t # s
      PROVE  OnItsWay(Tail(s2c), t, st'[t], srv'[t], events)
  <2>1. st'[t] = st[t] /\ srv'[t] = srv[t] /\ OnItsWay(s2c, t, st[t], srv[t], events)
    BY <1>2 DEF StreamInv, OnlyAt
  <2>2. ASSUME Wire(s2c, t, st[t].received, srv[t].sent, srv[t].ended)
        PROVE  Wire(Tail(s2c), t, st[t].received, srv[t].sent, srv[t].ended)
    <3>1. /\ Wire(Tail(s2c), t, st[t].received + Carried(Head(s2c), t), srv[t].sent, srv[t].ended)
          /\ st[t].received \in Nat
      BY <1>0, <2>2, WireTail
    <3>2. st[t].received + Carried(Head(s2c), t) = st[t].received
      BY <1>2, <3>1
    <3> QED
      BY <3>1, <3>2
  <2> QED
    BY <2>1, <2>2 DEF OnItsWay
<1>3. s2c' \in Seq(Frames) /\ \A i \in 1..Len(s2c') : s2c'[i] = s2c[i + 1] /\ i + 1 \in 1..Len(s2c)
  BY <1>0, FramesLeft
<1>4. ASSUME NEW i \in 1..Len(s2c') PROVE Noted(s2c'[i], srv', srvLast')
  <2>1. s2c'[i] \in Frames
    BY <1>3, ElementOfSeq
  <2> QED
    BY <1>3, <2>1, StillNoted DEF StreamInv
<1> QED
  BY <1>1, <1>2, <1>3, <1>4 DEF StreamInv, OnlyAt

\* The frames on the wire when the server has written one more.
LEMMA FramesMore ==
  ASSUME s2c \in Seq(Frames), NEW f \in Frames, s2c' = Append(s2c, f)
  PROVE  /\ s2c' \in Seq(Frames)
         /\ \A i \in 1..Len(s2c') : (i \in 1..Len(s2c) /\ s2c'[i] = s2c[i]) \/ s2c'[i] = f
PROOF
<1>1. /\ Append(s2c, f) \in Seq(Frames) /\ Len(s2c) \in Nat
      /\ Len(Append(s2c, f)) = Len(s2c) + 1 /\ Append(s2c, f)[Len(s2c) + 1] = f
      /\ \A i \in 1..Len(s2c) : Append(s2c, f)[i] = s2c[i]
  BY LenProperties, AppendProperties
<1>2. \A i \in 1..(Len(s2c) + 1) : i \in 1..Len(s2c) \/ i = Len(s2c) + 1
  BY <1>1
<1> QED
  BY <1>1, <1>2

\* The server writes a frame that is not about another stream.
LEMMA WrittenStep ==
  ASSUME StreamInv, NEW s \in Streams, OnlyAt(s), NEW f \in Frames, s2c' = Append(s2c, f),
         Noted(f, srv', srvLast),
         \A t \in Streams \ {s} : ~(f.type \in {"data", "headers"} /\ f.stream = t),
         Good(s, st'[s], srv'[s], srvLast, events),
         OnItsWay(Append(s2c, f), s, st'[s], srv'[s], events)
  PROVE  StreamInv'
PROOF
<1>0. s2c \in Seq(Frames)
  BY DEF StreamInv
<1>1. ASSUME NEW t \in Streams
      PROVE  Good(t, st'[t], srv'[t], srvLast, events)
  BY DEF StreamInv, OnlyAt
<1>2. ASSUME NEW t \in Streams, t # s
      PROVE  OnItsWay(Append(s2c, f), t, st'[t], srv'[t], events)
  <2>1. st'[t] = st[t] /\ srv'[t] = srv[t] /\ OnItsWay(s2c, t, st[t], srv[t], events)
    BY <1>2 DEF StreamInv, OnlyAt
  <2>2. Carried(f, t) = 0 /\ ~Ends(f, t) /\ ~(f.type = "data" /\ f.stream = t)
    BY <1>2 DEF Carried, Ends
  <2>3. srv[t].sent \in Nat
    BY DEF StreamInv, ServerType
  <2>4. ASSUME Wire(s2c, t, st[t].received, srv[t].sent, srv[t].ended)
        PROVE  Wire(Append(s2c, f), t, st[t].received, srv[t].sent, srv[t].ended)
    <3>1. Wire(Append(s2c, f), t, st[t].received, srv[t].sent + Carried(f, t), srv[t].ended)
      BY <1>0, <2>2, <2>4, WireAppend
    <3>2. srv[t].sent + Carried(f, t) = srv[t].sent
      BY <2>2, <2>3
    <3> QED
      BY <3>1, <3>2
  <2> QED
    BY <2>1, <2>4 DEF OnItsWay
<1>3. /\ s2c' \in Seq(Frames)
      /\ \A i \in 1..Len(s2c') : (i \in 1..Len(s2c) /\ s2c'[i] = s2c[i]) \/ s2c'[i] = f
  BY <1>0, FramesMore
<1>4. ASSUME NEW i \in 1..Len(s2c') PROVE Noted(s2c'[i], srv', srvLast')
  <2>1. CASE i \in 1..Len(s2c) /\ s2c'[i] = s2c[i]
    <3>1. s2c[i] \in Frames
      BY <1>0, <2>1, ElementOfSeq
    <3> QED
      BY <2>1, <3>1, StillNoted DEF StreamInv
  <2>2. CASE s2c'[i] = f
    BY <2>2 DEF OnlyAt
  <2> QED
    BY <1>3, <2>1, <2>2
<1> QED
  BY <1>1, <1>2, <1>3, <1>4 DEF StreamInv, OnlyAt

\* The server's record after a reset or a credit.
LEMMA PeerRst ==
  ASSUME NEW v \in [Streams -> ServerType], NEW s \in Streams
  PROVE  LET w == PeerGetsRst(v, s) IN
         /\ w \in [Streams -> ServerType]
         /\ \A t \in Streams \ {s} : w[t] = v[t]
         /\ w[s].gotRst /\ (w[s].late <=> v[s].gotRst)
         /\ SrvAgree(v[s], w[s], {"gotRst", "late"})
PROOF
BY DEF PeerGetsRst, ServerType, SrvAgree, SrvFields

\* A stream WINDOW_UPDATE gives the server credit, and is late exactly when it follows RST_STREAM.
LEMMA PeerCredit ==
  ASSUME NEW v \in [Streams -> ServerType], NEW s \in Streams, NEW n \in Nat
  PROVE  LET w == PeerGetsCredit(v, s, n) IN
         /\ w \in [Streams -> ServerType]
         /\ \A t \in Streams \ {s} : w[t] = v[t]
         /\ w[s].late <=> v[s].gotRst \/ v[s].late
         /\ SrvAgree(v[s], w[s], {"late", "win"})
PROOF
<1>1. v[s] \in ServerType /\ v[s].win + n \in Int
  BY DEF ServerType
<1> QED
  BY <1>1 DEF PeerGetsCredit, ServerType, SrvAgree, SrvFields

\* A WINDOW_UPDATE goes out only for a stream that was not reset.
LEMMA CreditKeeps ==
  ASSUME NEW v \in [Streams -> ServerType], NEW s \in Streams, NEW r \in StreamType,
         NEW n \in Nat, Silenced(r, v[s])
  PROVE  LET w == ReplenishPeer(v, s, r, n) IN
         /\ w \in [Streams -> ServerType]
         /\ \A t \in Streams \ {s} : w[t] = v[t]
         /\ ~w[s].late
         /\ SrvAgree(v[s], w[s], {"late", "win"})
PROOF
<1>1. CASE n > 0 /\ StreamOwes(r, n) /\ fatal = "none"
  <2>1. r.recvConsumed + n \in Nat
    BY DEF StreamType
  <2>2. ReplenishPeer(v, s, r, n) = PeerGetsCredit(v, s, r.recvConsumed + n)
    BY <1>1 DEF ReplenishPeer
  <2>3. ~v[s].gotRst /\ ~v[s].late
    BY <1>1 DEF StreamOwes, Silenced
  <2> QED
    BY <2>1, <2>2, <2>3, PeerCredit
<1>2. CASE ~(n > 0 /\ StreamOwes(r, n) /\ fatal = "none")
  <2>1. ReplenishPeer(v, s, r, n) = v
    BY <1>2 DEF ReplenishPeer
  <2> QED
    BY <2>1 DEF SrvAgree, Silenced
<1> QED
  BY <1>1, <1>2

\* _resetStream, on whatever the handler has made of the stream (r) and of the
\* server's credit (v) before.
LEMMA ResetKeeps ==
  ASSUME StreamInv, srvLast \in Nat,
         NEW s \in Streams, NEW r \in StreamType, NEW e \in Failures \ {"retryable"},
         NEW v \in [Streams -> ServerType], \A t \in Streams \ {s} : v[t] = srv[t],
         SrvAgree(srv[s], v[s], {"late", "win"}), ~v[s].late,
         r.rstSent = st[s].rstSent, Core(s, r, srv[s], srvLast, events), Begun(r, srv[s], events),
         st' = [st EXCEPT ![s] = FailStream([r EXCEPT !.rstSent = TRUE], e)],
         srv' = IF r.rstSent THEN v ELSE PeerGetsRst(v, s),
         srvLast' = srvLast, events' = events
  PROVE  /\ OnlyAt(s)
         /\ Good(s, st'[s], srv'[s], srvLast, events)
         /\ \A q : OnItsWay(q, s, st'[s], srv'[s], events)
PROOF
<1> DEFINE p == [r EXCEPT !.rstSent = TRUE]
<1>1. /\ p \in StreamType /\ p.rstSent /\ Agree(r, p, {"rstSent"})
  BY DEF StreamType, Agree, Fields
<1> HIDE DEF p
<1>2. Core(s, p, srv[s], srvLast, events) /\ Begun(p, srv[s], events)
  <2>1. /\ p.pull = r.pull /\ p.head = r.head /\ p.outcome = r.outcome
        /\ p.responded = r.responded /\ p.recvEnded = r.recvEnded /\ p.opened = r.opened
        /\ p.exempt = r.exempt /\ p.declared = r.declared /\ p.delivered = r.delivered
        /\ p.queue = r.queue
    BY <1>1 DEF Agree, Fields
  <2> QED
    BY <2>1 DEF Core, Reading, Finished, Refusable, Stored, Begun
<1>3. st[s].rstSent <=> r.rstSent
  OBVIOUS
<1>4. Silenced(st[s], srv[s])
  BY DEF StreamInv, Good
<1>5. v[s].gotRst => r.rstSent
  BY <1>3, <1>4 DEF Silenced, SrvAgree, SrvFields
<1>6. /\ srv' \in [Streams -> ServerType]
      /\ \A t \in Streams \ {s} : srv'[t] = srv[t]
      /\ SrvAgree(srv[s], srv'[s], {"gotRst", "late", "win"})
      /\ ~srv'[s].late
  <2>1. CASE r.rstSent
    BY <2>1 DEF SrvAgree
  <2>2. CASE ~r.rstSent
    <3>1. /\ srv' \in [Streams -> ServerType]
          /\ \A t \in Streams \ {s} : srv'[t] = v[t]
          /\ srv'[s].gotRst /\ (srv'[s].late <=> v[s].gotRst)
          /\ SrvAgree(v[s], srv'[s], {"gotRst", "late"})
      BY <2>2, PeerRst
    <3> QED
      BY <1>5, <2>2, <3>1 DEF SrvAgree
  <2> QED
    BY <2>1, <2>2
<1>7. /\ srv'[s].rst = srv[s].rst /\ srv'[s].processed = srv[s].processed
      /\ SrvAgree(srv[s], srv'[s], {"clientEnded", "gotRst", "late", "headers", "left", "win"})
  BY <1>6 DEF SrvAgree, SrvFields
<1>8. srv[s] \in ServerType /\ srv'[s] \in ServerType /\ st \in [Streams -> StreamType]
  BY <1>6 DEF StreamInv
<1>9. st' = [st EXCEPT ![s] = FailStream(p, e)] /\ st'[s] = FailStream(p, e)
  BY <1>8 DEF p
<1>10. ASSUME NEW q
       PROVE  /\ FailStream(p, e) \in StreamType
              /\ Good(s, FailStream(p, e), srv'[s], srvLast, events)
              /\ OnItsWay(q, s, FailStream(p, e), srv'[s], events)
  BY <1>1, <1>2, <1>6, <1>7, <1>8, FailKeeps
<1>11. OnlyAt(s)
  BY <1>6, <1>7, <1>8, <1>9, <1>10 DEF OnlyAt
<1> QED
  BY <1>9, <1>10, <1>11

\* _resetStream: the stream is failed and rejected, and RST_STREAM was not sent before.
LEMMA ResetStreamKeeps ==
  ASSUME StreamInv, srvLast \in Nat,
         NEW s \in Streams, NEW r \in StreamType, NEW e \in Failures \ {"retryable"},
         r.rstSent = st[s].rstSent, Core(s, r, srv[s], srvLast, events), Begun(r, srv[s], events),
         ResetStream(s, r, e), srvLast' = srvLast, events' = events
  PROVE  /\ OnlyAt(s)
         /\ Good(s, st'[s], srv'[s], srvLast, events)
         /\ \A q : OnItsWay(q, s, st'[s], srv'[s], events)
PROOF
<1>1. SrvAgree(srv[s], srv[s], {"late", "win"}) /\ srv \in [Streams -> ServerType]
  BY DEF SrvAgree, StreamInv
<1>2. ~srv[s].late
  BY DEF StreamInv, Good, Silenced
<1> QED
  BY <1>1, <1>2, ResetKeeps DEF ResetStream

-----------------------------------------------------------------------------
(***************************************************************************)
(* The callers.                                                            *)
(***************************************************************************)
\* The number of the next stream is a stream, while one may be opened.
LEMMA NextIsStream ==
  ASSUME Scalars, MayRequest
  PROVE  nextStream \in Streams /\ nextStream + 1 \in 1..(MaxStreams + 1)
PROOF
<1>1. nextStream \in Used /\ MaxStreams \in Nat \ {0}
  BY Http2Assumption DEF MayRequest
<1> QED
  BY <1>1 DEF Used, Streams

\* request() opens the stream on both sides.
LEMMA RequestKeeps ==
  ASSUME HInv, NEW hasBody \in BOOLEAN, Request(hasBody)
  PROVE  HInv'
PROOF
<1> DEFINE s == nextStream
           r == st[s]
           q == [r EXCEPT !.opened = TRUE, !.localEnded = ~hasBody]
           v == srv[s]
           w == [v EXCEPT !.open = TRUE, !.clientEnded = ~hasBody]
<1>1. s \in Streams /\ Scalars'
  BY NextIsStream DEF HInv, Scalars, Request
<1>2. /\ st \in [Streams -> StreamType] /\ srv \in [Streams -> ServerType]
      /\ Good(s, r, v, srvLast, events) /\ OnItsWay(s2c, s, r, v, events)
  BY <1>1 DEF HInv, StreamInv
<1>3. st' = [st EXCEPT ![s] = q] /\ srv' = [srv EXCEPT ![s] = w] /\ UNCHANGED <<s2c, srvLast, events>>
  BY DEF Request
<1>4. q \in StreamType /\ q.opened /\ Agree(r, q, {"opened", "localEnded"})
  <2> DEFINE o == [r EXCEPT !.opened = TRUE]
  <2>1. o \in StreamType /\ o.opened /\ Agree(r, o, {"opened"})
    BY <1>1, <1>2, ZenonT(60) DEF StreamType, Agree, Fields
  <2>2. q = [o EXCEPT !.localEnded = ~hasBody]
    OBVIOUS
  <2> HIDE DEF o, q
  <2>3. q \in StreamType /\ q.opened = o.opened /\ Agree(o, q, {"localEnded"})
    BY <2>1, <2>2 DEF StreamType, Agree, Fields
  <2> QED
    BY <2>1, <2>3 DEF Agree
<1>5. w \in ServerType /\ w.open /\ SrvAgree(v, w, {"open", "clientEnded"})
  BY <1>1, <1>2 DEF ServerType, SrvAgree, SrvFields
<1> HIDE DEF q, w
<1>6. /\ q.pull = r.pull /\ q.head = r.head /\ q.outcome = r.outcome
      /\ q.responded = r.responded /\ q.recvEnded = r.recvEnded /\ q.closed = r.closed
      /\ q.exempt = r.exempt /\ q.declared = r.declared /\ q.delivered = r.delivered
      /\ q.queue = r.queue /\ q.received = r.received /\ q.error = r.error /\ q.rstSent = r.rstSent
  BY <1>4 DEF Agree, Fields
<1>7. /\ w.processed = v.processed /\ w.rst = v.rst /\ w.sent = v.sent /\ w.ended = v.ended
      /\ w.gotRst = v.gotRst /\ w.late = v.late
  BY <1>5 DEF SrvAgree, SrvFields
<1>8. st'[s] = q /\ srv'[s] = w /\ OnlyAt(s)
  BY <1>1, <1>2, <1>3, <1>4, <1>5, <1>7 DEF OnlyAt
<1>9. Good(s, q, w, srvLast, events)
  BY <1>2, <1>4, <1>5, <1>6, <1>7
     DEF Good, Reading, Finished, Refusable, Queueing, Waiting, Silenced, Begun, Whole, LengthAgrees
<1>10. OnItsWay(s2c, s, q, w, events)
  BY <1>2, <1>6, <1>7 DEF OnItsWay
<1>11. StreamInv'
  BY <1>1, <1>3, <1>8, <1>9, <1>10, QuietStep DEF HInv
<1> QED
  BY <1>1, <1>11 DEF HInv

\* request() with an aborted signal, and onAbort: the stream is reset.
LEMMA AbortKeeps ==
  ASSUME HInv, RequestAborted \/ \E s \in Streams : Abort(s)
  PROVE  HInv'
PROOF
<1>0. srvLast \in Nat /\ StreamInv /\ Scalars
  BY DEF HInv, Scalars
<1>1. CASE RequestAborted
  <2> DEFINE s == nextStream
             r == st[s]
             q == [r EXCEPT !.opened = TRUE]
  <2>1. s \in Streams /\ Scalars'
    BY <1>0, <1>1, NextIsStream DEF Scalars, RequestAborted
  <2>2. r \in StreamType /\ Good(s, r, srv[s], srvLast, events)
    BY <1>0, <2>1 DEF StreamInv
  <2>3. q \in StreamType /\ q.opened /\ Agree(r, q, {"opened"})
    BY <2>2 DEF StreamType, Agree, Fields
  <2>4. ResetStream(s, q, "aborted") /\ UNCHANGED <<s2c, srvLast, events>>
    BY <1>1 DEF RequestAborted
  <2> HIDE DEF q, s
  <2>5. /\ q.pull = r.pull /\ q.head = r.head /\ q.outcome = r.outcome
        /\ q.responded = r.responded /\ q.recvEnded = r.recvEnded
        /\ q.exempt = r.exempt /\ q.declared = r.declared /\ q.delivered = r.delivered
        /\ q.queue = r.queue /\ q.rstSent = r.rstSent
    BY <2>3 DEF Agree, Fields
  <2>6. Core(s, q, srv[s], srvLast, events) /\ Begun(q, srv[s], events)
    BY <2>2, <2>3, <2>5, GoodIsCore
       DEF Good, Core, Reading, Finished, Refusable, Stored, Begun
  <2>7. "aborted" \in Failures \ {"retryable"}
    BY DEF Failures
  <2>8. StreamInv'
    BY <1>0, <2>1, <2>3, <2>4, <2>5, <2>6, <2>7, ResetStreamKeeps, QuietStep
  <2> QED
    BY <2>1, <2>8 DEF HInv
<1>2. CASE \E s \in Streams : Abort(s)
  <2>1. PICK s \in Streams : Abort(s)
    BY <1>2
  <2>2. st[s] \in StreamType /\ Good(s, st[s], srv[s], srvLast, events)
    BY <1>0 DEF StreamInv
  <2>3. ResetStream(s, st[s], "aborted") /\ UNCHANGED <<s2c, srvLast, events>> /\ Scalars'
    BY <1>0, <2>1 DEF Abort, Scalars
  <2>4. "aborted" \in Failures \ {"retryable"}
    BY DEF Failures
  <2>5. Core(s, st[s], srv[s], srvLast, events) /\ Begun(st[s], srv[s], events)
    BY <2>2, GoodIsCore DEF Good
  <2>6. StreamInv'
    BY <1>0, <2>2, <2>3, <2>4, <2>5, ResetStreamKeeps, QuietStep
  <2> QED
    BY <2>3, <2>6 DEF HInv
<1> QED
  BY <1>1, <1>2

\* _sendBody: the last DATA frame is written for a live stream only, and then
\* marks the local half ended.
LEMMA LastDataKeeps ==
  ASSUME HInv, NEW s \in Streams, SendLastData(s) \/ LastDataWritten(s)
  PROVE  HInv'
PROOF
<1> DEFINE r == st[s]
           v == srv[s]
<1>1. /\ st \in [Streams -> StreamType] /\ srv \in [Streams -> ServerType]
      /\ r \in StreamType /\ v \in ServerType
      /\ Good(s, r, v, srvLast, events) /\ OnItsWay(s2c, s, r, v, events)
  BY DEF HInv, StreamInv
<1>2. CASE SendLastData(s)
  <2> DEFINE w == [v EXCEPT !.clientEnded = TRUE, !.late = v.gotRst]
  <2>1. /\ st' = st /\ srv' = [srv EXCEPT ![s] = w] /\ UNCHANGED <<s2c, srvLast, events>>
        /\ Scalars' /\ ~r.closed
    BY <1>2 DEF SendLastData, HInv, Scalars, clientVars, Live
  <2>2. w \in ServerType /\ (w.late <=> v.gotRst) /\ SrvAgree(v, w, {"late", "clientEnded"})
    BY <1>1 DEF ServerType, SrvAgree, SrvFields
  <2> HIDE DEF w
  <2>3. /\ w.processed = v.processed /\ w.rst = v.rst /\ w.sent = v.sent /\ w.ended = v.ended
        /\ w.gotRst = v.gotRst /\ w.open = v.open
    BY <2>2 DEF SrvAgree, SrvFields
  <2>4. Good(s, r, w, srvLast, events) /\ OnItsWay(s2c, s, r, w, events)
    BY <1>1, <2>1, <2>2, <2>3
       DEF Good, Refusable, Queueing, Silenced, Begun, Whole, OnItsWay
  <2>5. st'[s] = r /\ srv'[s] = w /\ OnlyAt(s)
    BY <1>1, <2>1, <2>2, <2>3 DEF OnlyAt
  <2>6. StreamInv'
    BY <2>1, <2>4, <2>5, QuietStep DEF HInv
  <2> QED
    BY <2>1, <2>6 DEF HInv
<1>3. CASE LastDataWritten(s)
  <2> DEFINE p == [r EXCEPT !.localEnded = TRUE]
             q == MaybeClose(p)
  <2>1. /\ st' = [st EXCEPT ![s] = q] /\ srv' = srv /\ UNCHANGED <<s2c, srvLast, events>>
        /\ Scalars' /\ ~r.closed
    BY <1>3 DEF LastDataWritten, HInv, Scalars, serverVars, Live
  <2>2. p \in StreamType /\ Agree(r, p, {"localEnded"})
    BY <1>1 DEF StreamType, Agree, Fields
  <2> HIDE DEF p
  <2>3. /\ q \in StreamType
        /\ q.pull = "none" <=> p.pull = "none"
        /\ q.pull = "blocked" => p.pull = "blocked"
        /\ q.closed <=> p.closed \/ (p.recvEnded /\ p.localEnded)
        /\ q.closed /\ ~p.closed => q.pull # "blocked"
        /\ Agree(p, q, {"closed", "pull"})
    BY <2>2, MaybeCloses
  <2> HIDE DEF q
  <2>4. /\ q.head = r.head /\ q.outcome = r.outcome /\ q.opened = r.opened
        /\ q.responded = r.responded /\ q.recvEnded = r.recvEnded /\ p.recvEnded = r.recvEnded
        /\ q.exempt = r.exempt /\ q.declared = r.declared /\ q.delivered = r.delivered
        /\ q.queue = r.queue /\ q.received = r.received /\ q.error = r.error /\ q.rstSent = r.rstSent
        /\ p.pull = r.pull /\ p.closed = r.closed
    BY <2>2, <2>3 DEF Agree, Fields
  <2>5. Reading(q) /\ Finished(q) /\ Refusable(s, q, v, srvLast) /\ Queueing(s, q, v, events)
    BY <1>1, <2>3, <2>4 DEF Good, Reading, Finished, Refusable, Queueing
  <2>6. Reading(r) /\ Waiting(r) /\ Silenced(r, v)
    BY <1>1 DEF Good
  <2>7. Waiting(q) /\ Silenced(q, v)
    BY <2>1, <2>3, <2>4, <2>6 DEF Waiting, Silenced, Reading
  <2>8. Begun(q, v, events) /\ Whole(q, v, events) /\ OnItsWay(s2c, s, q, v, events)
    BY <1>1, <2>1, <2>4 DEF Good, Begun, Whole, LengthAgrees, OnItsWay
  <2>9. st'[s] = q /\ srv'[s] = v /\ OnlyAt(s)
    BY <1>1, <2>1, <2>3 DEF OnlyAt
  <2>10. StreamInv'
    BY <2>1, <2>5, <2>7, <2>8, <2>9, QuietStep DEF HInv, Good
  <2> QED
    BY <2>1, <2>10 DEF HInv
<1> QED
  BY <1>2, <1>3

\* Reading to the end of an empty queue.
LEMMA FilledNone ==
  ASSUME NEW s, NEW a, NEW b, NEW ev, Filled(<<>>, s, a, b, ev)
  PROVE  a = b
PROOF
<1>1. Len(<<>>) = 0
  OBVIOUS
<1> QED
  BY <1>1 DEF Filled, Rises

\* The connection window and what is owed on it stay numbers.
LEMMA CreditTyped ==
  ASSUME Scalars, NEW taken \in Nat, NEW given \in Nat, ConnCredit(taken, given)
  PROVE  recvWin' \in Int /\ consumed' \in Nat /\ srvWin' \in Int
PROOF
<1>1. consumed + given \in Nat /\ recvWin - taken + given \in Int
      /\ srvWin + (consumed + given) \in Int /\ srvWin \in Int
  BY DEF Scalars
<1> QED
  BY <1>1 DEF ConnCredit

\* pull() starts.
LEMMA ReadKeeps ==
  ASSUME HInv, NEW s \in Streams, Read(s)
  PROVE  HInv'
PROOF
<1> DEFINE r == st[s]
           q == [r EXCEPT !.pull = "running"]
           v == srv[s]
<1>1. /\ st \in [Streams -> StreamType] /\ srv \in [Streams -> ServerType]
      /\ r \in StreamType /\ Good(s, r, v, srvLast, events) /\ OnItsWay(s2c, s, r, v, events)
  BY DEF HInv, StreamInv
<1>2. /\ st' = [st EXCEPT ![s] = q] /\ srv' = srv /\ UNCHANGED <<s2c, srvLast, events>>
      /\ Scalars' /\ r.head = "ok" /\ r.outcome = "reading"
  BY DEF Read, HInv, Scalars, serverVars
<1>3. q \in StreamType /\ q.pull = "running" /\ Agree(r, q, {"pull"})
  BY <1>1 DEF StreamType, Agree, Fields
<1> HIDE DEF q
<1>4. /\ q.head = r.head /\ q.outcome = r.outcome /\ q.opened = r.opened /\ q.closed = r.closed
      /\ q.responded = r.responded /\ q.recvEnded = r.recvEnded
      /\ q.exempt = r.exempt /\ q.declared = r.declared /\ q.delivered = r.delivered
      /\ q.queue = r.queue /\ q.received = r.received /\ q.error = r.error /\ q.rstSent = r.rstSent
  BY <1>3 DEF Agree, Fields
<1>5. Good(s, q, v, srvLast, events) /\ OnItsWay(s2c, s, q, v, events)
  BY <1>1, <1>2, <1>3, <1>4
     DEF Good, Reading, Finished, Refusable, Queueing, Waiting, Silenced, Begun, Whole, LengthAgrees,
         OnItsWay
<1>6. st'[s] = q /\ srv'[s] = v /\ OnlyAt(s)
  BY <1>1, <1>2, <1>3 DEF OnlyAt
<1>7. StreamInv'
  BY <1>2, <1>5, <1>6, QuietStep DEF HInv
<1> QED
  BY <1>2, <1>7 DEF HInv

\* pull() hands out a chunk and credits its bytes.
LEMMA PullChunkKeeps ==
  ASSUME HInv, NEW s \in Streams, PullChunk(s)
  PROVE  HInv'
PROOF
<1> DEFINE r == st[s]
           n == Head(r.queue).len
           p == TakeChunk(r)
           q == ReplenishStream(p, n)
           v == srv[s]
           w == srv'[s]
<1>1. /\ st \in [Streams -> StreamType] /\ srv \in [Streams -> ServerType]
      /\ r \in StreamType /\ Good(s, r, v, srvLast, events) /\ OnItsWay(s2c, s, r, v, events)
  BY DEF HInv, StreamInv
<1>2. /\ st' = [st EXCEPT ![s] = q] /\ srv' = ReplenishPeer(srv, s, r, n)
      /\ UNCHANGED <<s2c, srvLast, events>>
      /\ r.pull = "running" /\ r.queue # <<>> /\ ConnCredit(0, n)
  BY DEF PullChunk
<1>3. r.queue \in Seq(Chunks) /\ Head(r.queue) \in Chunks /\ Tail(r.queue) \in Seq(Chunks)
  <2>1. r.queue \in Seq(Chunks)
    BY <1>1 DEF StreamType
  <2> QED
    BY <1>2, <2>1, HeadTailProperties
<1>4. n \in Nat
  BY <1>3 DEF Chunks
<1>5. Scalars'
  <2>1. recvWin' \in Int /\ consumed' \in Nat /\ srvWin' \in Int
    BY <1>2, <1>4, CreditTyped DEF HInv
  <2> QED
    BY <2>1 DEF HInv, Scalars, PullChunk
<1>6. /\ p \in StreamType /\ p.pull = "none" /\ p.queue = Tail(r.queue)
      /\ p.delivered = r.delivered + n /\ Agree(r, p, {"queue", "delivered", "pull"})
  BY <1>1, <1>2, TakesChunk
<1> HIDE DEF p
<1>7. q \in StreamType /\ Agree(p, q, {"recvWindow", "recvConsumed"})
  BY <1>4, <1>6, Replenishes
<1>8. Silenced(r, v)
  BY <1>1 DEF Good
<1>9. /\ srv' \in [Streams -> ServerType]
      /\ \A t \in Streams \ {s} : srv'[t] = srv[t]
      /\ ~w.late
      /\ SrvAgree(v, w, {"late", "win"})
  BY <1>1, <1>2, <1>4, <1>8, CreditKeeps
<1> HIDE DEF q, n
<1>10. /\ q.head = r.head /\ q.outcome = r.outcome /\ q.opened = r.opened /\ q.closed = r.closed
       /\ q.responded = r.responded /\ q.recvEnded = r.recvEnded
       /\ q.exempt = r.exempt /\ q.declared = r.declared
       /\ q.received = r.received /\ q.error = r.error /\ q.rstSent = r.rstSent
       /\ q.pull = "none" /\ q.queue = Tail(r.queue) /\ q.delivered = r.delivered + n
  BY <1>6, <1>7 DEF Agree, Fields
<1>11. /\ w.processed = v.processed /\ w.rst = v.rst /\ w.sent = v.sent /\ w.ended = v.ended
       /\ w.gotRst = v.gotRst /\ w.open = v.open
  BY <1>9 DEF SrvAgree, SrvFields
<1>12. Queueing(s, q, w, events)
  <2>1. PICK total \in Nat : /\ Filled(r.queue, s, r.delivered, total, events)
                             /\ HonestIn(events) => total <= v.sent
                             /\ r.error = "none" => total = r.received
    BY <1>1 DEF Good, Queueing
  <2>2. Filled(Tail(r.queue), s, r.delivered + n, total, events)
    BY <1>2, <1>3, <2>1, FilledTail DEF n
  <2> QED
    BY <1>10, <1>11, <2>1, <2>2 DEF Queueing
<1>13. Reading(r) /\ Waiting(r)
  BY <1>1 DEF Good
<1>14. Reading(q) /\ Finished(q) /\ Waiting(q)
  BY <1>2, <1>10, <1>13 DEF Reading, Finished, Waiting
<1>15. /\ Refusable(s, q, w, srvLast) /\ Silenced(q, w) /\ Begun(q, w, events)
       /\ Whole(q, w, events) /\ OnItsWay(s2c, s, q, w, events)
  BY <1>1, <1>9, <1>10, <1>11
     DEF Good, Refusable, Silenced, Begun, Whole, LengthAgrees, OnItsWay
<1>16. st'[s] = q /\ OnlyAt(s)
  BY <1>1, <1>2, <1>7, <1>9, <1>11 DEF OnlyAt
<1>17. StreamInv'
  BY <1>2, <1>12, <1>14, <1>15, <1>16, QuietStep DEF HInv, Good
<1> QED
  BY <1>5, <1>17 DEF HInv

\* What pull() finds when the queue is drained: the error, the end, or nothing yet.
LEMMA PullOutcomeKeeps ==
  ASSUME HInv, NEW s \in Streams, PullOutcome(s)
  PROVE  HInv'
PROOF
<1> DEFINE r == st[s]
           q == Drained(r)
           v == srv[s]
<1>1. /\ st \in [Streams -> StreamType] /\ srv \in [Streams -> ServerType]
      /\ r \in StreamType /\ Good(s, r, v, srvLast, events) /\ OnItsWay(s2c, s, r, v, events)
  BY DEF HInv, StreamInv
<1>2. /\ st' = [st EXCEPT ![s] = q] /\ srv' = srv /\ UNCHANGED <<s2c, srvLast, events>>
      /\ Scalars' /\ r.pull = "running" /\ r.queue = <<>>
  BY DEF PullOutcome, HInv, Scalars, serverVars
<1>3. /\ q \in StreamType /\ Agree(r, q, {"pull", "outcome", "completed"})
      /\ \/ r.error # "none" /\ q.pull = "none" /\ q.outcome = "error"
         \/ r.error = "none" /\ r.recvEnded /\ q.pull = "none" /\ q.outcome = "done"
         \/ r.error = "none" /\ ~r.recvEnded /\ q.pull = "blocked" /\ q.outcome = r.outcome
  <2>1. CASE r.error # "none"
    <3>1. q = BodyFails(r)
      BY <2>1 DEF Drained
    <3> QED
      BY <1>1, <2>1, <3>1 DEF BodyFails, Settle, StreamType, Agree, Fields
  <2>2. CASE r.error = "none" /\ r.recvEnded
    <3>1. q = BodyEnds(r)
      BY <2>2 DEF Drained
    <3> QED
      BY <1>1, <2>2, <3>1, ZenonT(60) DEF BodyEnds, Settle, StreamType, Agree, Fields
  <2>3. CASE r.error = "none" /\ ~r.recvEnded
    <3>1. q = BodyWaits(r)
      BY <2>3 DEF Drained
    <3> QED
      BY <1>1, <2>3, <3>1 DEF BodyWaits, StreamType, Agree, Fields
  <2> QED
    BY <2>1, <2>2, <2>3
<1> HIDE DEF q
<1>4. /\ q.head = r.head /\ q.opened = r.opened /\ q.closed = r.closed
      /\ q.responded = r.responded /\ q.recvEnded = r.recvEnded
      /\ q.exempt = r.exempt /\ q.declared = r.declared /\ q.delivered = r.delivered
      /\ q.queue = r.queue /\ q.received = r.received /\ q.error = r.error /\ q.rstSent = r.rstSent
  BY <1>3 DEF Agree, Fields
<1>5. Reading(r) /\ Waiting(r) /\ Finished(r) /\ Whole(r, v, events) /\ Queueing(s, r, v, events)
  BY <1>1 DEF Good
<1>6. ASSUME r.error = "none" PROVE r.delivered = r.received
  BY <1>2, <1>5, <1>6, FilledNone DEF Queueing
<1>7. Finished(q)
  <2>1. CASE q.outcome = "done"
    <3>1. r.exempt \/ r.declared = NoLength \/ r.declared = r.received
      BY <1>2, <1>3, <1>5, <2>1 DEF Whole, LengthAgrees, Reading
    <3> QED
      BY <1>2, <1>3, <1>4, <1>5, <1>6, <2>1, <3>1 DEF Finished, Reading
  <2>2. CASE q.outcome # "done"
    BY <2>2 DEF Finished
  <2> QED
    BY <2>1, <2>2
<1>8. Reading(q)
  BY <1>2, <1>3, <1>4, <1>5 DEF Reading
<1>9. Waiting(q)
  BY <1>2, <1>3, <1>4, <1>5 DEF Waiting, Reading
<1>10. Queueing(s, q, v, events) /\ Whole(q, v, events)
  BY <1>4, <1>5 DEF Queueing, Whole, LengthAgrees
<1>11. /\ Refusable(s, q, v, srvLast) /\ Silenced(q, v) /\ Begun(q, v, events)
       /\ OnItsWay(s2c, s, q, v, events)
  BY <1>1, <1>4 DEF Good, Refusable, Silenced, Begun, OnItsWay
<1>12. st'[s] = q /\ srv'[s] = v /\ OnlyAt(s)
  BY <1>1, <1>2, <1>3 DEF OnlyAt
<1>13. StreamInv'
  BY <1>2, <1>7, <1>8, <1>9, <1>10, <1>11, <1>12, QuietStep DEF HInv, Good
<1> QED
  BY <1>2, <1>13 DEF HInv

\* cancel(): the stream leaves the map and the server is told once.
LEMMA CancelKeeps ==
  ASSUME HInv, NEW s \in Streams, Cancel(s)
  PROVE  HInv'
PROOF
<1> DEFINE r == st[s]
           q == [r EXCEPT !.closed = TRUE, !.rstSent = TRUE, !.completed = Settle(@, "partial"),
                          !.outcome = "cancelled", !.pull = "none"]
           v == srv[s]
           w == srv'[s]
<1>1. /\ st \in [Streams -> StreamType] /\ srv \in [Streams -> ServerType]
      /\ r \in StreamType /\ Good(s, r, v, srvLast, events)
  BY DEF HInv, StreamInv
<1>2. /\ st' = [st EXCEPT ![s] = q] /\ UNCHANGED <<s2c, srvLast, events>>
      /\ srv' = IF r.rstSent \/ fatal # "none" THEN srv ELSE PeerGetsRst(srv, s)
      /\ Scalars' /\ r.head = "ok" /\ r.outcome = "reading"
  BY DEF Cancel, HInv, Scalars
<1>3. /\ q \in StreamType /\ q.closed /\ q.rstSent /\ q.outcome = "cancelled" /\ q.pull = "none"
      /\ Agree(r, q, {"closed", "rstSent", "completed", "outcome", "pull"})
  <2> DEFINE a == [r EXCEPT !.closed = TRUE, !.rstSent = TRUE]
             b == [a EXCEPT !.completed = Settle(@, "partial")]
             c == [b EXCEPT !.outcome = "cancelled", !.pull = "none"]
  <2>1. a \in StreamType /\ a.closed /\ a.rstSent /\ Agree(r, a, {"closed", "rstSent"})
    BY <1>1 DEF StreamType, Agree, Fields
  <2>2. q = c
    BY DEF Settle
  <2> HIDE DEF a, q
  <2>3. b \in StreamType /\ b.closed = a.closed /\ b.rstSent = a.rstSent /\ Agree(a, b, {"completed"})
    BY <2>1 DEF StreamType, Agree, Fields, Settle
  <2> HIDE DEF b
  <2>4. /\ c \in StreamType /\ c.closed = b.closed /\ c.rstSent = b.rstSent
        /\ c.outcome = "cancelled" /\ c.pull = "none" /\ Agree(b, c, {"outcome", "pull"})
    BY <2>3 DEF StreamType, Agree, Fields
  <2> HIDE DEF c
  <2> QED
    BY <2>1, <2>2, <2>3, <2>4 DEF Agree
<1> HIDE DEF q
<1>4. /\ q.head = r.head /\ q.opened = r.opened
      /\ q.responded = r.responded /\ q.recvEnded = r.recvEnded
      /\ q.exempt = r.exempt /\ q.declared = r.declared /\ q.delivered = r.delivered
      /\ q.queue = r.queue /\ q.received = r.received /\ q.error = r.error
  BY <1>3 DEF Agree, Fields
<1>5. Silenced(r, v)
  BY <1>1 DEF Good
<1>6. /\ srv' \in [Streams -> ServerType]
      /\ \A t \in Streams \ {s} : srv'[t] = srv[t]
      /\ SrvAgree(v, w, {"gotRst", "late"})
      /\ ~w.late
  <2>1. CASE r.rstSent \/ fatal # "none"
    BY <1>1, <1>2, <1>5, <2>1 DEF SrvAgree, Silenced
  <2>2. CASE ~(r.rstSent \/ fatal # "none")
    BY <1>1, <1>2, <1>5, <2>2, PeerRst DEF Silenced
  <2> QED
    BY <2>1, <2>2
<1>7. w.processed = v.processed /\ w.rst = v.rst /\ w.sent = v.sent /\ w.ended = v.ended /\ w.open = v.open
  BY <1>6 DEF SrvAgree, SrvFields
<1>8. /\ Reading(q) /\ Finished(q) /\ Refusable(s, q, w, srvLast) /\ Queueing(s, q, w, events)
  BY <1>1, <1>2, <1>3, <1>4, <1>7 DEF Good, Reading, Finished, Refusable, Queueing
<1>9. /\ Waiting(q) /\ Silenced(q, w) /\ Begun(q, w, events) /\ Whole(q, w, events)
      /\ OnItsWay(s2c, s, q, w, events)
  BY <1>1, <1>2, <1>3, <1>4, <1>6, <1>7
     DEF Good, Waiting, Silenced, Begun, Whole, LengthAgrees, OnItsWay
<1>10. st'[s] = q /\ OnlyAt(s)
  BY <1>1, <1>2, <1>3, <1>6, <1>7 DEF OnlyAt
<1>11. StreamInv'
  BY <1>2, <1>8, <1>9, <1>10, QuietStep DEF HInv, Good
<1> QED
  BY <1>2, <1>11 DEF HInv

\* _die and close fail every live stream; the frames on the wire are lost.
LEMMA ShutdownKeeps ==
  ASSUME StreamInv, srvLast \in Nat, NEW e \in Failures \ {"retryable"}, Shutdown(e),
         UNCHANGED <<events, srv, srvLast>>
  PROVE  StreamInv' /\ fatal' \in {"none"} \union Failures
PROOF
<1>1. ASSUME NEW s \in Streams
      PROVE  /\ st'[s] \in StreamType
             /\ Good(s, st'[s], srv[s], srvLast, events) /\ OnItsWay(<<>>, s, st'[s], srv[s], events)
  <2>1. /\ st[s] \in StreamType /\ srv[s] \in ServerType
        /\ Good(s, st[s], srv[s], srvLast, events) /\ OnItsWay(s2c, s, st[s], srv[s], events)
    BY DEF StreamInv
  <2>2. CASE Live(s)
    <3>1. st'[s] = FailStream(st[s], e)
      BY <2>2 DEF Shutdown
    <3>2. Core(s, st[s], srv[s], srvLast, events) /\ Begun(st[s], srv[s], events)
      BY <2>1, GoodIsCore DEF Good
    <3>3. srv[s].gotRst => st[s].rstSent
      BY <2>1 DEF Good, Silenced
    <3>4. ~srv[s].late
      BY <2>1 DEF Good, Silenced
    <3>5. SrvAgree(srv[s], srv[s], {"clientEnded", "gotRst", "late", "headers", "left", "win"})
      BY DEF SrvAgree
    <3> QED
      BY <2>1, <3>1, <3>2, <3>3, <3>4, <3>5, FailKeeps
  <2>3. CASE ~Live(s)
    <3>1. st'[s] = st[s]
      BY <2>3 DEF Shutdown
    <3>2. ASSUME HonestIn(events), ~st[s].closed
          PROVE  Wire(<<>>, s, st[s].received, srv[s].sent, srv[s].ended)
      <4>1. ~srv[s].open
        BY <2>1, <2>3, <3>2 DEF Live, Good, Begun
      <4>2. srv[s].sent = 0 /\ st[s].received \in Nat
        BY <2>1, <3>2, <4>1 DEF Good, Begun, StreamType
      <4>3. Wire(s2c, s, st[s].received, 0, srv[s].ended)
        BY <2>1, <3>2, <4>2 DEF OnItsWay
      <4>4. st[s].received = 0
        <5>1. PICK p : Rises(s2c, p, st[s].received, 0)
          BY <4>3 DEF Wire
        <5>2. Len(s2c) \in Nat
          BY LenProperties DEF StreamInv
        <5>3. st[s].received <= 0
          BY <5>1, <5>2 DEF Rises
        <5> QED
          BY <4>2, <5>3
      <4> QED
        BY <4>2, <4>4, WireEmpty
    <3> QED
      BY <2>1, <3>1, <3>2 DEF OnItsWay
  <2> QED
    BY <2>2, <2>3
<1>2. st' \in [Streams -> StreamType]
  BY <1>1 DEF Shutdown
<1>3. s2c' = <<>> /\ <<>> \in Seq(Frames) /\ 1..Len(<<>>) = {} /\ fatal' = e
  BY DEF Shutdown
<1> QED
  BY <1>1, <1>2, <1>3 DEF StreamInv

-----------------------------------------------------------------------------
(***************************************************************************)
(* The read loop.                                                          *)
(***************************************************************************)
\* The oldest frame, and what it says.
LEMMA OldestFrame ==
  ASSUME StreamInv, s2c # <<>>
  PROVE  /\ s2c \in Seq(Frames) /\ Head(s2c) \in Frames
         /\ Noted(Head(s2c), srv, srvLast)
PROOF
<1>1. s2c \in Seq(Frames) /\ Len(s2c) \in Nat /\ Len(s2c) # 0
  BY LenProperties, EmptySeq DEF StreamInv
<1>2. 1 \in 1..Len(s2c) /\ Head(s2c) = s2c[1] /\ Head(s2c) \in Frames
  BY <1>1, HeadTailProperties
<1> QED
  BY <1>1, <1>2 DEF StreamInv

\* A frame without bytes of a stream leaves it where it is; if it ends the
\* stream, everything has arrived.
LEMMA NothingCarried ==
  ASSUME StreamInv, s2c # <<>>, NEW s \in Streams, Carried(Head(s2c), s) = 0
  PROVE  /\ OnItsWay(Tail(s2c), s, st[s], srv[s], events)
         /\ HonestIn(events) /\ ~st[s].closed /\ Ends(Head(s2c), s)
              => srv[s].ended /\ st[s].received = srv[s].sent
PROOF
<1> DEFINE a == st[s].received
           b == srv[s].sent
<1>1. s2c \in Seq(Frames) /\ OnItsWay(s2c, s, st[s], srv[s], events)
  BY DEF StreamInv
<1>2. ASSUME Wire(s2c, s, a, b, srv[s].ended)
      PROVE  /\ Wire(Tail(s2c), s, a, b, srv[s].ended)
             /\ Ends(Head(s2c), s) => srv[s].ended /\ a = b
  <2> HIDE DEF a, b
  <2>1. /\ Wire(Tail(s2c), s, a + Carried(Head(s2c), s), b, srv[s].ended)
        /\ a \in Nat
        /\ Ends(Head(s2c), s) => a + Carried(Head(s2c), s) = b /\ srv[s].ended
    BY <1>1, <1>2, WireTail
  <2>2. a + Carried(Head(s2c), s) = a
    BY <2>1
  <2> QED
    BY <2>1, <2>2
<1> QED
  BY <1>1, <1>2 DEF OnItsWay

\* What a handler makes of the stream when it delivers the head.
LEMMA HeadDelivered ==
  ASSUME NEW r \in StreamType, NEW declared \in Int, NEW exempt \in BOOLEAN
  PROVE  LET q == [r EXCEPT !.responded = TRUE, !.declared = declared, !.exempt = exempt] IN
         /\ q \in StreamType /\ q.responded /\ q.declared = declared /\ (q.exempt <=> exempt)
         /\ Agree(r, q, {"responded", "declared", "exempt"})
PROOF
<1> DEFINE a == [r EXCEPT !.responded = TRUE, !.declared = declared]
           q == [r EXCEPT !.responded = TRUE, !.declared = declared, !.exempt = exempt]
<1>1. a \in StreamType /\ a.responded /\ a.declared = declared /\ Agree(r, a, {"responded", "declared"})
  BY DEF StreamType, Agree, Fields
<1>2. q = [a EXCEPT !.exempt = exempt]
  OBVIOUS
<1> HIDE DEF a, q
<1>3. /\ q \in StreamType /\ q.responded = a.responded /\ q.declared = a.declared
      /\ q.exempt = exempt /\ Agree(a, q, {"exempt"})
  BY <1>1, <1>2 DEF StreamType, Agree, Fields
<1> QED
  BY <1>1, <1>3 DEF Agree, q

\* _deliverResponseHead.
LEMMA ResponseHeadKeeps ==
  ASSUME HInv, OnResponseHead
  PROVE  HInv'
PROOF
<1> DEFINE f == Head(s2c)
           s == f.stream
           x == st[s]
           v == srv[s]
           r == [x EXCEPT !.responded = TRUE, !.declared = f.declared, !.exempt = f.exempt]
<1>1. /\ s2c # <<>> /\ f.type = "headers" /\ s2c' = Tail(s2c) /\ Live(s) /\ ~x.responded
      /\ srvLast' = srvLast /\ events' = events /\ Scalars'
  BY DEF OnResponseHead, Receives, HInv, Scalars
<1>2. StreamInv /\ srvLast \in Nat
  BY DEF HInv, Scalars
<1>3. f \in Frames /\ f \in HeaderFrames
  BY <1>1, <1>2, OldestFrame, FrameTypes
<1>4. s \in Streams /\ f.declared \in Int /\ f.exempt \in BOOLEAN
  BY <1>3 DEF HeaderFrames
<1>5. /\ st \in [Streams -> StreamType] /\ srv \in [Streams -> ServerType]
      /\ x \in StreamType /\ v \in ServerType /\ Good(s, x, v, srvLast, events)
  BY <1>2, <1>4 DEF StreamInv
<1>6. \A t : Carried(f, t) = 0
  BY <1>1 DEF Carried
<1>7. x.opened /\ ~x.closed
  BY <1>1 DEF Live
<1>8. /\ \/ f.malformed /\ ResetStream(s, x, "malformed")
         \/ /\ ~f.malformed /\ ~f.end
            /\ st' = [st EXCEPT ![s] = [r EXCEPT !.head = "ok"]]
            /\ srv' = srv
         \/ /\ ~f.malformed /\ f.end /\ LengthAgrees(r)
            /\ st' = [st EXCEPT ![s] =
                        MaybeClose([r EXCEPT !.head = "ok", !.completed = "whole", !.recvEnded = TRUE])]
            /\ srv' = srv
         \/ ~f.malformed /\ f.end /\ ~LengthAgrees(r) /\ ResetStream(s, r, "malformed")
  BY DEF OnResponseHead
<1>9. /\ r \in StreamType /\ r.responded
      /\ Agree(x, r, {"responded", "declared", "exempt"})
  BY <1>4, <1>5, HeadDelivered
<1>10. /\ OnItsWay(Tail(s2c), s, x, v, events)
       /\ HonestIn(events) /\ Ends(f, s) => v.ended /\ x.received = v.sent
  BY <1>1, <1>2, <1>4, <1>6, <1>7, NothingCarried
<1>11. Ends(f, s) <=> f.end
  BY <1>1 DEF Ends
<1> HIDE DEF f, r
<1>12. /\ r.pull = x.pull /\ r.head = x.head /\ r.outcome = x.outcome /\ r.opened = x.opened
       /\ r.recvEnded = x.recvEnded /\ r.closed = x.closed
       /\ r.delivered = x.delivered /\ r.queue = x.queue /\ r.received = x.received
       /\ r.error = x.error /\ r.rstSent = x.rstSent
  BY <1>9 DEF Agree, Fields
<1>13. /\ Reading(x) /\ Waiting(x) /\ Refusable(s, x, v, srvLast) /\ Queueing(s, x, v, events)
       /\ Silenced(x, v) /\ Begun(x, v, events) /\ Stored(s, x, v, events) /\ Finished(x)
  BY <1>5 DEF Good, Queueing, Stored
<1>14. /\ x.pull = "none" /\ x.head # "ok" /\ x.outcome # "done" /\ ~x.recvEnded
       /\ x.error = "none"
  BY <1>1, <1>7, <1>13 DEF Reading, Waiting
<1>15. "malformed" \in Failures \ {"retryable"}
  BY DEF Failures
<1>16. CASE ResetStream(s, x, "malformed")
  <2>1. Core(s, x, v, srvLast, events)
    BY <1>5, GoodIsCore
  <2>2. /\ OnlyAt(s) /\ Good(s, st'[s], srv'[s], srvLast, events)
        /\ \A q : OnItsWay(q, s, st'[s], srv'[s], events)
    BY <1>1, <1>2, <1>4, <1>5, <1>13, <1>15, <1>16, <2>1, ResetStreamKeeps
  <2>3. StreamInv'
    BY <1>1, <1>2, <1>4, <1>6, <2>2, TakenStep DEF f
  <2> QED
    BY <1>1, <2>3 DEF HInv
<1>17. CASE ResetStream(s, r, "malformed")
  <2>1. Core(s, r, v, srvLast, events) /\ Begun(r, v, events)
    BY <1>7, <1>9, <1>12, <1>13, <1>14
       DEF Core, Reading, Finished, Refusable, Stored, Begun
  <2>2. /\ OnlyAt(s) /\ Good(s, st'[s], srv'[s], srvLast, events)
        /\ \A q : OnItsWay(q, s, st'[s], srv'[s], events)
    BY <1>1, <1>2, <1>4, <1>9, <1>12, <1>15, <1>17, <2>1, ResetStreamKeeps
  <2>3. StreamInv'
    BY <1>1, <1>2, <1>4, <1>6, <2>2, TakenStep DEF f
  <2> QED
    BY <1>1, <2>3 DEF HInv
<1>18. CASE st' = [st EXCEPT ![s] = [r EXCEPT !.head = "ok"]] /\ srv' = srv
  <2> DEFINE q == [r EXCEPT !.head = "ok"]
  <2>1. q \in StreamType /\ q.head = "ok" /\ Agree(r, q, {"head"})
    BY <1>9 DEF StreamType, Agree, Fields
  <2> HIDE DEF q
  <2>2. /\ q.pull = x.pull /\ q.outcome = x.outcome /\ q.opened = x.opened
        /\ q.recvEnded = x.recvEnded /\ q.closed = x.closed /\ q.responded = r.responded
        /\ q.delivered = x.delivered /\ q.queue = x.queue /\ q.received = x.received
        /\ q.error = x.error /\ q.rstSent = x.rstSent
    BY <1>12, <2>1 DEF Agree, Fields
  <2>3. Good(s, q, v, srvLast, events) /\ OnItsWay(Tail(s2c), s, q, v, events)
    BY <1>7, <1>9, <1>10, <1>13, <1>14, <2>1, <2>2
       DEF Good, Reading, Finished, Refusable, Queueing, Waiting, Silenced, Begun, Whole, OnItsWay
  <2>4. st'[s] = q /\ srv'[s] = v /\ OnlyAt(s)
    BY <1>1, <1>4, <1>5, <1>18, <2>1 DEF OnlyAt, q
  <2>5. StreamInv'
    BY <1>1, <1>2, <1>4, <1>6, <2>3, <2>4, TakenStep DEF f
  <2> QED
    BY <1>1, <2>5 DEF HInv
<1>19. CASE /\ f.end /\ LengthAgrees(r)
            /\ st' = [st EXCEPT ![s] =
                        MaybeClose([r EXCEPT !.head = "ok", !.completed = "whole", !.recvEnded = TRUE])]
            /\ srv' = srv
  <2> DEFINE p == [r EXCEPT !.head = "ok", !.completed = "whole", !.recvEnded = TRUE]
             q == MaybeClose(p)
  <2>1. /\ p \in StreamType /\ p.head = "ok" /\ p.recvEnded
        /\ Agree(r, p, {"head", "completed", "recvEnded"})
    <3> DEFINE a == [r EXCEPT !.head = "ok", !.completed = "whole"]
    <3>1. a \in StreamType /\ a.head = "ok" /\ Agree(r, a, {"head", "completed"})
      BY <1>9 DEF StreamType, Agree, Fields
    <3>2. p = [a EXCEPT !.recvEnded = TRUE]
      OBVIOUS
    <3> HIDE DEF a, p
    <3>3. p \in StreamType /\ p.recvEnded /\ p.head = a.head /\ Agree(a, p, {"recvEnded"})
      BY <3>1, <3>2 DEF StreamType, Agree, Fields
    <3> QED
      BY <3>1, <3>3 DEF Agree
  <2> HIDE DEF p
  <2>2. /\ q \in StreamType
        /\ q.pull = "none" <=> p.pull = "none"
        /\ q.pull = "blocked" => p.pull = "blocked"
        /\ q.closed <=> p.closed \/ (p.recvEnded /\ p.localEnded)
        /\ Agree(p, q, {"closed", "pull"})
    BY <2>1, MaybeCloses
  <2> HIDE DEF q
  <2>3. /\ p.pull = x.pull /\ p.closed = x.closed
        /\ q.outcome = x.outcome /\ q.opened = x.opened /\ q.head = p.head
        /\ q.recvEnded = p.recvEnded /\ q.responded = r.responded
        /\ q.delivered = x.delivered /\ q.queue = x.queue /\ q.received = x.received
        /\ q.error = x.error /\ q.rstSent = x.rstSent
        /\ q.declared = r.declared /\ q.exempt = r.exempt /\ q.received = r.received
    BY <1>12, <2>1, <2>2, ZenonT(60) DEF Agree, Fields
  <2>4. q.pull = "none"
    BY <1>14, <2>2, <2>3
  <2>5. LengthAgrees(q)
    BY <1>19, <2>3 DEF LengthAgrees
  <2>6. Whole(q, v, events)
    BY <1>10, <1>11, <1>19, <2>3, <2>5 DEF Whole
  <2>7. Reading(q) /\ Finished(q) /\ Refusable(s, q, v, srvLast) /\ Queueing(s, q, v, events)
    BY <1>7, <1>9, <1>12, <1>13, <1>14, <2>1, <2>3, <2>4
       DEF Reading, Finished, Refusable, Queueing
  <2>8. Waiting(q) /\ Silenced(q, v) /\ Begun(q, v, events)
    BY <1>7, <1>9, <1>13, <1>14, <2>1, <2>2, <2>3, <2>4 DEF Waiting, Silenced, Begun
  <2>9. OnItsWay(Tail(s2c), s, q, v, events)
    BY <1>7, <1>10, <2>3 DEF OnItsWay
  <2>10. st'[s] = q /\ srv'[s] = v /\ OnlyAt(s)
    BY <1>1, <1>4, <1>5, <1>19, <2>2 DEF OnlyAt, q, p
  <2>11. Good(s, q, v, srvLast, events)
    BY <2>6, <2>7, <2>8 DEF Good
  <2>12. StreamInv'
    BY <1>1, <1>2, <1>4, <1>6, <2>9, <2>10, <2>11, TakenStep DEF f
  <2> QED
    BY <1>1, <2>12 DEF HInv
<1> QED
  BY <1>8, <1>16, <1>17, <1>18, <1>19

\* The response's half ends cleanly: in _endRecv, and in _onData.
LEMMA EndsReceiving ==
  ASSUME NEW s \in Streams, NEW r \in StreamType, NEW v \in ServerType, NEW last, NEW ev, NEW w,
         Reading(r), Finished(r), Refusable(s, r, v, last), Queueing(s, r, v, ev),
         Silenced(r, v), Begun(r, v, ev), OnItsWay(w, s, r, v, ev),
         r.responded, ~r.closed, r.error = "none", r.head = "ok", LengthAgrees(r),
         HonestIn(ev) => v.ended /\ r.received = v.sent
  PROVE  LET q == MaybeClose(WakePull([r EXCEPT !.recvEnded = TRUE])) IN
         q \in StreamType /\ Good(s, q, v, last, ev) /\ OnItsWay(w, s, q, v, ev)
PROOF
<1> DEFINE a == [r EXCEPT !.recvEnded = TRUE]
           p == WakePull(a)
           q == MaybeClose(p)
<1>1. a \in StreamType /\ a.recvEnded /\ Agree(r, a, {"recvEnded"})
  BY DEF StreamType, Agree, Fields
<1> HIDE DEF a
<1>2. /\ p \in StreamType /\ p.pull # "blocked" /\ (p.pull = "none" <=> a.pull = "none")
      /\ Agree(a, p, {"pull"})
  BY <1>1, Wakes
<1> HIDE DEF p
<1>3. /\ q \in StreamType
      /\ q.pull = "none" <=> p.pull = "none"
      /\ q.pull = "blocked" => p.pull = "blocked"
      /\ Agree(p, q, {"closed", "pull"})
  BY <1>2, MaybeCloses
<1> HIDE DEF q
<1>4. /\ a.pull = r.pull /\ q.head = r.head /\ q.outcome = r.outcome /\ q.opened = r.opened
      /\ q.responded = r.responded /\ q.recvEnded = a.recvEnded
      /\ q.exempt = r.exempt /\ q.declared = r.declared /\ q.delivered = r.delivered
      /\ q.queue = r.queue /\ q.received = r.received /\ q.error = r.error /\ q.rstSent = r.rstSent
  BY <1>1, <1>2, <1>3 DEF Agree, Fields
<1>5. Reading(q) /\ Finished(q) /\ Refusable(s, q, v, last) /\ Queueing(s, q, v, ev)
  BY <1>1, <1>2, <1>3, <1>4 DEF Reading, Finished, Refusable, Queueing
<1>6. Waiting(q)
  BY <1>1, <1>2, <1>3, <1>4 DEF Waiting
<1>7. Silenced(q, v) /\ Begun(q, v, ev)
  BY <1>4 DEF Silenced, Begun
<1>8. LengthAgrees(q)
  BY <1>4 DEF LengthAgrees
<1>9. Whole(q, v, ev) /\ OnItsWay(w, s, q, v, ev)
  BY <1>4, <1>8 DEF Whole, OnItsWay
<1> QED
  BY <1>3, <1>5, <1>6, <1>7, <1>9 DEF Good, q, p, a

\* _deliverTrailers.
LEMMA TrailersKeep ==
  ASSUME HInv, OnTrailers
  PROVE  HInv'
PROOF
<1> DEFINE f == Head(s2c)
           s == f.stream
           r == st[s]
           v == srv[s]
           q == MaybeClose(WakePull([r EXCEPT !.recvEnded = TRUE]))
<1>1. /\ s2c # <<>> /\ f.type = "headers" /\ s2c' = Tail(s2c) /\ Live(s) /\ r.responded
      /\ srvLast' = srvLast /\ events' = events /\ Scalars'
  BY DEF OnTrailers, Receives, HInv, Scalars
<1>2. StreamInv /\ srvLast \in Nat
  BY DEF HInv, Scalars
<1>3. f \in Frames /\ f \in HeaderFrames
  BY <1>1, <1>2, OldestFrame, FrameTypes
<1>4. s \in Streams
  BY <1>3 DEF HeaderFrames
<1>5. /\ st \in [Streams -> StreamType] /\ srv \in [Streams -> ServerType]
      /\ r \in StreamType /\ v \in ServerType /\ Good(s, r, v, srvLast, events)
      /\ r.opened /\ ~r.closed
  BY <1>1, <1>2, <1>4 DEF StreamInv, Live
<1>6. \A t : Carried(f, t) = 0
  BY <1>1 DEF Carried
<1>7. /\ OnItsWay(Tail(s2c), s, r, v, events)
      /\ HonestIn(events) /\ Ends(f, s) => v.ended /\ r.received = v.sent
  BY <1>1, <1>2, <1>4, <1>5, <1>6, NothingCarried
<1>8. \/ ResetStream(s, r, "malformed")
      \/ f.end /\ LengthAgrees(r) /\ st' = [st EXCEPT ![s] = q] /\ srv' = srv
  BY DEF OnTrailers, EndRecv
<1>9. Ends(f, s) <=> f.end
  BY <1>1 DEF Ends
<1> HIDE DEF f
<1>10. /\ Reading(r) /\ Finished(r) /\ Refusable(s, r, v, srvLast) /\ Queueing(s, r, v, events)
       /\ Waiting(r) /\ Silenced(r, v) /\ Begun(r, v, events)
  BY <1>5 DEF Good
<1>11. CASE ResetStream(s, r, "malformed")
  <2>1. Core(s, r, v, srvLast, events) /\ "malformed" \in Failures \ {"retryable"}
    BY <1>5, GoodIsCore DEF Failures
  <2>2. /\ OnlyAt(s) /\ Good(s, st'[s], srv'[s], srvLast, events)
        /\ \A w : OnItsWay(w, s, st'[s], srv'[s], events)
    BY <1>1, <1>2, <1>4, <1>5, <1>10, <1>11, <2>1, ResetStreamKeeps
  <2>3. StreamInv'
    BY <1>1, <1>2, <1>4, <1>6, <2>2, TakenStep DEF f
  <2> QED
    BY <1>1, <2>3 DEF HInv
<1>12. CASE f.end /\ LengthAgrees(r) /\ st' = [st EXCEPT ![s] = q] /\ srv' = srv
  <2>1. r.error = "none" /\ r.head = "ok"
    BY <1>1, <1>5, <1>10 DEF Waiting
  <2>2. q \in StreamType /\ Good(s, q, v, srvLast, events) /\ OnItsWay(Tail(s2c), s, q, v, events)
    BY <1>1, <1>4, <1>5, <1>7, <1>9, <1>10, <1>12, <2>1, EndsReceiving
  <2> HIDE DEF q
  <2>3. st'[s] = q /\ srv'[s] = v /\ OnlyAt(s)
    BY <1>1, <1>4, <1>5, <1>12, <2>2 DEF OnlyAt
  <2>4. StreamInv'
    BY <1>1, <1>2, <1>4, <1>6, <2>2, <2>3, TakenStep DEF f
  <2> QED
    BY <1>1, <2>4 DEF HInv
<1> QED
  BY <1>8, <1>11, <1>12

\* RST_STREAM from the server; a refusal is handed back for a retry.
LEMMA RstStreamKeeps ==
  ASSUME HInv, OnRstStream
  PROVE  HInv'
PROOF
<1> DEFINE f == Head(s2c)
           s == f.stream
           r == st[s]
           v == srv[s]
           e == IF f.refused /\ ~r.responded THEN "retryable" ELSE "peerReset"
<1>1. /\ s2c # <<>> /\ f.type = "rst" /\ s2c' = Tail(s2c) /\ Live(s)
      /\ srvLast' = srvLast /\ events' = events /\ Scalars' /\ srv' = srv
      /\ st' = [st EXCEPT ![s] = FailStream(r, e)]
  BY DEF OnRstStream, Receives, HInv, Scalars, serverVars
<1>2. StreamInv /\ srvLast \in Nat
  BY DEF HInv, Scalars
<1>3. f \in Frames /\ f \in RstFrames /\ Noted(f, srv, srvLast)
  BY <1>1, <1>2, OldestFrame, FrameTypes
<1>4. s \in Streams
  BY <1>3 DEF RstFrames
<1>5. /\ st \in [Streams -> StreamType] /\ srv \in [Streams -> ServerType]
      /\ r \in StreamType /\ v \in ServerType /\ Good(s, r, v, srvLast, events)
  BY <1>2, <1>4 DEF StreamInv
<1>6. \A t : Carried(f, t) = 0
  BY <1>1 DEF Carried
<1>7. e \in Failures /\ (e = "retryable" => ~v.processed /\ (v.rst \/ s > srvLast))
  BY <1>1, <1>3 DEF Noted, Failures
<1> HIDE DEF f, e
<1>8. Core(s, r, v, srvLast, events) /\ Begun(r, v, events) /\ (v.gotRst => r.rstSent) /\ ~v.late
  BY <1>5, GoodIsCore DEF Good, Silenced
<1>9. SrvAgree(v, v, {"clientEnded", "gotRst", "late", "headers", "left", "win"})
  BY DEF SrvAgree
<1>10. /\ FailStream(r, e) \in StreamType /\ Good(s, FailStream(r, e), v, srvLast, events)
       /\ OnItsWay(Tail(s2c), s, FailStream(r, e), v, events)
  BY <1>2, <1>4, <1>5, <1>7, <1>8, <1>9, FailKeeps
<1>11. st'[s] = FailStream(r, e) /\ srv'[s] = v /\ OnlyAt(s)
  BY <1>1, <1>4, <1>5, <1>10 DEF OnlyAt
<1>12. StreamInv'
  BY <1>1, <1>2, <1>4, <1>6, <1>10, <1>11, TakenStep DEF f
<1> QED
  BY <1>1, <1>12 DEF HInv

\* A frame that changes no stream.
LEMMA DroppedFrame ==
  ASSUME StreamInv, s2c # <<>>, \A t : Carried(Head(s2c), t) = 0, s2c' = Tail(s2c),
         UNCHANGED <<st, srv, srvLast, events>>
  PROVE  StreamInv'
PROOF
<1>1. 1 \in Streams
  BY Http2Assumption DEF Streams
<1>2. OnlyAt(1) /\ st'[1] = st[1] /\ srv'[1] = srv[1] /\ Good(1, st[1], srv[1], srvLast, events)
  BY <1>1 DEF OnlyAt, StreamInv
<1>3. OnItsWay(Tail(s2c), 1, st[1], srv[1], events)
  BY <1>1, NothingCarried
<1> QED
  BY <1>1, <1>2, <1>3, TakenStep

\* GOAWAY: streams beyond the promise and without a response are handed back,
\* and the server has started on none of them.
LEMMA GoawayKeeps ==
  ASSUME HInv, OnGoaway
  PROVE  HInv'
PROOF
<1> DEFINE f == Head(s2c)
<1>1. /\ s2c # <<>> /\ f.type = "goaway" /\ s2c' = Tail(s2c) /\ goaway' = f.last
      /\ st' = [s \in Streams |-> IF Orphaned(s, f.last) THEN FailStream(st[s], "retryable") ELSE st[s]]
      /\ UNCHANGED <<events, nextStream, recvWin, consumed, peerMax, fatal, srv, srvWin, srvLast>>
  BY DEF OnGoaway, Receives, serverVars
<1>2. StreamInv /\ srvLast \in Nat
  BY DEF HInv, Scalars
<1>3. f \in Frames /\ f \in GoawayFrames /\ Noted(f, srv, srvLast) /\ s2c \in Seq(Frames)
  BY <1>1, <1>2, OldestFrame, FrameTypes
<1>4. f.last \in 0..MaxStreams /\ srvLast <= f.last
  BY <1>1, <1>3 DEF GoawayFrames, Noted
<1>5. Scalars'
  <2>1. MaxStreams \in Nat
    BY Http2Assumption
  <2>2. f.last \in 0..NoGoaway
    BY <1>4, <2>1 DEF NoGoaway
  <2> QED
    BY <1>1, <2>2 DEF HInv, Scalars
<1>6. \A t : Carried(f, t) = 0
  BY <1>1 DEF Carried
<1>7. ASSUME NEW s \in Streams
      PROVE  /\ st'[s] \in StreamType
             /\ Good(s, st'[s], srv[s], srvLast, events)
             /\ OnItsWay(Tail(s2c), s, st'[s], srv[s], events)
  <2>1. /\ st[s] \in StreamType /\ srv[s] \in ServerType
        /\ Good(s, st[s], srv[s], srvLast, events)
    BY <1>2 DEF StreamInv
  <2>2. OnItsWay(Tail(s2c), s, st[s], srv[s], events)
    BY <1>1, <1>2, <1>6, NothingCarried
  <2>3. CASE Orphaned(s, f.last)
    <3>1. st'[s] = FailStream(st[s], "retryable")
      BY <1>1, <2>3
    <3>2. s \in Nat /\ s > f.last
      BY <2>3 DEF Orphaned, Streams
    <3>3. s > srvLast
      BY <1>2, <1>4, <3>2
    <3>4. ~srv[s].processed
      BY <1>2, <2>1, <3>2, <3>3 DEF Good, Refusable
    <3>5. /\ Core(s, st[s], srv[s], srvLast, events) /\ Begun(st[s], srv[s], events)
          /\ (srv[s].gotRst => st[s].rstSent) /\ ~srv[s].late /\ "retryable" \in Failures
      BY <2>1, GoodIsCore DEF Good, Silenced, Failures
    <3>6. SrvAgree(srv[s], srv[s], {"clientEnded", "gotRst", "late", "headers", "left", "win"})
      BY DEF SrvAgree
    <3> QED
      BY <1>2, <2>1, <3>1, <3>3, <3>4, <3>5, <3>6, FailKeeps
  <2>4. CASE ~Orphaned(s, f.last)
    BY <1>1, <2>1, <2>2, <2>4
  <2> QED
    BY <2>3, <2>4
<1>8. st' \in [Streams -> StreamType]
  BY <1>1, <1>7
<1>9. /\ s2c' \in Seq(Frames)
      /\ \A i \in 1..Len(s2c') : s2c'[i] = s2c[i + 1] /\ i + 1 \in 1..Len(s2c)
  BY <1>1, <1>3, FramesLeft
<1>10. \A i \in 1..Len(s2c') : Noted(s2c'[i], srv, srvLast)
  BY <1>2, <1>9 DEF StreamInv
<1> HIDE DEF f
<1>11. StreamInv'
  BY <1>1, <1>2, <1>7, <1>8, <1>9, <1>10 DEF StreamInv
<1> QED
  BY <1>5, <1>11 DEF HInv

\* SETTINGS, a frame for a stream that is gone, and the end of the transport.
LEMMA OtherFramesKeep ==
  ASSUME HInv, OnSettings \/ OnUnknownStream \/ OnDataOverrun \/ OnEof \/ Close
  PROVE  HInv'
PROOF
<1>1. StreamInv /\ Scalars /\ srvLast \in Nat
  BY DEF HInv, Scalars
<1>2. CASE OnSettings
  <2>1. /\ s2c # <<>> /\ Head(s2c).type = "settings" /\ s2c' = Tail(s2c)
        /\ UNCHANGED <<st, srv, srvLast, events>> /\ peerMax' = Head(s2c).limit
    BY <1>2 DEF OnSettings, Receives, serverVars
  <2>2. Head(s2c) \in SettingsFrames
    BY <1>1, <2>1, OldestFrame, FrameTypes
  <2>3. peerMax' \in PeerLimits
    BY <2>1, <2>2 DEF SettingsFrames
  <2>4. StreamInv'
    BY <1>1, <2>1, DroppedFrame DEF Carried
  <2> QED
    BY <1>1, <1>2, <2>3, <2>4 DEF HInv, Scalars, OnSettings, serverVars
<1>3. CASE OnUnknownStream
  <2>1. /\ s2c # <<>> /\ Head(s2c).type \in {"headers", "rst"} /\ s2c' = Tail(s2c)
        /\ UNCHANGED <<st, srv, srvLast, events>>
    BY <1>3 DEF OnUnknownStream, Receives, clientVars, serverVars
  <2>2. StreamInv'
    BY <1>1, <2>1, DroppedFrame DEF Carried
  <2> QED
    BY <1>1, <1>3, <2>2 DEF HInv, Scalars, OnUnknownStream, clientVars, serverVars
<1>4. CASE OnDataOverrun
  <2>1. /\ s2c # <<>> /\ Head(s2c).type = "data" /\ Shutdown("overrun")
        /\ UNCHANGED <<srv, srvLast, events>>
    BY <1>4 DEF OnDataOverrun, Receives, serverVars
  <2>2. Head(s2c) \in DataFrames
    BY <1>1, <2>1, OldestFrame, FrameTypes
  <2>3. recvWin' \in Int
    <3>1. Head(s2c).len \in Nat /\ Head(s2c).pad \in Nat /\ recvWin \in Int
      BY <1>1, <2>2 DEF DataFrames, Scalars
    <3> QED
      BY <1>4, <3>1 DEF OnDataOverrun
  <2>4. StreamInv' /\ fatal' \in {"none"} \union Failures
    BY <1>1, <2>1, ShutdownKeeps DEF Failures
  <2> QED
    BY <1>1, <1>4, <2>3, <2>4 DEF HInv, Scalars, OnDataOverrun, serverVars
<1>5. CASE OnEof
  <2>1. PICK e \in {"ended", "truncated"} : Shutdown(e)
    BY <1>5 DEF OnEof
  <2>2. UNCHANGED <<srv, srvLast, events>>
    BY <1>5 DEF OnEof, serverVars
  <2>3. StreamInv' /\ fatal' \in {"none"} \union Failures
    BY <1>1, <2>1, <2>2, ShutdownKeeps DEF Failures
  <2> QED
    BY <1>1, <1>5, <2>3 DEF HInv, Scalars, OnEof, serverVars
<1>6. CASE Close
  <2>1. Shutdown("closed") /\ UNCHANGED <<srv, srvLast, events>>
    BY <1>6 DEF Close, serverVars
  <2>2. StreamInv' /\ fatal' \in {"none"} \union Failures
    BY <1>1, <2>1, ShutdownKeeps DEF Failures
  <2> QED
    BY <1>1, <1>6, <2>2 DEF HInv, Scalars, Close, serverVars
<1> QED
  BY <1>2, <1>3, <1>4, <1>5, <1>6

\* The stream object after its window was charged and its bytes were counted.
Charged(x, flow, pad, len) ==
  [(IF pad > 0 THEN ReplenishStream([x EXCEPT !.recvWindow = @ - flow], pad)
               ELSE [x EXCEPT !.recvWindow = @ - flow]) EXCEPT !.received = @ + len]

\* ... and after they were queued for the reader.
Stocked(r, c) ==
  IF c.len > 0 THEN WakePull([r EXCEPT !.queue = Append(@, c)]) ELSE r

\* Too many bytes, and what is done about them or about too few.
TooLong(r) == r.declared # NoLength /\ r.received > r.declared
DataHandled(s, end, r, full, paid) ==
  IF TooLong(r) \/ (end /\ ~LengthAgrees(full))
  THEN /\ st' = [st EXCEPT ![s] =
                   FailStream([(IF TooLong(r) THEN r ELSE full) EXCEPT !.rstSent = TRUE], "malformed")]
       /\ srv' = IF r.rstSent THEN paid ELSE PeerGetsRst(paid, s)
  ELSE /\ st' = [st EXCEPT ![s] =
                   IF end THEN MaybeClose(WakePull([full EXCEPT !.recvEnded = TRUE])) ELSE full]
       /\ srv' = paid

\* A DATA frame is charged to the stream window and its bytes are counted as received.
LEMMA Charges ==
  ASSUME NEW x \in StreamType, NEW flow \in Nat, NEW pad \in Nat, NEW len \in Nat
  PROVE  LET r == Charged(x, flow, pad, len) IN
         /\ r \in StreamType /\ r.received = x.received + len
         /\ Agree(x, r, {"recvWindow", "recvConsumed", "received"})
PROOF
<1> DEFINE a == [x EXCEPT !.recvWindow = @ - flow]
           p == IF pad > 0 THEN ReplenishStream(a, pad) ELSE a
           r == [p EXCEPT !.received = @ + len]
<1>1. a \in StreamType /\ Agree(x, a, {"recvWindow"})
  <2>1. x.recvWindow - flow \in Int
    BY DEF StreamType
  <2> QED
    BY <2>1 DEF StreamType, Agree, Fields
<1> HIDE DEF a
<1>2. p \in StreamType /\ Agree(a, p, {"recvWindow", "recvConsumed"})
  BY <1>1, Replenishes DEF Agree
<1> HIDE DEF p
<1>3. p.received = x.received /\ p.received + len \in Nat
  BY <1>1, <1>2 DEF Agree, Fields, StreamType
<1>4. r \in StreamType /\ r.received = x.received + len /\ Agree(p, r, {"received"})
  BY <1>2, <1>3 DEF StreamType, Agree, Fields
<1>5. Charged(x, flow, pad, len) = r
  BY DEF Charged, p, a
<1> HIDE DEF r
<1> QED
  BY <1>1, <1>2, <1>4, <1>5 DEF Agree

\* A chunk that is queued wakes a pull that waits for it; an empty one is dropped.
LEMMA Stocks ==
  ASSUME NEW r \in StreamType, NEW c \in Chunks
  PROVE  LET q == Stocked(r, c) IN
         /\ q \in StreamType
         /\ q.queue = IF c.len > 0 THEN Append(r.queue, c) ELSE r.queue
         /\ q.pull = "none" <=> r.pull = "none"
         /\ c.len > 0 => q.pull # "blocked"
         /\ ~(c.len > 0) => q.pull = r.pull
         /\ Agree(r, q, {"queue", "pull"})
PROOF
<1>1. CASE c.len > 0
  <2> DEFINE x == Append(r.queue, c)
             a == [r EXCEPT !.queue = x]
  <2>1. x \in Seq(Chunks)
    BY AppendProperties DEF StreamType
  <2> HIDE DEF x
  <2>2. a \in StreamType /\ a.queue = x /\ Agree(r, a, {"queue"})
    BY <2>1 DEF StreamType, Agree, Fields
  <2>3. Stocked(r, c) = WakePull(a)
    BY <1>1 DEF Stocked, x
  <2> HIDE DEF a
  <2>4. /\ WakePull(a) \in StreamType /\ WakePull(a).pull # "blocked"
        /\ WakePull(a).pull = "none" <=> a.pull = "none"
        /\ Agree(a, WakePull(a), {"pull"})
    BY <2>2, Wakes
  <2>5. a.pull = r.pull /\ WakePull(a).queue = x
    BY <2>2, <2>4 DEF Agree, Fields
  <2>6. Agree(r, WakePull(a), {"queue", "pull"})
    BY <2>2, <2>4 DEF Agree
  <2> QED
    BY <1>1, <2>3, <2>4, <2>5, <2>6 DEF x
<1>2. CASE ~(c.len > 0)
  BY <1>2 DEF Stocked, Agree
<1> QED
  BY <1>1, <1>2

\* The bytes of an arriving frame are the next of its stream.
LEMMA BytesArrive ==
  ASSUME StreamInv, s2c # <<>>, NEW s \in Streams, Head(s2c).type = "data", Head(s2c).stream = s
  PROVE  LET f == Head(s2c) IN
         HonestIn(events) /\ ~st[s].closed =>
           /\ Wire(Tail(s2c), s, st[s].received + f.len, srv[s].sent, srv[s].ended)
           /\ f.from = st[s].received /\ st[s].received + f.len <= srv[s].sent
           /\ f.end => srv[s].ended /\ st[s].received + f.len = srv[s].sent
PROOF
<1> DEFINE f == Head(s2c)
<1>1. s2c \in Seq(Frames) /\ OnItsWay(s2c, s, st[s], srv[s], events)
  BY DEF StreamInv
<1>2. Carried(f, s) = f.len /\ (Ends(f, s) <=> f.end)
  BY DEF Carried, Ends
<1>3. ASSUME Wire(s2c, s, st[s].received, srv[s].sent, srv[s].ended)
      PROVE  /\ Wire(Tail(s2c), s, st[s].received + f.len, srv[s].sent, srv[s].ended)
             /\ f.from = st[s].received /\ st[s].received + f.len <= srv[s].sent
             /\ f.end => srv[s].ended /\ st[s].received + f.len = srv[s].sent
  BY <1>1, <1>2, <1>3, WireTail
<1> QED
  BY <1>1, <1>3 DEF OnItsWay

\* Queued at the end, they continue what the stream holds.
LEMMA StockedInOrder ==
  ASSUME StreamInv, NEW s \in Streams, ~st[s].closed, NEW c \in Chunks, NEW r \in StreamType,
         r.queue = st[s].queue, r.delivered = st[s].delivered, r.error = st[s].error,
         r.received = st[s].received + c.len,
         HonestIn(events) => c.stream = s /\ c.from = st[s].received /\ r.received <= srv[s].sent
  PROVE  Queueing(s, Stocked(r, c), srv[s], events)
PROOF
<1> DEFINE x == st[s]
           q == Stocked(r, c)
<1>1. x \in StreamType /\ Queueing(s, x, srv[s], events) /\ x.error = "none"
  BY DEF StreamInv, Good, Waiting
<1>2. PICK total \in Nat : /\ Filled(x.queue, s, x.delivered, total, events)
                           /\ HonestIn(events) => total <= srv[s].sent
                           /\ x.error = "none" => total = x.received
  BY <1>1 DEF Queueing
<1>3. /\ q.queue = IF c.len > 0 THEN Append(r.queue, c) ELSE r.queue
      /\ Agree(r, q, {"queue", "pull"})
  BY Stocks
<1>4. q.delivered = r.delivered /\ q.received = r.received /\ q.error = r.error
  BY <1>3 DEF Agree, Fields
<1>5. x.received \in Nat /\ c.len \in Nat /\ x.queue \in Seq(Chunks) /\ total = x.received
  BY <1>1, <1>2 DEF StreamType, Chunks
<1> HIDE DEF q, x
<1>6. Filled(q.queue, s, q.delivered, total + c.len, events)
  <2>1. CASE c.len > 0
    BY <1>2, <1>3, <1>4, <1>5, <2>1, FilledAppend DEF x
  <2>2. CASE ~(c.len > 0)
    <3>1. total + c.len = total
      BY <1>5, <2>2
    <3> QED
      BY <1>2, <1>3, <1>4, <2>2, <3>1 DEF x
  <2> QED
    BY <2>1, <2>2
<1>7. total + c.len \in Nat /\ total + c.len = q.received
  BY <1>4, <1>5 DEF x
<1> QED
  BY <1>4, <1>6, <1>7 DEF Queueing, q

\* _onData on a live stream that has a head: the bytes are queued, or the
\* stream is reset because they are too many or too few.
LEMMA DataDelivered ==
  ASSUME StreamInv, srvLast \in Nat, s2c # <<>>, NEW s \in Streams,
         Head(s2c) \in DataFrames, Head(s2c).stream = s,
         Live(s), st[s].responded, s2c' = Tail(s2c), srvLast' = srvLast, events' = events,
         NEW flow \in Nat, NEW c \in Chunks, NEW r, NEW full, NEW paid,
         r = Charged(st[s], flow, Head(s2c).pad, Head(s2c).len),
         c = [stream |-> s, from |-> Head(s2c).from, len |-> Head(s2c).len],
         full = Stocked(r, c), paid = ReplenishPeer(srv, s, st[s], Head(s2c).pad),
         DataHandled(s, Head(s2c).end, r, full, paid)
  PROVE  StreamInv'
PROOF
<1> DEFINE f == Head(s2c)
           x == st[s]
           v == srv[s]
           w == paid[s]
<1>1. /\ f.len \in Nat /\ f.pad \in Nat /\ f.end \in BOOLEAN /\ f.type = "data"
      /\ c.len = f.len /\ c.from = f.from /\ c.stream = s
  BY DEF DataFrames
<1>2. /\ st \in [Streams -> StreamType] /\ srv \in [Streams -> ServerType]
      /\ x \in StreamType /\ v \in ServerType /\ Good(s, x, v, srvLast, events)
      /\ ~x.closed /\ x.opened
  BY DEF StreamInv, Live
<1>3. /\ r \in StreamType /\ r.received = x.received + f.len
      /\ Agree(x, r, {"recvWindow", "recvConsumed", "received"})
  <2> DEFINE k == Charged(x, flow, f.pad, f.len)
  <2>1. /\ k \in StreamType /\ k.received = x.received + f.len
        /\ Agree(x, k, {"recvWindow", "recvConsumed", "received"})
    BY ONLY <1>1, <1>2, flow \in Nat, Charges
  <2>2. r = k
    OBVIOUS
  <2> HIDE DEF k, f
  <2> QED
    BY ONLY <2>1, <2>2
<1>4. /\ full \in StreamType
      /\ full.pull = "none" <=> r.pull = "none"
      /\ c.len > 0 => full.pull # "blocked"
      /\ ~(c.len > 0) => full.pull = r.pull /\ full.queue = r.queue
      /\ Agree(r, full, {"queue", "pull"})
  BY <1>3, Stocks
<1>5. /\ paid \in [Streams -> ServerType]
      /\ \A t \in Streams \ {s} : paid[t] = srv[t]
      /\ ~w.late /\ SrvAgree(v, w, {"late", "win"})
  BY <1>1, <1>2, CreditKeeps DEF Good
<1>6. HonestIn(events) =>
        /\ Wire(Tail(s2c), s, r.received, v.sent, v.ended)
        /\ c.from = x.received /\ r.received <= v.sent
        /\ f.end => v.ended /\ r.received = v.sent
  BY <1>1, <1>2, <1>3, BytesArrive
<1>7. \A t \in Streams \ {s} : Carried(f, t) = 0
  BY DEF Carried
<1>8. f.end \in BOOLEAN /\ c.len = f.len
  BY <1>1
<1> HIDE DEF f
<1>9. /\ r.pull = x.pull /\ r.head = x.head /\ r.outcome = x.outcome /\ r.opened = x.opened
      /\ r.responded = x.responded /\ r.recvEnded = x.recvEnded /\ r.closed = x.closed
      /\ r.exempt = x.exempt /\ r.declared = x.declared /\ r.delivered = x.delivered
      /\ r.queue = x.queue /\ r.error = x.error /\ r.rstSent = x.rstSent
  BY <1>3 DEF Agree, Fields
<1>10. /\ full.head = x.head /\ full.outcome = x.outcome /\ full.opened = x.opened
       /\ full.responded = x.responded /\ full.recvEnded = x.recvEnded /\ full.closed = x.closed
       /\ full.exempt = x.exempt /\ full.declared = x.declared /\ full.delivered = x.delivered
       /\ full.error = x.error /\ full.rstSent = x.rstSent /\ full.received = r.received
  BY ONLY <1>4, <1>9 DEF Agree, Fields
<1>11. /\ w.processed = v.processed /\ w.rst = v.rst /\ w.sent = v.sent /\ w.ended = v.ended
       /\ w.gotRst = v.gotRst /\ w.open = v.open
  BY <1>5 DEF SrvAgree, SrvFields
<1>12. /\ Reading(x) /\ Finished(x) /\ Refusable(s, x, v, srvLast) /\ Queueing(s, x, v, events)
       /\ Waiting(x) /\ Silenced(x, v) /\ Begun(x, v, events) /\ Whole(x, v, events)
  BY <1>2 DEF Good
<1>13. x.error = "none" /\ x.head = "ok"
  BY <1>2, <1>12 DEF Waiting
<1>14. Queueing(s, full, v, events)
  BY <1>1, <1>2, <1>3, <1>6, <1>9, StockedInOrder
<1>15. /\ Reading(full) /\ Finished(full) /\ Refusable(s, full, v, srvLast) /\ Begun(full, v, events)
       /\ Silenced(full, v)
  BY ONLY <1>2, <1>4, <1>9, <1>10, <1>12 DEF Reading, Finished, Refusable, Begun, Silenced
<1>16. CASE TooLong(r) \/ (f.end /\ ~LengthAgrees(full))
  <2> DEFINE y == IF TooLong(r) THEN r ELSE full
  <2>1. y \in StreamType /\ y.rstSent = x.rstSent /\ r.rstSent = y.rstSent
    BY <1>3, <1>4, <1>9, <1>10
  <2>2. Core(s, r, v, srvLast, events) /\ Begun(r, v, events)
    BY <1>2, <1>9, <1>12 DEF Core, Reading, Finished, Refusable, Stored, Queueing, Begun
  <2>3. Core(s, full, v, srvLast, events)
    BY <1>14, <1>15 DEF Core, Stored, Queueing
  <2>4. Core(s, y, v, srvLast, events) /\ Begun(y, v, events)
    BY <1>15, <2>2, <2>3
  <2>5. /\ st' = [st EXCEPT ![s] = FailStream([y EXCEPT !.rstSent = TRUE], "malformed")]
        /\ srv' = IF y.rstSent THEN paid ELSE PeerGetsRst(paid, s)
    BY <1>16, <2>1 DEF f, DataHandled
  <2> HIDE DEF y
  <2>6. "malformed" \in Failures \ {"retryable"}
    BY DEF Failures
  <2>7. /\ OnlyAt(s) /\ Good(s, st'[s], srv'[s], srvLast, events)
        /\ \A q : OnItsWay(q, s, st'[s], srv'[s], events)
    BY <1>5, <2>1, <2>4, <2>5, <2>6, ResetKeeps
  <2> QED
    BY <1>7, <2>7, TakenStep DEF f
<1>17. CASE ~(TooLong(r) \/ (f.end /\ ~LengthAgrees(full)))
  <2> DEFINE q == IF f.end THEN MaybeClose(WakePull([full EXCEPT !.recvEnded = TRUE])) ELSE full
  <2>1. st' = [st EXCEPT ![s] = q] /\ srv' = paid
    BY <1>17 DEF f, DataHandled
  <2>2. OnItsWay(Tail(s2c), s, full, w, events)
    BY <1>6, <1>10, <1>11 DEF OnItsWay
  <2>3. /\ Refusable(s, full, w, srvLast) /\ Queueing(s, full, w, events)
        /\ Begun(full, w, events) /\ Silenced(full, w)
    BY <1>5, <1>11, <1>14, <1>15 DEF Refusable, Queueing, Begun, Silenced
  <2>4. q \in StreamType /\ Good(s, q, w, srvLast, events) /\ OnItsWay(Tail(s2c), s, q, w, events)
    <3>1. CASE f.end
      <4>1. LengthAgrees(full) /\ (HonestIn(events) => w.ended /\ full.received = w.sent)
        BY <1>6, <1>10, <1>11, <1>17, <3>1
      <4>2. w \in ServerType
        BY <1>5
      <4>3. full.responded /\ ~full.closed /\ full.error = "none" /\ full.head = "ok"
        BY <1>2, <1>10, <1>13
      <4> QED
        BY <1>4, <1>15, <2>2, <2>3, <3>1, <4>1, <4>2, <4>3, EndsReceiving
    <3>2. CASE ~f.end
      <4>1. Waiting(full)
        BY <1>2, <1>4, <1>9, <1>10, <1>12, <1>13, ZenonT(60) DEF Waiting
      <4>2. ASSUME full.recvEnded PROVE LengthAgrees(full)
        <5>1. x.recvEnded /\ LengthAgrees(x)
          BY <1>10, <1>12, <1>13, <4>2 DEF Whole
        <5>2. CASE x.exempt \/ x.declared = NoLength
          BY <1>10, <5>2 DEF LengthAgrees
        <5>3. CASE ~(x.exempt \/ x.declared = NoLength)
          <6>1. x.declared = x.received /\ x.received \in Nat /\ c.len \in Nat
            BY <1>1, <1>2, <5>1, <5>3 DEF LengthAgrees, StreamType
          <6>2. r.declared # NoLength /\ ~(r.received > r.declared)
            BY <1>9, <1>17, <5>3 DEF TooLong
          <6>3. r.received = x.received + c.len
            BY <1>1, <1>3 DEF f
          <6>4. full.received = full.declared
            BY <1>9, <1>10, <6>1, <6>2, <6>3
          <6> QED
            BY <6>4 DEF LengthAgrees
        <5> QED
          BY <5>2, <5>3
      <4>3. ASSUME full.recvEnded, HonestIn(events) PROVE w.ended /\ full.received = w.sent
        <5>1. x.recvEnded /\ v.ended /\ x.received = v.sent
          BY <1>10, <1>12, <1>13, <4>3 DEF Whole
        <5>2. r.received = x.received + c.len /\ r.received <= v.sent
          BY <1>1, <1>3, <1>6, <4>3 DEF f
        <5>3. x.received \in Nat /\ c.len \in Nat
          BY <1>1, <1>2 DEF StreamType
        <5>4. r.received = v.sent
          BY <5>1, <5>2, <5>3
        <5> QED
          BY <1>10, <1>11, <5>1, <5>4
      <4>4. Whole(full, w, events)
        BY <4>2, <4>3 DEF Whole
      <4> QED
        BY <1>4, <1>15, <2>2, <2>3, <3>2, <4>1, <4>4 DEF Good
    <3> QED
      BY <1>8, <3>1, <3>2
  <2> HIDE DEF q
  <2>5. st'[s] = q /\ srv'[s] = w /\ OnlyAt(s)
    BY <1>2, <1>5, <1>11, <2>1, <2>4 DEF OnlyAt
  <2> QED
    BY <1>7, <2>4, <2>5, TakenStep DEF f
<1> QED
  BY <1>16, <1>17

\* DATA for a stream that is no longer, or not yet, in the map.
LEMMA StrayData ==
  ASSUME StreamInv, s2c # <<>>, NEW s \in Streams, Head(s2c) \in DataFrames, Head(s2c).stream = s,
         ~Live(s), s2c' = Tail(s2c), UNCHANGED <<st, srv, srvLast, events>>
  PROVE  StreamInv'
PROOF
<1> DEFINE r == st[s]
           v == srv[s]
           len == Head(s2c).len
<1>1. /\ Head(s2c).type = "data" /\ len \in Nat /\ r \in StreamType
      /\ Good(s, r, v, srvLast, events)
  BY DEF DataFrames, StreamInv
<1>2. ASSUME HonestIn(events), ~r.closed
      PROVE  Wire(Tail(s2c), s, r.received, v.sent, v.ended)
  <2>1. v.sent = 0
    BY <1>1, <1>2 DEF Good, Begun, Live
  <2>2. Wire(Tail(s2c), s, r.received + len, v.sent, v.ended) /\ r.received + len <= v.sent
    BY <1>1, <1>2, BytesArrive
  <2>3. r.received \in Nat
    BY <1>1 DEF StreamType
  <2>4. r.received + len = r.received
    BY <1>1, <2>1, <2>2, <2>3
  <2> QED
    BY <2>2, <2>4
<1>3. OnItsWay(Tail(s2c), s, r, v, events)
  BY <1>2 DEF OnItsWay
<1>4. OnlyAt(s) /\ st'[s] = r /\ srv'[s] = v
  BY DEF OnlyAt, StreamInv
<1>5. \A t \in Streams \ {s} : Carried(Head(s2c), t) = 0
  BY DEF Carried
<1> QED
  BY <1>1, <1>3, <1>4, <1>5, TakenStep

\* _onData.
LEMMA DataKeeps ==
  ASSUME HInv, OnData
  PROVE  HInv'
PROOF
<1> DEFINE f == Head(s2c)
           s == f.stream
           flow == f.len + f.pad
           x == st[s]
           c == [stream |-> s, from |-> f.from, len |-> f.len]
           r == Charged(x, flow, f.pad, f.len)
           full == Stocked(r, c)
           paid == ReplenishPeer(srv, s, x, f.pad)
<1>1. /\ s2c # <<>> /\ f.type = "data" /\ s2c' = Tail(s2c)
      /\ UNCHANGED <<events, nextStream, goaway, peerMax, fatal, srvLast>>
  BY DEF OnData, Receives
<1>2. StreamInv /\ Scalars /\ srvLast \in Nat
  BY DEF HInv, Scalars
<1>3. f \in Frames /\ f \in DataFrames
  BY <1>1, <1>2, OldestFrame, FrameTypes
<1>4. s \in Streams /\ f.len \in Nat /\ f.pad \in Nat /\ f.from \in Nat
  BY <1>3 DEF DataFrames
<1>5. flow \in Nat /\ 0 \in Nat
  BY <1>4
<1>6. c \in Chunks
  BY <1>4 DEF Chunks
<1>7. \/ /\ ~Live(s)
         /\ ConnCredit(flow, flow)
         /\ UNCHANGED <<st, srv>>
      \/ /\ Live(s)
         /\ ConnCredit(flow, 0)
         /\ ResetStream(s, [x EXCEPT !.recvWindow = IF x.responded THEN @ - flow ELSE @], "protocol")
      \/ /\ Live(s) /\ x.responded
         /\ ConnCredit(flow, f.pad)
         /\ DataHandled(s, f.end, r, full, paid)
  BY DEF OnData, StrayCredited, Charged, Stocked, DataHandled, TooLong
<1> HIDE DEF flow
<1>8. Scalars'
  <2>1. PICK given \in Nat : ConnCredit(flow, given)
    BY <1>4, <1>5, <1>7
  <2>2. recvWin' \in Int /\ consumed' \in Nat /\ srvWin' \in Int
    BY <1>2, <1>5, <2>1, CreditTyped
  <2> QED
    BY <1>1, <1>2, <2>2 DEF Scalars
<1>9. CASE ~Live(s) /\ UNCHANGED <<st, srv>>
  <2>1. StreamInv'
    BY <1>1, <1>2, <1>3, <1>4, <1>9, StrayData
  <2> QED
    BY <1>8, <2>1 DEF HInv
<1>10. CASE /\ Live(s)
            /\ ResetStream(s, [x EXCEPT !.recvWindow = IF x.responded THEN @ - flow ELSE @], "protocol")
  <2> DEFINE y == [x EXCEPT !.recvWindow = IF x.responded THEN @ - flow ELSE @]
  <2>1. x \in StreamType /\ Good(s, x, srv[s], srvLast, events)
    BY <1>2, <1>4 DEF StreamInv
  <2>2. y \in StreamType /\ Agree(x, y, {"recvWindow"})
    <3>1. (IF x.responded THEN x.recvWindow - flow ELSE x.recvWindow) \in Int
      BY <1>5, <2>1 DEF StreamType
    <3> QED
      BY <2>1, <3>1 DEF StreamType, Agree, Fields
  <2>3. ResetStream(s, y, "protocol") /\ "protocol" \in Failures \ {"retryable"}
    BY <1>10 DEF Failures
  <2> HIDE DEF y, f
  <2>4. /\ y.pull = x.pull /\ y.head = x.head /\ y.outcome = x.outcome
        /\ y.responded = x.responded /\ y.recvEnded = x.recvEnded /\ y.opened = x.opened
        /\ y.exempt = x.exempt /\ y.declared = x.declared /\ y.delivered = x.delivered
        /\ y.queue = x.queue /\ y.rstSent = x.rstSent
    BY <2>2 DEF Agree, Fields
  <2>5. Core(s, y, srv[s], srvLast, events) /\ Begun(y, srv[s], events)
    BY <2>1, <2>4, GoodIsCore DEF Good, Core, Reading, Finished, Refusable, Stored, Begun
  <2>6. /\ OnlyAt(s) /\ Good(s, st'[s], srv'[s], srvLast, events)
        /\ \A q : OnItsWay(q, s, st'[s], srv'[s], events)
    BY <1>1, <1>2, <1>4, <2>2, <2>3, <2>4, <2>5, ResetStreamKeeps
  <2>7. \A t \in Streams \ {s} : Carried(Head(s2c), t) = 0
    BY DEF Carried, f
  <2>8. StreamInv'
    BY <1>1, <1>2, <1>4, <2>6, <2>7, TakenStep
  <2> QED
    BY <1>8, <2>8 DEF HInv
<1>11. CASE /\ Live(s) /\ x.responded
            /\ DataHandled(s, f.end, r, full, paid)
  <2> HIDE DEF r, full, paid, c
  <2>1. /\ r = Charged(x, flow, f.pad, f.len) /\ full = Stocked(r, c)
        /\ c = [stream |-> s, from |-> f.from, len |-> f.len]
        /\ paid = ReplenishPeer(srv, s, x, f.pad)
    BY DEF r, full, c, paid
  <2>2. StreamInv'
    BY <1>1, <1>2, <1>3, <1>4, <1>5, <1>6, <1>11, <2>1, DataDelivered
  <2> QED
    BY <1>8, <2>2 DEF HInv
<1> QED
  BY <1>7, <1>9, <1>10, <1>11

-----------------------------------------------------------------------------
(***************************************************************************)
(* The server.                                                             *)
(***************************************************************************)
\* A frame of stream s that continues its bytes where the server stands, and
\* follows no end of the body.
LEMMA ServerWrites ==
  ASSUME StreamInv, NEW s \in Streams, NEW f \in Frames, s2c' = Append(s2c, f),
         UNCHANGED <<events, st, srvLast>>,
         srv' \in [Streams -> ServerType], \A t \in Streams \ {s} : srv'[t] = srv[t],
         SrvAgree(srv[s], srv'[s], {"headers", "left", "sent", "win", "ended", "rst"}),
         srv'[s].sent = srv[s].sent + Carried(f, s),
         srv[s].rst => srv'[s].rst, Noted(f, srv', srvLast),
         srv[s].ended => srv'[s].ended, Ends(f, s) => srv'[s].ended,
         \A t \in Streams \ {s} : ~(f.type \in {"data", "headers"} /\ f.stream = t),
         HonestIn(events) /\ f.type = "data" /\ f.stream = s
           => f.from = srv[s].sent /\ ~srv[s].ended /\ srv[s].open
  PROVE  StreamInv'
PROOF
<1> DEFINE r == st[s]
           v == srv[s]
           w == srv'[s]
           n == Carried(f, s)
<1>1. /\ st \in [Streams -> StreamType] /\ srv \in [Streams -> ServerType] /\ s2c \in Seq(Frames)
      /\ r \in StreamType /\ v \in ServerType
      /\ Good(s, r, v, srvLast, events) /\ OnItsWay(s2c, s, r, v, events)
  BY DEF StreamInv
<1>2. n \in Nat /\ v.sent \in Nat /\ r.received \in Nat
  BY <1>1, FrameTypes DEF ServerType, StreamType
<1>3. /\ w.open = v.open /\ w.gotRst = v.gotRst /\ w.late = v.late /\ w.processed = v.processed
  BY DEF SrvAgree, SrvFields
<1>4. HonestIn(events) /\ n # 0 => ~v.ended /\ v.open
  BY DEF Carried
<1>5. w.sent = v.sent + n /\ (v.rst => w.rst) /\ (v.ended => w.ended)
  OBVIOUS
<1>6. ASSUME HonestIn(events), Wire(s2c, s, r.received, v.sent, v.ended)
      PROVE  Wire(Append(s2c, f), s, r.received, w.sent, w.ended)
  BY <1>1, <1>5, <1>6, WireAppend
<1>7. OnItsWay(Append(s2c, f), s, r, w, events)
  BY <1>1, <1>6 DEF OnItsWay
<1>8. OnlyAt(s) /\ st'[s] = r
  BY <1>1, <1>3, <1>5 DEF OnlyAt
<1> HIDE DEF n
<1>9. Queueing(s, r, w, events)
  <2>1. PICK total \in Nat : /\ Filled(r.queue, s, r.delivered, total, events)
                             /\ HonestIn(events) => total <= v.sent
                             /\ r.error = "none" => total = r.received
    BY <1>1 DEF Good, Queueing
  <2>2. HonestIn(events) => total <= w.sent
    BY <1>2, <1>5, <2>1
  <2> QED
    BY <2>1, <2>2 DEF Queueing
<1>10. Begun(r, w, events)
  BY <1>1, <1>2, <1>3, <1>4, <1>5 DEF Good, Begun
<1>11. Whole(r, w, events)
  <2>1. ASSUME r.recvEnded, r.error = "none", HonestIn(events) PROVE w.ended /\ r.received = w.sent
    <3>1. v.ended /\ r.received = v.sent
      BY <1>1, <2>1 DEF Good, Whole
    <3>2. n = 0
      BY <1>4, <2>1, <3>1
    <3> QED
      BY <1>2, <1>5, <3>1, <3>2
  <2> QED
    BY <1>1, <2>1 DEF Good, Whole
<1>12. Good(s, r, w, srvLast, events)
  BY <1>1, <1>3, <1>5, <1>9, <1>10, <1>11 DEF Good, Refusable, Silenced
<1> QED
  BY <1>7, <1>8, <1>12, WrittenStep

\* The application behind the server starts on a request it may still answer.
LEMMA ProcessKeeps ==
  ASSUME HInv, NEW s \in Streams, SrvProcess(s)
  PROVE  HInv'
PROOF
<1> DEFINE r == st[s]
           v == srv[s]
           w == [v EXCEPT !.processed = TRUE]
<1>1. /\ st \in [Streams -> StreamType] /\ srv \in [Streams -> ServerType]
      /\ r \in StreamType /\ v \in ServerType
      /\ Good(s, r, v, srvLast, events) /\ OnItsWay(s2c, s, r, v, events)
      /\ srvLast \in Nat
  BY DEF HInv, StreamInv, Scalars
<1>2. /\ srv' = [srv EXCEPT ![s] = w] /\ UNCHANGED <<s2c, st, srvLast, events>> /\ Scalars'
      /\ s <= srvLast /\ ~v.rst
  BY DEF SrvProcess, Serves, clientVars, HInv, Scalars
<1>3. w \in ServerType /\ SrvAgree(v, w, {"processed"})
  BY <1>1 DEF ServerType, SrvAgree, SrvFields
<1> HIDE DEF w
<1>4. /\ w.open = v.open /\ w.gotRst = v.gotRst /\ w.late = v.late /\ w.sent = v.sent
      /\ w.ended = v.ended /\ w.rst = v.rst
  BY <1>3 DEF SrvAgree, SrvFields
<1>5. Refusable(s, r, w, srvLast)
  <2>1. ~(s > srvLast)
    BY <1>1, <1>2 DEF Streams
  <2> QED
    BY <1>1, <1>2, <2>1 DEF Good, Refusable
<1>6. Good(s, r, w, srvLast, events) /\ OnItsWay(s2c, s, r, w, events)
  BY <1>1, <1>4, <1>5 DEF Good, Queueing, Silenced, Begun, Whole, OnItsWay
<1>7. OnlyAt(s) /\ st'[s] = r /\ srv'[s] = w
  BY <1>1, <1>2, <1>3 DEF OnlyAt
<1>8. StreamInv'
  BY <1>2, <1>6, <1>7, QuietStep DEF HInv
<1> QED
  BY <1>2, <1>8 DEF HInv

\* Response heads and trailers.
LEMMA HeadersKeep ==
  ASSUME HInv, NEW s \in Streams, SrvHeaders(s) \/ SrvMalformed(s) \/ SrvTrailers(s)
  PROVE  HInv'
PROOF
<1> DEFINE v == srv[s]
<1>1. /\ srv \in [Streams -> ServerType] /\ v \in ServerType /\ StreamInv
  BY DEF HInv, StreamInv
<1>2. Bodies \subseteq Nat
  BY Http2Assumption
<1>3. PICK declared \in Int, exempt \in BOOLEAN, end \in BOOLEAN, malformed \in BOOLEAN,
           body \in Nat, headers \in BOOLEAN :
        /\ s2c' = Append(s2c, HeadersFrame(s, declared, exempt, end, malformed))
        /\ srv' = [srv EXCEPT ![s] = [v EXCEPT !.headers = headers, !.left = body, !.ended = end]]
        /\ ~v.ended
        /\ UNCHANGED <<events, clientVars, srvWin, srvLast>>
  <2>1. CASE SrvHeaders(s)
    <3>1. PICK body \in Bodies, declared \in Bodies \union {NoLength},
               end \in BOOLEAN, exempt \in BOOLEAN :
            /\ Write(HeadersFrame(s, declared, exempt, end, FALSE)) /\ Serves(s)
            /\ srv' = [srv EXCEPT ![s].headers = TRUE, ![s].left = body, ![s].ended = end]
            /\ UNCHANGED <<events, clientVars, srvWin, srvLast>>
      BY <2>1 DEF SrvHeaders
    <3>2. declared \in Int /\ body \in Nat
      BY <1>2 DEF NoLength
    <3>3. /\ s2c' = Append(s2c, HeadersFrame(s, declared, exempt, end, FALSE)) /\ ~v.ended
      BY <3>1 DEF Write, Serves
    <3>4. srv' = [srv EXCEPT ![s] = [v EXCEPT !.headers = TRUE, !.left = body, !.ended = end]]
      BY <1>1, <3>1
    <3> QED
      BY <3>1, <3>2, <3>3, <3>4
  <2>2. CASE SrvMalformed(s)
    <3>1. /\ s2c' = Append(s2c, HeadersFrame(s, NoLength, FALSE, FALSE, TRUE)) /\ ~v.ended
          /\ srv' = [srv EXCEPT ![s].headers = TRUE]
          /\ UNCHANGED <<events, clientVars, srvWin, srvLast>>
      BY <2>2 DEF SrvMalformed, Write, Serves
    <3>2. v.left \in Nat /\ NoLength \in Int
      BY <1>1 DEF ServerType, NoLength
    <3>3. [v EXCEPT !.headers = TRUE] = [v EXCEPT !.headers = TRUE, !.left = v.left, !.ended = FALSE]
      BY <1>1, <3>1 DEF ServerType
    <3>4. srv' = [srv EXCEPT ![s] = [v EXCEPT !.headers = TRUE, !.left = v.left, !.ended = FALSE]]
      BY <1>1, <3>1, <3>3
    <3> QED
      BY <3>1, <3>2, <3>4
  <2>3. CASE SrvTrailers(s)
    <3>1. /\ s2c' = Append(s2c, HeadersFrame(s, NoLength, FALSE, TRUE, FALSE)) /\ ~v.ended
          /\ srv' = [srv EXCEPT ![s].ended = TRUE]
          /\ UNCHANGED <<events, clientVars, srvWin, srvLast>>
      BY <2>3 DEF SrvTrailers, Write, Serves
    <3>2. v.left \in Nat /\ NoLength \in Int /\ v.headers \in BOOLEAN
      BY <1>1 DEF ServerType, NoLength
    <3>3. [v EXCEPT !.ended = TRUE]
            = [v EXCEPT !.headers = v.headers, !.left = v.left, !.ended = TRUE]
      BY <1>1 DEF ServerType
    <3>4. srv' = [srv EXCEPT ![s] = [v EXCEPT !.headers = v.headers, !.left = v.left, !.ended = TRUE]]
      BY <1>1, <3>1, <3>3
    <3> QED
      BY <3>1, <3>2, <3>4
  <2> QED
    BY <2>1, <2>2, <2>3
<1> DEFINE f == HeadersFrame(s, declared, exempt, end, malformed)
           w == [v EXCEPT !.headers = headers, !.left = body, !.ended = end]
<1>4. f \in Frames /\ f.type = "headers" /\ f.stream = s /\ (f.end <=> end)
  BY DEF HeadersFrame, Frames, HeaderFrames
<1>5. w \in ServerType /\ (w.ended <=> end) /\ SrvAgree(v, w, {"headers", "left", "ended"})
  <2> DEFINE a == [v EXCEPT !.headers = headers, !.left = body]
  <2>1. a \in ServerType /\ SrvAgree(v, a, {"headers", "left"})
    BY <1>1 DEF ServerType, SrvAgree, SrvFields
  <2>2. w = [a EXCEPT !.ended = end]
    OBVIOUS
  <2> HIDE DEF a, w
  <2>3. w \in ServerType /\ w.ended = end /\ SrvAgree(a, w, {"ended"})
    BY <2>1, <2>2 DEF ServerType, SrvAgree, SrvFields
  <2> QED
    BY <2>1, <2>3 DEF SrvAgree
<1> HIDE DEF f, w
<1>6. w.sent = v.sent /\ w.rst = v.rst
  BY <1>5 DEF SrvAgree, SrvFields
<1>7. srv' = [srv EXCEPT ![s] = w] /\ s2c' = Append(s2c, f) /\ ~v.ended
      /\ UNCHANGED <<events, st, srvLast>>
  BY <1>3 DEF f, w, clientVars
<1>8. /\ srv' \in [Streams -> ServerType] /\ srv'[s] = w
      /\ \A t \in Streams \ {s} : srv'[t] = srv[t]
  BY <1>1, <1>5, <1>7
<1>9. Carried(f, s) = 0 /\ v.sent + 0 = v.sent /\ Noted(f, srv', srvLast)
  BY <1>1, <1>4 DEF Carried, ServerType, Noted
<1>10. Ends(f, s) => w.ended
  BY <1>4, <1>5 DEF Ends
<1>11. SrvAgree(v, w, {"headers", "left", "sent", "win", "ended", "rst"})
  BY <1>5 DEF SrvAgree
<1>12. StreamInv'
  BY <1>1, <1>4, <1>6, <1>7, <1>8, <1>9, <1>10, <1>11, ServerWrites, ZenonT(60)
<1> QED
  BY <1>3, <1>12 DEF HInv, Scalars, clientVars

\* DATA, of an honest server or of one that sends what it likes.
LEMMA DataWritten ==
  ASSUME HInv, NEW s \in Streams, SrvData(s) \/ SrvRogueData(s)
  PROVE  HInv'
PROOF
<1> DEFINE v == srv[s]
<1>1. /\ srv \in [Streams -> ServerType] /\ v \in ServerType /\ StreamInv /\ Scalars
      /\ v.left \in Nat /\ v.sent \in Nat /\ v.win \in Int /\ srvWin \in Int
  BY DEF HInv, StreamInv, Scalars, ServerType
<1>2. PICK len \in Nat, pad \in Nat, end \in BOOLEAN, left \in Nat, win \in Int, ended \in BOOLEAN :
        /\ s2c' = Append(s2c, DataFrame(s, len, pad, end))
        /\ srv' = [srv EXCEPT ![s] = [v EXCEPT !.left = left, !.sent = v.sent + len, !.win = win,
                                               !.ended = ended]]
        /\ v.ended => ended
        /\ end => ended \/ ~HonestIn(events)
        /\ HonestIn(events) => v.open /\ ~v.ended
        /\ srvWin' \in Int
        /\ UNCHANGED <<events, clientVars, srvLast>>
  <2>1. CASE SrvData(s)
    <3>1. PICK len \in 0..MaxFrame, pad \in 0..1, end \in BOOLEAN :
            /\ Serves(s) /\ len <= v.left
            /\ Write(DataFrame(s, len, pad, end))
            /\ srv' = [srv EXCEPT ![s].left = @ - len, ![s].sent = @ + len,
                                  ![s].win = @ - len - pad, ![s].ended = end]
            /\ srvWin' = srvWin - len - pad
            /\ UNCHANGED <<events, clientVars, srvLast>>
      BY <2>1, ZenonT(60) DEF SrvData
    <3>2. /\ len \in Nat /\ pad \in Nat /\ v.left - len \in Nat /\ v.win - len - pad \in Int
          /\ srvWin - len - pad \in Int
      BY <1>1, <3>1
    <3>3. srv' = [srv EXCEPT ![s] = [v EXCEPT !.left = v.left - len, !.sent = v.sent + len,
                                              !.win = v.win - len - pad, !.ended = end]]
      BY <1>1, <3>1
    <3>4. s2c' = Append(s2c, DataFrame(s, len, pad, end)) /\ v.open /\ ~v.ended
      BY <3>1 DEF Write, Serves
    <3> DEFINE left == v.left - len
               win == v.win - len - pad
    <3>5. left \in Nat /\ win \in Int /\ len \in Nat /\ pad \in Nat
      BY <3>2
    <3> USE <3>5
    <3> WITNESS len \in Nat, pad \in Nat, end \in BOOLEAN, left \in Nat, win \in Int, end \in BOOLEAN
    <3> QED
      BY <3>1, <3>2, <3>3, <3>4
  <2>2. CASE SrvRogueData(s)
    <3>1. PICK len \in 1..MaxFrame, end \in BOOLEAN :
            /\ "rogue" \in events
            /\ Write(DataFrame(s, len, 0, end))
            /\ srv' = [srv EXCEPT ![s].sent = @ + len, ![s].left = 0]
            /\ UNCHANGED <<events, clientVars, srvWin, srvLast>>
      BY <2>2 DEF SrvRogueData
    <3>2. len \in Nat /\ ~HonestIn(events)
      BY <3>1 DEF HonestIn
    <3>3. v.ended \in BOOLEAN
      BY <1>1 DEF ServerType
    <3>4. [v EXCEPT !.sent = v.sent + len, !.left = 0]
            = [v EXCEPT !.left = 0, !.sent = v.sent + len, !.win = v.win, !.ended = v.ended]
      BY <1>1 DEF ServerType
    <3>5. srv' = [srv EXCEPT ![s] = [v EXCEPT !.left = 0, !.sent = v.sent + len, !.win = v.win,
                                              !.ended = v.ended]]
      BY <1>1, <3>1, <3>4
    <3>6. s2c' = Append(s2c, DataFrame(s, len, 0, end))
      BY <3>1 DEF Write
    <3>7. srvWin' \in Int
      BY <1>1, <3>1
    <3>8. len \in Nat /\ 0 \in Nat /\ v.win \in Int /\ v.ended \in BOOLEAN
      BY <1>1, <3>2, <3>3
    <3> USE <3>8
    <3> WITNESS len \in Nat, 0 \in Nat, end \in BOOLEAN, 0 \in Nat, v.win \in Int, v.ended \in BOOLEAN
    <3> QED
      BY <1>1, <3>1, <3>2, <3>3, <3>5, <3>6, <3>7
  <2> QED
    BY <2>1, <2>2
<1> DEFINE f == DataFrame(s, len, pad, end)
           w == [v EXCEPT !.left = left, !.sent = v.sent + len, !.win = win, !.ended = ended]
<1>3. /\ f \in Frames /\ f.type = "data" /\ f.stream = s /\ f.from = v.sent /\ f.len = len
      /\ f.end <=> end
  BY <1>1 DEF DataFrame, Frames, DataFrames
<1>4. /\ w \in ServerType /\ (w.ended <=> ended) /\ w.sent = v.sent + len
      /\ SrvAgree(v, w, {"left", "sent", "win", "ended"})
  <2> DEFINE n == v.sent + len
             a == [v EXCEPT !.left = left, !.sent = n]
             b == [a EXCEPT !.win = win]
  <2>1. n \in Nat
    BY <1>1
  <2> HIDE DEF n
  <2>2. a \in ServerType /\ a.sent = n /\ SrvAgree(v, a, {"left", "sent"})
    BY <1>1, <2>1 DEF ServerType, SrvAgree, SrvFields
  <2>3. w = [b EXCEPT !.ended = ended]
    BY DEF n
  <2> HIDE DEF a, w
  <2>4. b \in ServerType /\ b.sent = a.sent /\ SrvAgree(a, b, {"win"})
    BY <2>2 DEF ServerType, SrvAgree, SrvFields
  <2> HIDE DEF b
  <2>5. w \in ServerType /\ w.sent = b.sent /\ w.ended = ended /\ SrvAgree(b, w, {"ended"})
    BY <2>3, <2>4 DEF ServerType, SrvAgree, SrvFields
  <2>6. SrvAgree(v, w, {"left", "sent", "win", "ended"})
    BY <2>2, <2>4, <2>5 DEF SrvAgree
  <2> QED
    BY <2>2, <2>4, <2>5, <2>6 DEF n
<1> HIDE DEF f, w
<1>5. w.rst = v.rst /\ w.open = v.open
  BY <1>4 DEF SrvAgree, SrvFields
<1>6. srv' = [srv EXCEPT ![s] = w] /\ s2c' = Append(s2c, f) /\ UNCHANGED <<events, st, srvLast>>
  BY <1>2 DEF f, w, clientVars
<1>7. /\ srv' \in [Streams -> ServerType] /\ srv'[s] = w
      /\ \A t \in Streams \ {s} : srv'[t] = srv[t]
  BY <1>1, <1>4, <1>6
<1>8. Carried(f, s) = len /\ Noted(f, srv', srvLast)
  BY <1>3 DEF Carried, Noted
<1>9. SrvAgree(v, w, {"headers", "left", "sent", "win", "ended", "rst"})
  BY <1>4 DEF SrvAgree
<1>10. StreamInv'
  <2>1. CASE HonestIn(events)
    <3>1. (Ends(f, s) => w.ended) /\ (v.ended => w.ended) /\ (v.rst => w.rst)
      BY <1>2, <1>3, <1>4, <1>5, <2>1 DEF Ends
    <3>2. f.from = v.sent /\ ~v.ended /\ v.open /\ w.sent = v.sent + Carried(f, s)
      BY <1>2, <1>3, <1>4, <1>8, <2>1
    <3>3. \A t \in Streams \ {s} : ~(f.type \in {"data", "headers"} /\ f.stream = t)
      BY <1>3
    <3> QED
      BY <1>1, <1>3, <1>6, <1>7, <1>8, <1>9, <3>1, <3>2, <3>3, ServerWrites
  <2>2. CASE ~HonestIn(events)
    <3>1. OnlyAt(s) /\ st'[s] = st[s]
      BY <1>1, <1>4, <1>6, <1>7, <1>9 DEF OnlyAt, StreamInv, SrvAgree, SrvFields
    <3>2. /\ w.gotRst = v.gotRst /\ w.late = v.late /\ w.processed = v.processed
      BY <1>9 DEF SrvAgree, SrvFields
    <3>3. Good(s, st[s], w, srvLast, events) /\ OnItsWay(Append(s2c, f), s, st[s], w, events)
      BY <1>1, <1>5, <2>2, <3>2
         DEF StreamInv, Good, Refusable, Queueing, Silenced, Begun, Whole, OnItsWay
    <3>4. \A t \in Streams \ {s} : ~(f.type \in {"data", "headers"} /\ f.stream = t)
      BY <1>3
    <3>5. Good(s, st'[s], srv'[s], srvLast, events) /\ OnItsWay(Append(s2c, f), s, st'[s], srv'[s], events)
      BY <1>7, <3>1, <3>3
    <3> QED
      BY <1>1, <1>3, <1>6, <1>8, <3>1, <3>4, <3>5, WrittenStep
  <2> QED
    BY <2>1, <2>2
<1> QED
  BY <1>1, <1>2, <1>10 DEF HInv, Scalars, clientVars

\* RST_STREAM: a refusal only of what was never started on.
LEMMA RstWritten ==
  ASSUME HInv, NEW s \in Streams, SrvRst(s)
  PROVE  HInv'
PROOF
<1> DEFINE v == srv[s]
           w == [v EXCEPT !.rst = TRUE]
<1>1. srv \in [Streams -> ServerType] /\ v \in ServerType /\ StreamInv
  BY DEF HInv, StreamInv
<1>2. PICK refused \in BOOLEAN :
        /\ refused => ~v.processed
        /\ s2c' = Append(s2c, [type |-> "rst", stream |-> s, refused |-> refused])
        /\ srv' = [srv EXCEPT ![s] = w]
        /\ UNCHANGED <<events, clientVars, srvWin, srvLast>>
  BY DEF SrvRst, Write
<1> DEFINE f == [type |-> "rst", stream |-> s, refused |-> refused]
<1>3. f \in Frames /\ f.type = "rst" /\ f.stream = s /\ (f.refused <=> refused)
  BY DEF Frames, RstFrames
<1>4. w \in ServerType /\ w.rst /\ SrvAgree(v, w, {"rst"})
  BY <1>1 DEF ServerType, SrvAgree, SrvFields
<1> HIDE DEF f, w
<1>5. w.sent = v.sent /\ w.ended = v.ended /\ w.processed = v.processed
  BY <1>4 DEF SrvAgree, SrvFields
<1>6. s2c' = Append(s2c, f) /\ UNCHANGED <<events, st, srvLast>>
  BY <1>2 DEF f, clientVars
<1>7. /\ srv' \in [Streams -> ServerType] /\ srv'[s] = w
      /\ \A t \in Streams \ {s} : srv'[t] = srv[t]
  BY <1>1, <1>2, <1>4
<1>8. Carried(f, s) = 0 /\ v.sent + 0 = v.sent /\ ~Ends(f, s)
  BY <1>1, <1>3 DEF Carried, Ends, ServerType
<1>9. Noted(f, srv', srvLast)
  BY <1>2, <1>3, <1>4, <1>5, <1>7 DEF Noted
<1>10. SrvAgree(v, w, {"headers", "left", "sent", "win", "ended", "rst"})
  BY <1>4 DEF SrvAgree
<1>11. StreamInv'
  BY <1>1, <1>3, <1>4, <1>5, <1>6, <1>7, <1>8, <1>9, <1>10, ServerWrites
<1> QED
  BY <1>2, <1>11 DEF HInv, Scalars, clientVars

\* GOAWAY: a promise the server can keep, and never takes back.
LEMMA GoawayWritten ==
  ASSUME HInv, SrvGoaway
  PROVE  HInv'
PROOF
<1>1. PICK last \in 0..MaxStreams :
        /\ last < srvLast
        /\ \A s \in Streams : srv[s].processed => s <= last
        /\ s2c' = Append(s2c, [type |-> "goaway", last |-> last])
        /\ srvLast' = last
        /\ UNCHANGED <<events, clientVars, srv, srvWin>>
  BY DEF SrvGoaway, Write
<1> DEFINE f == [type |-> "goaway", last |-> last]
<1>2. f \in Frames /\ f.type = "goaway" /\ f.last = last /\ \A t : Carried(f, t) = 0 /\ ~Ends(f, t)
  BY DEF Frames, GoawayFrames, Carried, Ends
<1>3. /\ StreamInv /\ s2c \in Seq(Frames) /\ srvLast \in Nat /\ last \in Nat
  BY DEF HInv, StreamInv, Scalars
<1> HIDE DEF f
<1>4. s2c' = Append(s2c, f) /\ UNCHANGED <<st, srv, events>>
  BY <1>1 DEF f, clientVars
<1>5. ASSUME NEW s \in Streams
      PROVE  Good(s, st[s], srv[s], last, events) /\ OnItsWay(Append(s2c, f), s, st[s], srv[s], events)
  <2>1. /\ Good(s, st[s], srv[s], srvLast, events) /\ OnItsWay(s2c, s, st[s], srv[s], events)
        /\ srv[s].sent \in Nat /\ s \in Int
    BY <1>3 DEF StreamInv, ServerType, Streams
  <2>2. Refusable(s, st[s], srv[s], last)
    BY <1>1, <1>3, <2>1 DEF Good, Refusable
  <2>3. ASSUME Wire(s2c, s, st[s].received, srv[s].sent, srv[s].ended)
        PROVE  Wire(Append(s2c, f), s, st[s].received, srv[s].sent, srv[s].ended)
    <3>1. Wire(Append(s2c, f), s, st[s].received, srv[s].sent + Carried(f, s), srv[s].ended)
      BY <1>2, <1>3, <2>3, WireAppend
    <3> QED
      BY <1>2, <2>1, <3>1
  <2> QED
    BY <2>1, <2>2, <2>3 DEF Good, OnItsWay
<1>6. /\ s2c' \in Seq(Frames)
      /\ \A i \in 1..Len(s2c') : (i \in 1..Len(s2c) /\ s2c'[i] = s2c[i]) \/ s2c'[i] = f
  BY <1>2, <1>3, <1>4, FramesMore
<1>7. ASSUME NEW i \in 1..Len(s2c') PROVE Noted(s2c'[i], srv, last)
  <2>1. CASE i \in 1..Len(s2c) /\ s2c'[i] = s2c[i]
    <3>1. s2c[i] \in Frames /\ Noted(s2c[i], srv, srvLast)
      BY <1>3, <2>1, ElementOfSeq DEF StreamInv
    <3>2. s2c[i].type = "goaway" => s2c[i].last \in Int
      BY <3>1, FrameTypes DEF GoawayFrames
    <3> QED
      BY <1>1, <1>3, <2>1, <3>1, <3>2 DEF Noted
  <2>2. CASE s2c'[i] = f
    BY <1>2, <1>3, <2>2 DEF Noted
  <2> QED
    BY <1>6, <2>1, <2>2
<1>8. StreamInv'
  BY <1>1, <1>3, <1>4, <1>5, <1>6, <1>7 DEF StreamInv
<1>9. Scalars'
  <2>1. last \in 0..NoGoaway
    BY Http2Assumption DEF NoGoaway
  <2> QED
    BY <1>1, <2>1 DEF HInv, Scalars, clientVars
<1> QED
  BY <1>8, <1>9 DEF HInv

\* SETTINGS and the end of the transport say nothing of any stream.
LEMMA OtherFramesWritten ==
  ASSUME HInv, SrvSettings \/ SrvEof
  PROVE  HInv'
PROOF
<1>1. PICK f \in SettingsFrames \union EofFrames :
        s2c' = Append(s2c, f) /\ UNCHANGED <<events, clientVars, serverVars>>
  <2>1. CASE SrvSettings
    BY <2>1 DEF SrvSettings, Write, SettingsFrames
  <2>2. CASE SrvEof
    BY <2>2 DEF SrvEof, Write, EofFrames
  <2> QED
    BY <2>1, <2>2
<1>2. f \in Frames /\ f.type \in {"settings", "eof"}
  BY <1>1 DEF Frames, SettingsFrames, EofFrames
<1>3. 1 \in Streams
  BY Http2Assumption DEF Streams
<1>4. /\ Carried(f, 1) = 0 /\ ~Ends(f, 1) /\ Noted(f, srv', srvLast)
      /\ UNCHANGED <<events, st, srv, srvLast>>
  BY <1>1, <1>2 DEF Carried, Ends, Noted, clientVars, serverVars
<1>5. /\ srv' \in [Streams -> ServerType] /\ srv[1].sent + 0 = srv[1].sent
      /\ SrvAgree(srv[1], srv'[1], {"headers", "left", "sent", "win", "ended", "rst"})
  BY <1>3, <1>4 DEF HInv, StreamInv, ServerType, SrvAgree
<1>6. /\ \A t \in Streams \ {1} : srv'[t] = srv[t]
      /\ \A t \in Streams \ {1} : ~(f.type \in {"data", "headers"} /\ f.stream = t)
      /\ srv'[1].sent = srv[1].sent + Carried(f, 1)
      /\ srv[1].rst => srv'[1].rst
      /\ srv[1].ended => srv'[1].ended
      /\ f.type # "data"
  BY <1>2, <1>4, <1>5
<1>7. StreamInv'
  BY <1>1, <1>2, <1>3, <1>4, <1>5, <1>6, ServerWrites DEF HInv
<1> QED
  BY <1>1, <1>7 DEF HInv, Scalars, clientVars, serverVars

-----------------------------------------------------------------------------
(***************************************************************************)
(* The invariant holds in every reachable state.                           *)
(***************************************************************************)
LEMMA InitHolds == Init => HInv
PROOF
<1> SUFFICES ASSUME Init PROVE HInv
  OBVIOUS
<1>1. Scalars
  BY Http2Assumption DEF Init, Scalars, NoGoaway
<1>2. Unopened \in StreamType /\ Unseen \in ServerType
  <2>1. StreamWindow \in Int /\ <<>> \in Seq(Chunks) /\ NoLength \in Int
    BY Http2Assumption DEF NoLength
  <2> QED
    BY <2>1 DEF Unopened, Unseen, StreamType, ServerType
<1>3. s2c = <<>> /\ <<>> \in Seq(Frames) /\ 1..Len(<<>>) = {}
  BY DEF Init
<1>4. ASSUME NEW s \in Streams
      PROVE  Good(s, Unopened, Unseen, srvLast, events) /\ OnItsWay(<<>>, s, Unopened, Unseen, events)
  <2>1. Filled(<<>>, s, 0, 0, events)
    BY FilledEmpty
  <2>2. Queueing(s, Unopened, Unseen, events)
    BY <2>1 DEF Queueing, Unopened, Unseen
  <2>3. OnItsWay(<<>>, s, Unopened, Unseen, events)
    BY WireEmpty DEF OnItsWay, Unopened, Unseen
  <2> QED
    BY <2>2, <2>3 DEF Good, Reading, Finished, Refusable, Waiting, Silenced, Begun, Whole,
                      Unopened, Unseen
<1>5. StreamInv
  BY <1>2, <1>3, <1>4 DEF Init, StreamInv
<1> QED
  BY <1>1, <1>5 DEF HInv

\* No step of the connection breaks the invariant.
LEMMA NextKeeps == HInv /\ [Next]_vars => HInv'
PROOF
<1> SUFFICES ASSUME HInv, [Next]_vars PROVE HInv'
  OBVIOUS
<1>1. CASE Caller
  <2>1. CASE \E hasBody \in BOOLEAN : Request(hasBody)
    BY <2>1, RequestKeeps
  <2>2. CASE RequestAborted \/ \E s \in Streams : Abort(s)
    BY <2>2, AbortKeeps
  <2>3. CASE \E s \in Streams : SendLastData(s) \/ LastDataWritten(s)
    BY <2>3, LastDataKeeps
  <2>4. CASE \E s \in Streams : Read(s) \/ Pull(s) \/ Cancel(s)
    BY <2>4, ReadKeeps, PullChunkKeeps, PullOutcomeKeeps, CancelKeeps DEF Pull
  <2>5. CASE Close
    BY <2>5, OtherFramesKeep
  <2> QED
    BY <1>1, <2>1, <2>2, <2>3, <2>4, <2>5 DEF Caller
<1>2. CASE OnFrame
  BY <1>2, ResponseHeadKeeps, TrailersKeep, DataKeeps, RstStreamKeeps, GoawayKeeps, OtherFramesKeep
     DEF OnFrame
<1>3. CASE Server
  BY <1>3, ProcessKeeps, HeadersKeep, DataWritten, RstWritten, GoawayWritten, OtherFramesWritten
     DEF Server
<1>4. CASE UNCHANGED vars
  BY <1>4 DEF vars, clientVars, serverVars, HInv, Scalars, StreamInv
<1> QED
  BY <1>1, <1>2, <1>3, <1>4 DEF Next

\* The invariant holds in every reachable state.
LEMMA Invariant == Spec => []HInv
PROOF
<1> QED
  BY InitHolds, NextKeeps, PTL DEF Spec

-----------------------------------------------------------------------------
(***************************************************************************)
(* What the invariant says of the connection.                              *)
(***************************************************************************)
\* The variables of the connection and of its streams keep their types.
THEOREM Http2TypeOK == Spec => []TypeOK
PROOF
<1>1. HInv => TypeOK
  BY DEF HInv, Scalars, StreamInv, TypeOK
<1> QED
  BY <1>1, Invariant, PTL

\* On every path by which a stream leaves the map (its normal end, a reset, an
\* abort, GOAWAY, a cancelled body, the end of the connection) the caller's
\* head has settled and no pull is left blocked.
THEOREM Http2NobodyLeftWaiting == Spec => []NobodyLeftWaiting
PROOF
<1>1. HInv => NobodyLeftWaiting
  BY DEF HInv, StreamInv, Good, Waiting, NobodyLeftWaiting, Live
<1> QED
  BY <1>1, Invariant, PTL

\* Once a stream has sent RST_STREAM nothing more is written for it: neither a
\* second reset, nor the WINDOW_UPDATE of a late reader, nor its last DATA.
THEOREM Http2SilentAfterReset == Spec => []SilentAfterReset
PROOF
<1>1. HInv => SilentAfterReset
  BY DEF HInv, StreamInv, Good, Silenced, SilentAfterReset
<1> QED
  BY <1>1, Invariant, PTL

\* A request that the connection hands back as retryable is one the server
\* never started on, in whatever order its frames, GOAWAY and resets cross.
THEOREM Http2RetryOnlyUnprocessed == Spec => []RetryOnlyUnprocessed
PROOF
<1>1. HInv => RetryOnlyUnprocessed
  BY DEF HInv, StreamInv, Good, Refusable, RetryOnlyUnprocessed
<1> QED
  BY <1>1, Invariant, PTL

\* Each stream's queue holds its own bytes, in order and without a gap, and a
\* body that ends has its declared length whatever the server sends.
THEOREM Http2BytesExact == Spec => []BytesExact
PROOF
<1>1. HInv => BytesExact
  <2> SUFFICES ASSUME HInv PROVE BytesExact
    OBVIOUS
  <2>1. OwnBytesInOrder
    <3> SUFFICES ASSUME Honest, NEW s \in Streams
                 PROVE  \A i \in DOMAIN st[s].queue :
                          LET c == st[s].queue[i] IN
                          /\ c.stream = s
                          /\ c.from = IF i = 1 THEN st[s].delivered
                                      ELSE st[s].queue[i - 1].from + st[s].queue[i - 1].len
      BY DEF OwnBytesInOrder
    <3>1. HonestIn(events)
      BY DEF Honest, HonestIn
    <3>2. st[s].queue \in Seq(Chunks)
      BY DEF HInv, StreamInv, StreamType
    <3>3. PICK total \in Nat : Filled(st[s].queue, s, st[s].delivered, total, events)
      BY DEF HInv, StreamInv, Good, Queueing
    <3> QED
      BY <3>1, <3>2, <3>3, FilledInOrder
  <2>2. LengthHonoured
    BY DEF HInv, StreamInv, Good, Finished, LengthHonoured
  <2> QED
    BY <2>1, <2>2 DEF BytesExact
<1> QED
  BY <1>1, Invariant, PTL

-----------------------------------------------------------------------------
(***************************************************************************)
(* Steps that move no byte.  Most of what the callers and the read loop do *)
(* leaves alone what was received, queued, read and owed of every body.    *)
(***************************************************************************)
\* Nothing was added to or taken from a stream's queue and, unless it is gone,
\* its window is as it was; it is not blamed for an overrun.
Steady(r, q) ==
  /\ q.queue = r.queue /\ q.delivered = r.delivered
  /\ r.opened => q.opened
  /\ r.closed => q.closed
  /\ r.responded => q.responded
  /\ q.error = "protocol" => r.error = "protocol"
  /\ q.received = r.received /\ (r.responded => q.declared = r.declared)
  /\ r.head = "ok" => q.head = "ok"
  /\ q.queue # <<>> => q.outcome \in {r.outcome, "cancelled"}
  /\ ~q.closed => q.recvWindow = r.recvWindow /\ q.recvConsumed = r.recvConsumed

\* Nor did its reader hear how it ended.
Undisturbed(r, q) == q.outcome = r.outcome /\ Steady(r, q)

\* The server has heard nothing that adds to its credit or to a body.
Heard(v, w) ==
  SrvAgree(v, w, {"open", "clientEnded", "gotRst", "late", "processed"}) /\ (v.open => w.open)

Untouched == \A t \in Streams : Undisturbed(st[t], st'[t]) /\ Heard(srv[t], srv'[t])

\* What has no bearing on a body's bytes.
Aside == {"opened", "closed", "head", "responded", "recvEnded", "declared", "exempt",
          "completed", "pull", "localEnded", "rstSent"}

\* A stream changes nothing else, and never goes back.
LEMMA Undisturbs ==
  ASSUME NEW r, NEW q, Agree(r, q, Aside),
         r.opened => q.opened, r.closed => q.closed, r.responded => q.responded,
         r.responded => q.declared = r.declared, r.head = "ok" => q.head = "ok"
  PROVE  Undisturbed(r, q)
PROOF
<1>1. /\ q.delivered = r.delivered /\ q.outcome = r.outcome /\ q.queue = r.queue
      /\ q.error = r.error /\ q.recvWindow = r.recvWindow /\ q.recvConsumed = r.recvConsumed
      /\ q.received = r.received
  BY DEF Agree, Fields, Aside
<1> QED
  BY <1>1 DEF Undisturbed, Steady

\* A failed stream keeps its queue for the reader.
LEMMA FailUndisturbed ==
  ASSUME NEW r \in StreamType, NEW q \in StreamType, Undisturbed(r, q),
         NEW e \in Failures \ {"protocol"}
  PROVE  Undisturbed(r, FailStream(q, e)) /\ FailStream(q, e).closed
PROOF
<1> DEFINE p == FailStream(q, e)
<1>1. Failed(q, p, e)
  BY Fails
<1> HIDE DEF p
<1>2. /\ p.delivered = q.delivered /\ p.outcome = q.outcome /\ p.queue = q.queue
      /\ p.opened = q.opened /\ p.responded = q.responded /\ p.closed
      /\ p.error = IF q.error = "none" THEN e ELSE q.error
      /\ p.received = q.received /\ p.declared = q.declared /\ (q.head = "ok" => p.head = "ok")
  BY <1>1 DEF Failed, Agree, Fields
<1> QED
  BY <1>2 DEF Undisturbed, Steady, p

\* Closing a stream whose halves have ended takes nothing from the reader.
LEMMA CloseUndisturbed ==
  ASSUME NEW r \in StreamType, NEW q \in StreamType, Undisturbed(r, q)
  PROVE  Undisturbed(r, MaybeClose(q))
PROOF
<1> DEFINE p == MaybeClose(q)
<1>1. Agree(q, p, {"closed", "pull"}) /\ (q.closed => p.closed)
  BY MaybeCloses
<1> HIDE DEF p
<1>2. /\ p.delivered = q.delivered /\ p.outcome = q.outcome /\ p.queue = q.queue
      /\ p.opened = q.opened /\ p.responded = q.responded /\ p.error = q.error
      /\ p.recvWindow = q.recvWindow /\ p.recvConsumed = q.recvConsumed
      /\ p.received = q.received /\ p.declared = q.declared /\ p.head = q.head
  BY <1>1 DEF Agree, Fields
<1> QED
  BY <1>1, <1>2 DEF Undisturbed, Steady, p

\* Nor does ending the response's half.
LEMMA EndUndisturbed ==
  ASSUME NEW r \in StreamType
  PROVE  Undisturbed(r, MaybeClose(WakePull([r EXCEPT !.recvEnded = TRUE])))
PROOF
<1> DEFINE a == [r EXCEPT !.recvEnded = TRUE]
           b == WakePull(a)
<1>1. a \in StreamType /\ Agree(r, a, {"recvEnded"})
  BY DEF StreamType, Agree, Fields
<1> HIDE DEF a
<1>2. b \in StreamType /\ Agree(a, b, {"pull"})
  BY <1>1, Wakes
<1> HIDE DEF b
<1>3. Agree(r, b, Aside) /\ b.opened = r.opened /\ b.closed = r.closed /\ b.responded = r.responded
      /\ b.declared = r.declared /\ b.head = r.head
  BY <1>1, <1>2 DEF Agree, Fields, Aside
<1>4. Undisturbed(r, b)
  BY <1>3, Undisturbs
<1> QED
  BY <1>2, <1>4, CloseUndisturbed DEF b, a

\* What the server hears of a reset, or of nothing.
LEMMA RstHeard ==
  ASSUME srv \in [Streams -> ServerType], NEW s \in Streams, NEW t \in Streams
  PROVE  Heard(srv[t], PeerGetsRst(srv, s)[t]) /\ Heard(srv[t], srv[t])
PROOF
<1> DEFINE w == PeerGetsRst(srv, s)
<1>1. (\A u \in Streams \ {s} : w[u] = srv[u]) /\ SrvAgree(srv[s], w[s], {"gotRst", "late"})
  BY PeerRst
<1> HIDE DEF w
<1>2. SrvAgree(srv[t], w[t], {"gotRst", "late"})
  BY <1>1 DEF SrvAgree
<1> QED
  BY <1>2 DEF Heard, SrvAgree, SrvFields, w

\* One stream changes.
LEMMA OneUndisturbed ==
  ASSUME StreamInv, NEW s \in Streams, NEW q, Undisturbed(st[s], q), st' = [st EXCEPT ![s] = q],
         \A t \in Streams : Heard(srv[t], srv'[t])
  PROVE  Untouched
PROOF
<1>1. st \in [Streams -> StreamType]
  BY DEF StreamInv
<1>2. ASSUME NEW t \in Streams PROVE Undisturbed(st[t], st'[t])
  <2>1. CASE t = s
    BY <1>1, <2>1
  <2>2. CASE t # s
    BY <1>1, <2>2 DEF Undisturbed, Steady
  <2> QED
    BY <2>1, <2>2
<1> QED
  BY <1>2 DEF Untouched

\* _resetStream moves no byte of a response.
LEMMA ResetUndisturbed ==
  ASSUME StreamInv, NEW s \in Streams, NEW r \in StreamType, NEW e \in Failures \ {"protocol"},
         Undisturbed(st[s], r), ResetStream(s, r, e)
  PROVE  Untouched /\ st'[s].closed
PROOF
<1> DEFINE p == [r EXCEPT !.rstSent = TRUE]
<1>1. p \in StreamType /\ Agree(r, p, {"rstSent"})
  BY DEF StreamType, Agree, Fields
<1> HIDE DEF p
<1>2. /\ p.delivered = r.delivered /\ p.outcome = r.outcome /\ p.queue = r.queue
      /\ p.opened = r.opened /\ p.responded = r.responded /\ p.error = r.error
      /\ p.closed = r.closed /\ p.recvWindow = r.recvWindow /\ p.recvConsumed = r.recvConsumed
      /\ p.received = r.received /\ p.declared = r.declared /\ p.head = r.head
  BY <1>1 DEF Agree, Fields
<1>3. Undisturbed(st[s], p)
  BY <1>2 DEF Undisturbed, Steady
<1>4. /\ st' = [st EXCEPT ![s] = FailStream(p, e)] /\ st \in [Streams -> StreamType]
      /\ srv \in [Streams -> ServerType] /\ (srv' = srv \/ srv' = PeerGetsRst(srv, s))
  BY DEF ResetStream, StreamInv, p
<1>5. Undisturbed(st[s], FailStream(p, e)) /\ FailStream(p, e).closed
  BY <1>1, <1>3, <1>4, FailUndisturbed
<1>6. \A t \in Streams : Heard(srv[t], srv'[t])
  BY <1>4, RstHeard
<1> QED
  BY <1>4, <1>5, <1>6, OneUndisturbed

\* Opening, resetting and uploading move no byte of a response.
LEMMA RequestFlow ==
  ASSUME StreamInv, Scalars,
         \/ \E hasBody \in BOOLEAN : Request(hasBody)
         \/ RequestAborted
         \/ \E s \in Streams : Abort(s) \/ SendLastData(s) \/ LastDataWritten(s) \/ Read(s)
  PROVE  Untouched
PROOF
<1>1. st \in [Streams -> StreamType] /\ srv \in [Streams -> ServerType]
  BY DEF StreamInv
<1>2. CASE \E hasBody \in BOOLEAN : Request(hasBody)
  <2>1. PICK hasBody \in BOOLEAN : Request(hasBody)
    BY <1>2
  <2> DEFINE s == nextStream
             a == [st[s] EXCEPT !.opened = TRUE]
             q == [st[s] EXCEPT !.opened = TRUE, !.localEnded = ~hasBody]
  <2>2. s \in Streams
    BY <2>1, NextIsStream DEF Request
  <2>3. st' = [st EXCEPT ![s] = q] /\ srv' = [srv EXCEPT ![s].open = TRUE, ![s].clientEnded = ~hasBody]
    BY <2>1 DEF Request
  <2>4. ASSUME NEW t \in Streams PROVE Heard(srv[t], srv'[t])
    BY <1>1, <2>2, <2>3 DEF Heard, SrvAgree, SrvFields, ServerType
  <2>5. Undisturbed(st[s], q)
    <3>1. a \in StreamType /\ a.opened /\ Agree(st[s], a, {"opened"})
      BY <1>1, <2>2, ZenonT(60) DEF StreamType, Agree, Fields
    <3>2. q = [a EXCEPT !.localEnded = ~hasBody]
      OBVIOUS
    <3> HIDE DEF a, q
    <3>3. Agree(a, q, {"localEnded"})
      BY <3>1, <3>2 DEF StreamType, Agree, Fields
    <3>4. /\ Agree(st[s], q, Aside)
          /\ q.opened = a.opened /\ q.closed = st[s].closed /\ q.responded = st[s].responded
          /\ q.declared = st[s].declared /\ q.head = st[s].head
      BY <3>1, <3>3 DEF Agree, Fields, Aside
    <3> QED
      BY <3>1, <3>4, Undisturbs
  <2> HIDE DEF q, s
  <2> QED
    BY <2>2, <2>3, <2>4, <2>5, OneUndisturbed
<1>3. CASE RequestAborted
  <2> DEFINE s == nextStream
             r == [st[s] EXCEPT !.opened = TRUE]
  <2>1. s \in Streams /\ ResetStream(s, r, "aborted") /\ "aborted" \in Failures \ {"protocol"}
    BY <1>3, NextIsStream DEF RequestAborted, Failures
  <2>2. r \in StreamType /\ Agree(st[s], r, {"opened"}) /\ r.opened
    BY <1>1, <2>1, ZenonT(60) DEF StreamType, Agree, Fields
  <2> HIDE DEF r, s
  <2>3. /\ Agree(st[s], r, Aside) /\ r.closed = st[s].closed /\ r.responded = st[s].responded
        /\ r.declared = st[s].declared /\ r.head = st[s].head
    BY <2>2 DEF Agree, Fields, Aside
  <2>4. Undisturbed(st[s], r)
    BY <2>2, <2>3, Undisturbs
  <2> QED
    BY <2>1, <2>2, <2>4, ResetUndisturbed
<1>4. ASSUME NEW s \in Streams, Abort(s) PROVE Untouched
  <2>1. /\ ResetStream(s, st[s], "aborted") /\ "aborted" \in Failures \ {"protocol"}
        /\ st[s] \in StreamType /\ Undisturbed(st[s], st[s])
    BY <1>1, <1>4 DEF Abort, Failures, Undisturbed, Steady
  <2> QED
    BY <2>1, ResetUndisturbed
<1>5. ASSUME NEW s \in Streams, SendLastData(s) PROVE Untouched
  <2>1. st' = st /\ srv' = [srv EXCEPT ![s].clientEnded = TRUE, ![s].late = srv[s].gotRst]
    BY <1>5 DEF SendLastData, clientVars
  <2>2. ASSUME NEW t \in Streams PROVE Heard(srv[t], srv'[t])
    BY <1>1, <2>1 DEF Heard, SrvAgree, SrvFields, ServerType
  <2> QED
    BY <2>1, <2>2 DEF Untouched, Undisturbed, Steady
<1>6. ASSUME NEW s \in Streams, NEW q, st' = [st EXCEPT ![s] = q], srv' = srv, Undisturbed(st[s], q)
      PROVE  Untouched
  <2>1. \A t \in Streams : Heard(srv[t], srv'[t])
    BY <1>1, <1>6, RstHeard
  <2> QED
    BY <1>6, <2>1, OneUndisturbed
<1>7. ASSUME NEW s \in Streams, LastDataWritten(s) PROVE Untouched
  <2> DEFINE p == [st[s] EXCEPT !.localEnded = TRUE]
  <2>1. st' = [st EXCEPT ![s] = MaybeClose(p)] /\ srv' = srv
    BY <1>7 DEF LastDataWritten, serverVars
  <2>2. p \in StreamType /\ Agree(st[s], p, {"localEnded"})
    BY <1>1, ZenonT(60) DEF StreamType, Agree, Fields
  <2> HIDE DEF p
  <2>3. /\ Agree(st[s], p, Aside)
        /\ p.opened = st[s].opened /\ p.closed = st[s].closed /\ p.responded = st[s].responded
        /\ p.declared = st[s].declared /\ p.head = st[s].head
    BY <2>2 DEF Agree, Fields, Aside
  <2>4. Undisturbed(st[s], MaybeClose(p))
    BY <1>1, <2>2, <2>3, Undisturbs, CloseUndisturbed
  <2> QED
    BY <1>6, <2>1, <2>4
<1>8. ASSUME NEW s \in Streams, Read(s) PROVE Untouched
  <2> DEFINE p == [st[s] EXCEPT !.pull = "running"]
  <2>1. st' = [st EXCEPT ![s] = p] /\ srv' = srv
    BY <1>8 DEF Read, serverVars
  <2>2. p \in StreamType /\ Agree(st[s], p, {"pull"})
    BY <1>1, ZenonT(60) DEF StreamType, Agree, Fields
  <2> HIDE DEF p
  <2>3. /\ Agree(st[s], p, Aside)
        /\ p.opened = st[s].opened /\ p.closed = st[s].closed /\ p.responded = st[s].responded
        /\ p.declared = st[s].declared /\ p.head = st[s].head
    BY <2>2 DEF Agree, Fields, Aside
  <2> QED
    BY <1>6, <2>1, <2>3, Undisturbs
<1> QED
  BY <1>2, <1>3, <1>4, <1>5, <1>7, <1>8

\* Nor does a frame that is not DATA, nor a shutdown.
LEMMA FrameFlow ==
  ASSUME StreamInv, Scalars, OnFrame \/ Close, ~OnData
  PROVE  /\ Untouched
         /\ OnResponseHead \/ OnTrailers => LET s == Head(s2c).stream IN st'[s].closed \/ st'[s].responded
PROOF
<1> DEFINE f == Head(s2c)
           s == f.stream
<1>1. /\ st \in [Streams -> StreamType] /\ srv \in [Streams -> ServerType]
      /\ {"malformed", "retryable", "peerReset", "closed", "overrun", "ended",
          "truncated"} \subseteq Failures \ {"protocol"}
  BY DEF StreamInv, Failures
<1>2. ASSUME NEW t \in Streams PROVE Undisturbed(st[t], st[t]) /\ Heard(srv[t], srv[t])
  BY <1>1, RstHeard DEF Undisturbed, Steady
<1>3. ASSUME NEW t \in Streams, NEW e \in Failures \ {"protocol"}
      PROVE  Undisturbed(st[t], FailStream(st[t], e))
  BY <1>1, <1>2, FailUndisturbed
<1>4. ASSUME srv' = srv, \A t \in Streams : Undisturbed(st[t], st'[t]) PROVE Untouched
  BY <1>2, <1>4 DEF Untouched
<1>5. ASSUME NEW t \in Streams, NEW q, st' = [st EXCEPT ![t] = q], srv' = srv, Undisturbed(st[t], q)
      PROVE  Untouched /\ st'[t] = q
  BY <1>1, <1>2, <1>5, OneUndisturbed
<1>6. ASSUME OnResponseHead PROVE Untouched /\ (st'[s].closed \/ st'[s].responded)
  <2> DEFINE x == st[s]
             r == [x EXCEPT !.responded = TRUE, !.declared = f.declared, !.exempt = f.exempt]
             c == [r EXCEPT !.head = "ok", !.completed = "whole", !.recvEnded = TRUE]
             h == [r EXCEPT !.head = "ok"]
  <2>1. s2c # <<>> /\ f.type = "headers"
    BY <1>6 DEF OnResponseHead, Receives
  <2>2. s \in Streams /\ f.declared \in Int /\ f.exempt \in BOOLEAN
    BY <2>1, OldestFrame, FrameTypes DEF HeaderFrames
  <2>3. x \in StreamType
    BY <1>1, <2>2
  <2>4. r \in StreamType /\ r.responded /\ Agree(x, r, {"responded", "declared", "exempt"})
    BY <2>2, <2>3, HeadDelivered
  <2>10. ~x.responded
    BY <1>6 DEF OnResponseHead
  <2>5. \/ ResetStream(s, x, "malformed")
        \/ st' = [st EXCEPT ![s] = h] /\ srv' = srv
        \/ st' = [st EXCEPT ![s] = MaybeClose(c)] /\ srv' = srv
        \/ ResetStream(s, r, "malformed")
    BY <1>6 DEF OnResponseHead
  <2> HIDE DEF r, f
  <2>6. Undisturbed(x, r) /\ Undisturbed(x, x)
    <3>1. Agree(x, r, Aside) /\ r.opened = x.opened /\ r.closed = x.closed /\ r.head = x.head
      BY <2>4 DEF Agree, Fields, Aside
    <3> QED
      BY <1>2, <2>2, <2>4, <2>10, <3>1, Undisturbs
  <2>7. CASE ResetStream(s, x, "malformed") \/ ResetStream(s, r, "malformed")
    BY <1>1, <2>2, <2>3, <2>4, <2>6, <2>7, ResetUndisturbed
  <2>8. CASE st' = [st EXCEPT ![s] = h] /\ srv' = srv
    <3>1. h \in StreamType /\ Agree(r, h, {"head"}) /\ h.head = "ok"
      BY <2>4 DEF StreamType, Agree, Fields
    <3> HIDE DEF h
    <3>2. Agree(x, h, Aside) /\ h.opened = x.opened /\ h.closed = x.closed /\ h.responded = r.responded
      BY <2>4, <3>1 DEF Agree, Fields, Aside
    <3>3. Undisturbed(x, h)
      BY <2>4, <2>10, <3>1, <3>2, Undisturbs
    <3> QED
      BY <1>5, <2>2, <2>4, <2>8, <3>2, <3>3
  <2>9. CASE st' = [st EXCEPT ![s] = MaybeClose(c)] /\ srv' = srv
    <3>1. c \in StreamType /\ Agree(r, c, {"head", "completed", "recvEnded"}) /\ c.head = "ok"
      BY <2>4 DEF StreamType, Agree, Fields
    <3> HIDE DEF c
    <3>2. Agree(x, c, Aside) /\ c.opened = x.opened /\ c.closed = x.closed /\ c.responded = r.responded
      BY <2>4, <3>1 DEF Agree, Fields, Aside
    <3>3. Undisturbed(x, MaybeClose(c))
      BY <2>3, <2>4, <2>10, <3>1, <3>2, Undisturbs, CloseUndisturbed
    <3>4. MaybeClose(c).responded = c.responded
      BY <3>1, MaybeCloses DEF Agree, Fields
    <3> QED
      BY <1>5, <2>2, <2>4, <2>9, <3>2, <3>3, <3>4
  <2> QED
    BY <2>5, <2>7, <2>8, <2>9
<1>7. ASSUME OnTrailers PROVE Untouched /\ (st'[s].closed \/ st'[s].responded)
  <2> DEFINE q == MaybeClose(WakePull([st[s] EXCEPT !.recvEnded = TRUE]))
  <2>1. s2c # <<>> /\ f.type = "headers" /\ st[s].responded
    BY <1>7 DEF OnTrailers, Receives
  <2>2. s \in Streams /\ st[s] \in StreamType
    BY <1>1, <2>1, OldestFrame, FrameTypes DEF HeaderFrames
  <2>3. ResetStream(s, st[s], "malformed") \/ (st' = [st EXCEPT ![s] = q] /\ srv' = srv)
    BY <1>7 DEF OnTrailers, EndRecv
  <2>4. Undisturbed(st[s], q)
    BY <2>2, EndUndisturbed
  <2> HIDE DEF q, f
  <2>5. CASE ResetStream(s, st[s], "malformed")
    BY <1>1, <1>2, <2>2, <2>5, ResetUndisturbed
  <2>6. CASE st' = [st EXCEPT ![s] = q] /\ srv' = srv
    BY <1>5, <2>1, <2>2, <2>4, <2>6 DEF Undisturbed, Steady
  <2> QED
    BY <2>3, <2>5, <2>6
<1>8. ASSUME OnRstStream PROVE Untouched
  <2>1. s2c # <<>> /\ f.type = "rst"
    BY <1>8 DEF OnRstStream, Receives
  <2>2. s \in Streams
    BY <2>1, OldestFrame, FrameTypes DEF RstFrames
  <2>3. PICK e \in {"retryable", "peerReset"} : st' = [st EXCEPT ![s] = FailStream(st[s], e)]
    BY <1>8 DEF OnRstStream
  <2>4. srv' = srv
    BY <1>8 DEF OnRstStream, serverVars
  <2> QED
    BY <1>1, <1>3, <1>5, <2>2, <2>3, <2>4
<1>9. ASSUME OnGoaway PROVE Untouched
  <2>1. ASSUME NEW t \in Streams PROVE st'[t] = st[t] \/ st'[t] = FailStream(st[t], "retryable")
    BY <1>9 DEF OnGoaway
  <2>2. srv' = srv
    BY <1>9 DEF OnGoaway, serverVars
  <2> QED
    BY <1>1, <1>2, <1>3, <1>4, <2>1, <2>2
<1>10. ASSUME OnSettings \/ OnUnknownStream PROVE Untouched
  BY <1>2, <1>4, <1>10 DEF OnSettings, OnUnknownStream, clientVars, serverVars
<1>11. ASSUME OnDataOverrun \/ OnEof \/ Close PROVE Untouched
  <2>1. PICK e \in {"overrun", "ended", "truncated", "closed"} : Shutdown(e)
    BY <1>11 DEF OnDataOverrun, OnEof, Close
  <2>2. srv' = srv
    BY <1>11 DEF OnDataOverrun, OnEof, Close, serverVars
  <2>3. ASSUME NEW t \in Streams PROVE st'[t] = st[t] \/ st'[t] = FailStream(st[t], e)
    BY <2>1 DEF Shutdown
  <2> QED
    BY <1>1, <1>2, <1>3, <1>4, <2>1, <2>2, <2>3
<1> QED
  BY <1>6, <1>7, <1>8, <1>9, <1>10, <1>11 DEF OnFrame

-----------------------------------------------------------------------------
(***************************************************************************)
(* Every step, by what it does to the flow of bytes.                       *)
(***************************************************************************)
CountersKept == UNCHANGED <<recvWin, consumed, srvWin>>

SameFlow == \A t \in Streams : Steady(st[t], st'[t]) /\ Heard(srv[t], srv'[t])

\* A caller's step that writes no credit.
Quiet == SameFlow /\ CountersKept /\ UNCHANGED <<s2c, fatal, events>>

\* A frame that is not DATA is dispatched; a stream that gets HEADERS has its
\* head then, or is gone.
Dispatched ==
  /\ SameFlow /\ CountersKept /\ UNCHANGED <<fatal, events>>
  /\ fatal = "none" /\ s2c # <<>> /\ s2c' = Tail(s2c) /\ Head(s2c).type # "data"
  /\ Head(s2c).type = "headers" =>
       LET s == Head(s2c).stream IN ~Live(s) \/ st'[s].closed \/ st'[s].responded

\* A frame that is not DATA is written, HEADERS only for a request.
Written(f) ==
  /\ CountersKept /\ UNCHANGED <<st, fatal, events>>
  /\ s2c' = Append(s2c, f) /\ f.type # "data"
  /\ f.type = "headers" => srv[f.stream].open
  /\ \A t \in Streams : /\ srv'[t].win = srv[t].win /\ srv'[t].open = srv[t].open
                        /\ \/ srv'[t].headers = srv[t].headers
                           \/ f.type = "headers" /\ f.stream = t

\* The connection ends.
Died ==
  /\ SameFlow /\ UNCHANGED <<consumed, srvWin, events>>
  /\ fatal = "none" /\ fatal' # "none"
  /\ fatal' = "overrun" => OnDataOverrun

\* What a caller does to a stream's bytes, if it does not read them, is nothing.
LEMMA CallerSteps ==
  ASSUME StreamInv, Scalars, Caller
  PROVE  Quiet \/ Died \/ \E s \in Streams : PullChunk(s)
PROOF
<1>1. /\ st \in [Streams -> StreamType] /\ srv \in [Streams -> ServerType]
      /\ Untouched => SameFlow
  BY DEF StreamInv, Untouched, SameFlow, Undisturbed
<1>2. CASE \/ \E hasBody \in BOOLEAN : Request(hasBody)
           \/ RequestAborted
           \/ \E s \in Streams : Abort(s) \/ SendLastData(s) \/ LastDataWritten(s) \/ Read(s)
  <2>1. SameFlow
    BY <1>1, <1>2, RequestFlow
  <2>2. CountersKept /\ UNCHANGED <<s2c, fatal, events>>
    <3>1. ASSUME NEW hasBody \in BOOLEAN, Request(hasBody)
          PROVE  CountersKept /\ UNCHANGED <<s2c, fatal, events>>
      BY <3>1 DEF Request, CountersKept
    <3>2. ASSUME RequestAborted PROVE CountersKept /\ UNCHANGED <<s2c, fatal, events>>
      BY <3>2 DEF RequestAborted, CountersKept
    <3>3. ASSUME NEW s \in Streams, Abort(s) \/ SendLastData(s) \/ LastDataWritten(s) \/ Read(s)
          PROVE  CountersKept /\ UNCHANGED <<s2c, fatal, events>>
      BY <3>3 DEF Abort, SendLastData, LastDataWritten, Read, CountersKept, clientVars, serverVars
    <3> QED
      BY <1>2, <3>1, <3>2, <3>3
  <2> QED
    BY <2>1, <2>2 DEF Quiet
<1>3. ASSUME NEW s \in Streams, PullOutcome(s) \/ Cancel(s) PROVE Quiet
  <2> DEFINE r == st[s]
             q == st'[s]
  <2>1. \A t \in Streams : Heard(srv[t], srv'[t])
    <3>1. srv' = srv \/ srv' = PeerGetsRst(srv, s)
      BY <1>3 DEF PullOutcome, Cancel, serverVars
    <3> QED
      BY <1>1, <3>1, RstHeard
  <2>2. Steady(r, q)
    <3>1. CASE PullOutcome(s)
      <4>1. q = BodyFails(r) \/ q = BodyEnds(r) \/ q = BodyWaits(r)
        BY <1>1, <3>1 DEF PullOutcome, Drained
      <4>5. r.queue = <<>>
        BY <3>1 DEF PullOutcome
      <4>2. CASE q = BodyFails(r)
        BY <1>1, <4>2, <4>5 DEF BodyFails, Steady, StreamType
      <4>3. CASE q = BodyEnds(r)
        BY <1>1, <4>3, <4>5 DEF BodyEnds, Steady, StreamType
      <4>4. CASE q = BodyWaits(r)
        BY <1>1, <4>4 DEF BodyWaits, Steady, StreamType
      <4> QED
        BY <4>1, <4>2, <4>3, <4>4
    <3>2. CASE Cancel(s)
      <4>1. q = [r EXCEPT !.closed = TRUE, !.rstSent = TRUE, !.completed = Settle(@, "partial"),
                          !.outcome = "cancelled", !.pull = "none"]
        BY <1>1, <3>2 DEF Cancel
      <4> QED
        BY <1>1, <4>1 DEF Steady, StreamType
    <3> QED
      BY <1>3, <3>1, <3>2
  <2>3. \A t \in Streams : t # s => st'[t] = st[t]
    BY <1>1, <1>3 DEF PullOutcome, Cancel
  <2>4. \A t \in Streams : Steady(st[t], st'[t])
    BY <2>2, <2>3 DEF Steady
  <2>5. CountersKept /\ UNCHANGED <<s2c, fatal, events>>
    BY <1>3 DEF PullOutcome, Cancel, CountersKept, serverVars
  <2> QED
    BY <2>1, <2>4, <2>5 DEF Quiet, SameFlow
<1>4. ASSUME Close PROVE Died
  <2>1. ~OnData
    BY <1>4 DEF Close, OnData, Shutdown
  <2>2. SameFlow
    BY <1>1, <1>4, <2>1, FrameFlow
  <2> QED
    BY <1>4, <2>2 DEF Close, Shutdown, Died, serverVars
<1> QED
  BY <1>2, <1>3, <1>4 DEF Caller, Pull

\* Of the frames only DATA moves bytes.
LEMMA FrameSteps ==
  ASSUME StreamInv, Scalars, OnFrame, ~OnData
  PROVE  Dispatched \/ Died
PROOF
<1>1. SameFlow
  BY FrameFlow DEF Untouched, SameFlow, Undisturbed
<1>2. CASE OnResponseHead \/ OnTrailers
  <2>1. LET s == Head(s2c).stream IN st'[s].closed \/ st'[s].responded
    BY <1>2, FrameFlow
  <2> QED
    BY <1>1, <1>2, <2>1 DEF OnResponseHead, OnTrailers, Receives, Dispatched, CountersKept
<1>3. CASE OnUnknownStream \/ OnRstStream \/ OnGoaway \/ OnSettings
  BY <1>1, <1>3 DEF OnUnknownStream, OnRstStream, OnGoaway, OnSettings, Receives, Dispatched,
                    CountersKept, clientVars, serverVars
<1>4. CASE OnDataOverrun
  BY <1>1, <1>4 DEF OnDataOverrun, Shutdown, Died, serverVars
<1>5. CASE OnEof
  BY <1>1, <1>5 DEF OnEof, Shutdown, Died, serverVars
<1> QED
  BY <1>2, <1>3, <1>4, <1>5 DEF OnFrame

\* The server sends bytes, or another frame.
LEMMA ServerSteps ==
  ASSUME StreamInv, Server
  PROVE  \/ Quiet
         \/ \E f \in Frames : Written(f)
         \/ \E s \in Streams : SrvData(s) \/ SrvRogueData(s)
PROOF
<1>1. srv \in [Streams -> ServerType]
  BY DEF StreamInv
<1>2. ASSUME NEW s \in Streams, SrvProcess(s) PROVE Quiet
  <2>1. st' = st /\ srv' = [srv EXCEPT ![s].processed = TRUE]
    BY <1>2 DEF SrvProcess, clientVars
  <2>2. \A t \in Streams : Heard(srv[t], srv'[t])
    BY <1>1, <2>1 DEF Heard, SrvAgree, SrvFields, ServerType
  <2> QED
    BY <1>2, <2>1, <2>2 DEF SrvProcess, clientVars, Quiet, CountersKept, SameFlow, Steady
<1>3. ASSUME NEW s \in Streams, SrvHeaders(s) PROVE \E f \in Frames : Written(f)
  <2>1. PICK body \in Bodies, declared \in Bodies \union {NoLength}, end \in BOOLEAN, exempt \in BOOLEAN :
          /\ Serves(s) /\ Write(HeadersFrame(s, declared, exempt, end, FALSE))
          /\ srv' = [srv EXCEPT ![s].headers = TRUE, ![s].left = body, ![s].ended = end]
          /\ UNCHANGED <<events, clientVars, srvWin, srvLast>>
    BY <1>3, ZenonT(60) DEF SrvHeaders
  <2> DEFINE f == HeadersFrame(s, declared, exempt, end, FALSE)
  <2>2. f \in Frames /\ f.type = "headers" /\ f.stream = s
    BY <2>1, Http2Assumption DEF HeadersFrame, Frames, HeaderFrames, NoLength
  <2>3. s2c' = Append(s2c, f) /\ srv[s].open
    BY <2>1 DEF Write, Serves
  <2> HIDE DEF f
  <2>4. \A t \in Streams : /\ srv'[t].win = srv[t].win /\ srv'[t].open = srv[t].open
                           /\ t # s => srv'[t].headers = srv[t].headers
    BY <1>1, <2>1 DEF ServerType
  <2>5. Written(f)
    BY <2>1, <2>2, <2>3, <2>4 DEF Written, CountersKept, clientVars
  <2> QED
    BY <2>2, <2>5
<1>4. ASSUME NEW s \in Streams, SrvMalformed(s) PROVE \E f \in Frames : Written(f)
  <2> DEFINE f == HeadersFrame(s, NoLength, FALSE, FALSE, TRUE)
  <2>1. /\ Serves(s) /\ Write(f) /\ srv' = [srv EXCEPT ![s].headers = TRUE]
        /\ UNCHANGED <<events, clientVars, srvWin, srvLast>>
    BY <1>4 DEF SrvMalformed
  <2>2. f \in Frames /\ f.type = "headers" /\ f.stream = s
    BY DEF HeadersFrame, Frames, HeaderFrames, NoLength
  <2> HIDE DEF f
  <2>3. s2c' = Append(s2c, f) /\ srv[s].open
    BY <2>1 DEF Write, Serves
  <2>4. \A t \in Streams : /\ srv'[t].win = srv[t].win /\ srv'[t].open = srv[t].open
                           /\ t # s => srv'[t].headers = srv[t].headers
    BY <1>1, <2>1 DEF ServerType
  <2>5. Written(f)
    BY <2>1, <2>2, <2>3, <2>4 DEF Written, CountersKept, clientVars
  <2> QED
    BY <2>2, <2>5
<1>5. ASSUME NEW s \in Streams, SrvTrailers(s) PROVE \E f \in Frames : Written(f)
  <2> DEFINE f == HeadersFrame(s, NoLength, FALSE, TRUE, FALSE)
  <2>1. /\ Serves(s) /\ Write(f) /\ srv' = [srv EXCEPT ![s].ended = TRUE]
        /\ UNCHANGED <<events, clientVars, srvWin, srvLast>>
    BY <1>5 DEF SrvTrailers
  <2>2. f \in Frames /\ f.type = "headers" /\ f.stream = s
    BY DEF HeadersFrame, Frames, HeaderFrames, NoLength
  <2> HIDE DEF f
  <2>3. s2c' = Append(s2c, f) /\ srv[s].open
    BY <2>1 DEF Write, Serves
  <2>4. \A t \in Streams : /\ srv'[t].win = srv[t].win /\ srv'[t].open = srv[t].open
                           /\ srv'[t].headers = srv[t].headers
    BY <1>1, <2>1 DEF ServerType
  <2>5. Written(f)
    BY <2>1, <2>2, <2>3, <2>4 DEF Written, CountersKept, clientVars
  <2> QED
    BY <2>2, <2>5
<1>6. ASSUME NEW s \in Streams, SrvRst(s) PROVE \E f \in Frames : Written(f)
  <2>1. PICK refused \in BOOLEAN :
          /\ Write([type |-> "rst", stream |-> s, refused |-> refused])
          /\ srv' = [srv EXCEPT ![s].rst = TRUE]
          /\ UNCHANGED <<events, clientVars, srvWin, srvLast>>
    BY <1>6 DEF SrvRst
  <2> DEFINE f == [type |-> "rst", stream |-> s, refused |-> refused]
  <2>2. f \in Frames /\ f.type = "rst"
    BY DEF Frames, RstFrames
  <2>3. s2c' = Append(s2c, f)
    BY <2>1 DEF Write
  <2> HIDE DEF f
  <2>4. \A t \in Streams : /\ srv'[t].win = srv[t].win /\ srv'[t].open = srv[t].open
                           /\ srv'[t].headers = srv[t].headers
    BY <1>1, <2>1 DEF ServerType
  <2>5. Written(f)
    BY <2>1, <2>2, <2>3, <2>4 DEF Written, CountersKept, clientVars
  <2> QED
    BY <2>2, <2>5
<1>7. ASSUME SrvGoaway \/ SrvSettings \/ SrvEof PROVE \E f \in Frames : Written(f)
  <2>1. PICK f \in Frames : Write(f) /\ f.type \notin {"data", "headers"}
    <3>1. ASSUME SrvGoaway PROVE \E f \in GoawayFrames : Write(f) /\ f.type \notin {"data", "headers"}
      BY <3>1 DEF SrvGoaway, GoawayFrames
    <3>2. ASSUME SrvSettings PROVE \E f \in SettingsFrames : Write(f) /\ f.type \notin {"data", "headers"}
      BY <3>2 DEF SrvSettings, SettingsFrames
    <3>3. ASSUME SrvEof PROVE \E f \in EofFrames : Write(f) /\ f.type \notin {"data", "headers"}
      BY <3>3 DEF SrvEof, EofFrames
    <3>4. GoawayFrames \subseteq Frames /\ SettingsFrames \subseteq Frames /\ EofFrames \subseteq Frames
      BY DEF Frames
    <3> QED
      BY <1>7, <3>1, <3>2, <3>3, <3>4
  <2>2. UNCHANGED <<events, clientVars, srv, srvWin>>
    BY <1>7 DEF SrvGoaway, SrvSettings, SrvEof, serverVars
  <2>3. Written(f)
    BY <2>1, <2>2 DEF Written, Write, CountersKept, clientVars
  <2> QED
    BY <2>3
<1> QED
  BY <1>2, <1>3, <1>4, <1>5, <1>6, <1>7 DEF Server

-----------------------------------------------------------------------------
(***************************************************************************)
(* DATA, as far as the flow of bytes is concerned.                         *)
(***************************************************************************)
\* The credit of n bytes, once they are paid with what was owed before.
Paid(r, n) == n > 0 /\ StreamOwes(r, n)

\* _replenish on the client's side ...
LEMMA WindowGrows ==
  ASSUME NEW r \in StreamType, NEW n \in Nat
  PROVE  LET q == ReplenishStream(r, n) IN
         /\ q \in StreamType /\ Agree(r, q, {"recvWindow", "recvConsumed"})
         /\ q.recvWindow = r.recvWindow + n
         /\ q.recvConsumed = IF StreamOwes(r, n) THEN 0 ELSE r.recvConsumed + n
PROOF
<1>1. r.recvConsumed + n \in Nat /\ r.recvWindow + n \in Int
  BY DEF StreamType
<1>2. ReplenishStream(r, n).recvWindow = r.recvWindow + n
  BY DEF ReplenishStream, StreamType
<1>3. ReplenishStream(r, n).recvConsumed = IF StreamOwes(r, n) THEN 0 ELSE r.recvConsumed + n
  BY DEF ReplenishStream, StreamType
<1> QED
  BY <1>2, <1>3, Replenishes

\* ... and on the server's.
LEMMA PeerPaid ==
  ASSUME NEW v \in [Streams -> ServerType], NEW s \in Streams, NEW r \in StreamType, NEW n \in Nat
  PROVE  LET w == ReplenishPeer(v, s, r, n) IN
         /\ w \in [Streams -> ServerType]
         /\ \A t \in Streams : SrvAgree(v[t], w[t], {"late", "win"})
         /\ \A t \in Streams \ {s} : w[t].win = v[t].win
         /\ w[s].win = IF Paid(r, n) /\ fatal = "none" THEN v[s].win + (r.recvConsumed + n) ELSE v[s].win
PROOF
<1> DEFINE w == ReplenishPeer(v, s, r, n)
<1>1. r.recvConsumed + n \in Nat
  BY DEF StreamType
<1>2. CASE Paid(r, n) /\ fatal = "none"
  <2> DEFINE u == PeerGetsCredit(v, s, r.recvConsumed + n)
  <2>1. w = u
    BY <1>2 DEF ReplenishPeer, Paid
  <2>2. /\ u \in [Streams -> ServerType]
        /\ \A t \in Streams \ {s} : u[t] = v[t]
        /\ SrvAgree(v[s], u[s], {"late", "win"})
    BY <1>1, PeerCredit
  <2>3. u[s].win = v[s].win + (r.recvConsumed + n)
    BY DEF PeerGetsCredit, ServerType
  <2> HIDE DEF u
  <2>4. \A t \in Streams : SrvAgree(v[t], u[t], {"late", "win"})
    BY <2>2 DEF SrvAgree
  <2> HIDE DEF w
  <2> QED
    BY <1>2, <2>1, <2>2, <2>3, <2>4 DEF w
<1>3. CASE ~(Paid(r, n) /\ fatal = "none")
  <2>1. w = v
    BY <1>3 DEF ReplenishPeer, Paid
  <2> QED
    BY <1>3, <2>1 DEF SrvAgree
<1> QED
  BY <1>2, <1>3

\* The window of a stream that was charged for a frame and credited its padding.
LEMMA ChargedWindow ==
  ASSUME NEW x \in StreamType, NEW flow \in Nat, NEW pad \in Nat, NEW len \in Nat
  PROVE  LET r == Charged(x, flow, pad, len) IN
         /\ r.recvWindow = x.recvWindow - flow + pad
         /\ r.recvConsumed = IF Paid(x, pad) THEN 0 ELSE x.recvConsumed + pad
         /\ r.received = x.received + len
PROOF
<1> DEFINE a == [x EXCEPT !.recvWindow = @ - flow]
           b == ReplenishStream(a, pad)
           p == IF pad > 0 THEN b ELSE a
           r == [p EXCEPT !.received = @ + len]
<1>1. /\ a \in StreamType /\ a.recvWindow = x.recvWindow - flow
      /\ a.recvConsumed = x.recvConsumed /\ a.closed = x.closed /\ a.received = x.received
  <2>1. x.recvWindow - flow \in Int
    BY DEF StreamType
  <2> QED
    BY <2>1 DEF StreamType
<1>2. r = Charged(x, flow, pad, len)
  BY DEF Charged
<1> HIDE DEF a
<1>3. /\ b \in StreamType /\ b.recvWindow = a.recvWindow + pad
      /\ b.recvConsumed = IF StreamOwes(a, pad) THEN 0 ELSE a.recvConsumed + pad
      /\ b.received = a.received
  BY <1>1, WindowGrows DEF Agree, Fields
<1>4. StreamOwes(a, pad) <=> StreamOwes(x, pad)
  BY <1>1 DEF StreamOwes
<1> HIDE DEF b
<1>5. /\ p \in StreamType /\ p.recvWindow = x.recvWindow - flow + pad
      /\ p.recvConsumed = IF Paid(x, pad) THEN 0 ELSE x.recvConsumed + pad
      /\ p.received = x.received
  <2>1. CASE pad > 0
    BY <1>1, <1>3, <1>4, <2>1 DEF Paid
  <2>2. CASE pad = 0
    <3>1. x.recvWindow \in Int /\ x.recvConsumed \in Nat /\ ~(pad > 0)
      BY <2>2 DEF StreamType
    <3> QED
      BY <1>1, <2>2, <3>1 DEF Paid
  <2> QED
    BY <2>1, <2>2
<1> HIDE DEF p
<1>6. /\ r.recvWindow = p.recvWindow /\ r.recvConsumed = p.recvConsumed
      /\ r.received = x.received + len
  BY <1>5 DEF StreamType
<1> QED
  BY <1>2, <1>5, <1>6

\* What the frame f does to the stream x: its bytes are queued, all of them if
\* the stream lives on, and its window is charged.
Received(x, q, f) ==
  /\ \/ q.queue = x.queue
     \/ f.len > 0 /\ \E c \in Chunks : c.len = f.len /\ q.queue = Append(x.queue, c)
  /\ q.delivered = x.delivered /\ q.outcome = x.outcome
  /\ x.opened => q.opened
  /\ x.closed => q.closed
  /\ x.responded => q.responded
  /\ q.error = "protocol" => x.error = "protocol"
  /\ q.received = x.received + f.len /\ q.declared = x.declared
  /\ x.head = "ok" => q.head = "ok"
  /\ q.queue = x.queue /\ f.len > 0 => q.declared # NoLength /\ q.received > q.declared
  /\ ~q.closed =>
       /\ f.len > 0 => q.queue # x.queue
       /\ q.recvWindow = x.recvWindow - (f.len + f.pad) + f.pad
       /\ q.recvConsumed = IF Paid(x, f.pad) THEN 0 ELSE x.recvConsumed + f.pad

\* ... or the stream is blamed for sending what it may not.
Blamed(x, q) ==
  /\ q.closed /\ q.queue = x.queue /\ (x.opened => q.opened)
  /\ q.received = x.received /\ q.delivered = x.delivered
  /\ q.declared = x.declared /\ q.outcome = x.outcome /\ (x.head = "ok" => q.head = "ok")

\* The three ends of _onData.
DataStray(s, flow) == ~Live(s) /\ ConnCredit(flow, flow) /\ UNCHANGED <<st, srv>>
DataBlamed(s, flow) ==
  /\ Live(s) /\ (~st[s].responded \/ st[s].recvWindow < flow)
  /\ ConnCredit(flow, 0) /\ Blamed(st[s], st'[s])
  /\ \A t \in Streams : SrvAgree(srv[t], srv'[t], {"gotRst", "late"})
DataReceived(s, f) ==
  /\ Live(s) /\ st[s].responded /\ st[s].recvWindow >= f.len + f.pad
  /\ ConnCredit(f.len + f.pad, f.pad) /\ Received(st[s], st'[s], f)
  /\ \A t \in Streams :
       SrvAgree(ReplenishPeer(srv, s, st[s], f.pad)[t], srv'[t], {"gotRst", "late"})

\* DATA does one of these three, to its own stream.
LEMMA DataSteps ==
  ASSUME StreamInv, Scalars, OnData
  PROVE  LET f == Head(s2c)
             s == f.stream
             flow == f.len + f.pad
         IN /\ fatal = "none" /\ s2c # <<>> /\ s2c' = Tail(s2c) /\ f \in DataFrames /\ s \in Streams
            /\ recvWin >= flow /\ UNCHANGED <<fatal, events>>
            /\ \A t \in Streams \ {s} : st'[t] = st[t]
            /\ DataStray(s, flow) \/ DataBlamed(s, flow) \/ DataReceived(s, f)
PROOF
<1> DEFINE f == Head(s2c)
           s == f.stream
           flow == f.len + f.pad
           x == st[s]
           c == [stream |-> s, from |-> f.from, len |-> f.len]
           r == Charged(x, flow, f.pad, f.len)
           full == Stocked(r, c)
           paid == ReplenishPeer(srv, s, x, f.pad)
           z == [x EXCEPT !.recvWindow = IF x.responded THEN @ - flow ELSE @]
<1>1. /\ fatal = "none" /\ s2c # <<>> /\ f.type = "data" /\ s2c' = Tail(s2c) /\ recvWin >= flow
      /\ UNCHANGED <<fatal, events>>
  BY DEF OnData, Receives
<1>2. f \in DataFrames
  BY <1>1, OldestFrame, FrameTypes
<1>3. /\ s \in Streams /\ flow \in Nat /\ f.pad \in Nat /\ f.len \in Nat /\ f.end \in BOOLEAN
      /\ c \in Chunks /\ c.len = f.len
  BY <1>2 DEF DataFrames, Chunks
<1>4. x \in StreamType /\ st \in [Streams -> StreamType] /\ srv \in [Streams -> ServerType]
  BY <1>3 DEF StreamInv
<1>5. \/ DataStray(s, flow)
      \/ /\ Live(s) /\ (~x.responded \/ x.recvWindow < flow)
         /\ ConnCredit(flow, 0) /\ ResetStream(s, z, "protocol")
      \/ /\ Live(s) /\ x.responded /\ x.recvWindow >= flow
         /\ ConnCredit(flow, f.pad)
         /\ DataHandled(s, f.end, r, full, paid)
  BY DEF OnData, StrayCredited, Charged, Stocked, DataHandled, TooLong, DataStray
<1>6. CASE DataStray(s, flow)
  BY <1>1, <1>2, <1>3, <1>6 DEF DataStray
<1>7. CASE /\ Live(s) /\ (~x.responded \/ x.recvWindow < flow)
           /\ ConnCredit(flow, 0) /\ ResetStream(s, z, "protocol")
  <2>1. z \in StreamType /\ Agree(x, z, {"recvWindow"})
    <3>1. (IF x.responded THEN x.recvWindow - flow ELSE x.recvWindow) \in Int
      BY <1>3, <1>4 DEF StreamType
    <3> HIDE DEF flow
    <3> QED
      BY <1>4, <3>1 DEF StreamType, Agree, Fields
  <2> DEFINE p == [z EXCEPT !.rstSent = TRUE]
             q == FailStream(p, "protocol")
  <2>2. p \in StreamType /\ Agree(z, p, {"rstSent"})
    BY <2>1, ZenonT(60) DEF StreamType, Agree, Fields
  <2>3. st' = [st EXCEPT ![s] = q]
    BY <1>7 DEF ResetStream
  <2> HIDE DEF z, p, f
  <2>4. Failed(p, q, "protocol")
    BY <2>2, Fails DEF Failures
  <2> HIDE DEF q
  <2>5. Blamed(x, q)
    BY <2>1, <2>2, <2>4 DEF Failed, Agree, Fields, Blamed
  <2>6. st'[s] = q /\ \A t \in Streams \ {s} : st'[t] = st[t]
    BY <1>3, <1>4, <2>3
  <2>7. DataBlamed(s, flow)
    <3> DEFINE w == PeerGetsRst(srv, s)
    <3>1. srv' = srv \/ srv' = w
      BY <1>7 DEF ResetStream
    <3>2. (\A t \in Streams \ {s} : w[t] = srv[t]) /\ SrvAgree(srv[s], w[s], {"gotRst", "late"})
      BY <1>3, <1>4, PeerRst
    <3> HIDE DEF w
    <3>3. \A t \in Streams : SrvAgree(srv[t], srv'[t], {"gotRst", "late"})
      BY <3>1, <3>2 DEF SrvAgree
    <3> QED
      BY <1>7, <2>5, <2>6, <3>3 DEF DataBlamed
  <2> QED
    BY <1>1, <1>2, <1>3, <2>6, <2>7 DEF f
<1>8. CASE /\ Live(s) /\ x.responded /\ x.recvWindow >= flow
           /\ ConnCredit(flow, f.pad)
           /\ DataHandled(s, f.end, r, full, paid)
  <2>0. r \in StreamType /\ Agree(x, r, {"recvWindow", "recvConsumed", "received"})
    BY <1>3, <1>4, Charges
  <2>1. /\ r.recvWindow = x.recvWindow - flow + f.pad
        /\ r.recvConsumed = IF Paid(x, f.pad) THEN 0 ELSE x.recvConsumed + f.pad
    BY <1>3, <1>4, ChargedWindow, SMTT(30)
  <2>18. r.received = x.received + f.len
    BY <1>3, <1>4, ChargedWindow, SMTT(30)
  <2> HIDE DEF r
  <2>2. /\ full \in StreamType /\ Agree(r, full, {"queue", "pull"})
        /\ full.queue = IF c.len > 0 THEN Append(r.queue, c) ELSE r.queue
    BY <1>3, <2>0, Stocks
  <2> HIDE DEF full, f, paid
  <2>3. \E y \in {r, full} : \E q \in StreamType :
          /\ st' = [st EXCEPT ![s] = q]
          /\ Agree(y, q, {"closed", "pull", "error", "head", "completed", "rstSent", "recvEnded"})
          /\ y.closed => q.closed
          /\ q.error = "protocol" => y.error = "protocol"
          /\ y.head = "ok" => q.head = "ok"
          /\ y = r => (q.closed /\ TooLong(r)) \/ r = full
          /\ srv' = paid \/ srv' = PeerGetsRst(paid, s)
    <3>1. CASE TooLong(r) \/ (f.end /\ ~LengthAgrees(full))
      <4> DEFINE y == IF TooLong(r) THEN r ELSE full
                 p == [y EXCEPT !.rstSent = TRUE]
                 q == FailStream(p, "malformed")
      <4>1. st' = [st EXCEPT ![s] = q] /\ (srv' = paid \/ srv' = PeerGetsRst(paid, s))
        BY <1>8, <3>1 DEF DataHandled
      <4>2. y \in StreamType /\ y \in {r, full}
        BY <2>0, <2>2
      <4> HIDE DEF y
      <4>3. p \in StreamType /\ Agree(y, p, {"rstSent"})
        BY <4>2 DEF StreamType, Agree, Fields
      <4> HIDE DEF p
      <4>4. Failed(p, q, "malformed")
        BY <4>3, Fails DEF Failures
      <4> HIDE DEF q
      <4>5. /\ q \in StreamType /\ q.closed
            /\ Agree(y, q, {"closed", "pull", "error", "head", "completed", "rstSent", "recvEnded"})
        BY <4>3, <4>4 DEF Failed, Agree
      <4>6. (q.error = "protocol" => y.error = "protocol") /\ (y.head = "ok" => q.head = "ok")
        BY <4>3, <4>4 DEF Failed, Agree, Fields
      <4> QED
        BY <4>1, <4>2, <4>5, <4>6 DEF y
    <3>2. CASE ~(TooLong(r) \/ (f.end /\ ~LengthAgrees(full)))
      <4> DEFINE a == [full EXCEPT !.recvEnded = TRUE]
                 b == WakePull(a)
                 q == IF f.end THEN MaybeClose(b) ELSE full
      <4>1. st' = [st EXCEPT ![s] = q] /\ srv' = paid
        BY <1>8, <3>2 DEF DataHandled
      <4>2. a \in StreamType /\ Agree(full, a, {"recvEnded"})
        BY <2>2 DEF StreamType, Agree, Fields
      <4> HIDE DEF a
      <4>3. b \in StreamType /\ Agree(a, b, {"pull"})
        BY <4>2, Wakes
      <4> HIDE DEF b
      <4>4. /\ MaybeClose(b) \in StreamType /\ Agree(b, MaybeClose(b), {"closed", "pull"})
            /\ b.closed => MaybeClose(b).closed
        BY <4>3, MaybeCloses
      <4>5. /\ MaybeClose(b).error = full.error /\ full.closed = b.closed
            /\ MaybeClose(b).head = full.head
            /\ Agree(full, MaybeClose(b), {"closed", "pull", "recvEnded"})
        BY <4>2, <4>3, <4>4 DEF Agree, Fields
      <4>6. /\ q \in StreamType
            /\ Agree(full, q, {"closed", "pull", "error", "head", "completed", "rstSent", "recvEnded"})
            /\ full.closed => q.closed
            /\ q.error = full.error /\ q.head = full.head
        BY <2>2, <4>4, <4>5 DEF Agree
      <4> QED
        BY <4>1, <4>6
    <3> QED
      BY <3>1, <3>2
  <2>4. PICK y \in {r, full}, q \in StreamType :
          /\ st' = [st EXCEPT ![s] = q]
          /\ Agree(y, q, {"closed", "pull", "error", "head", "completed", "rstSent", "recvEnded"})
          /\ y.closed => q.closed
          /\ q.error = "protocol" => y.error = "protocol"
          /\ y.head = "ok" => q.head = "ok"
          /\ y = r => (q.closed /\ TooLong(r)) \/ r = full
          /\ srv' = paid \/ srv' = PeerGetsRst(paid, s)
    BY <2>3
  <2>5. /\ r.queue = x.queue /\ r.opened = x.opened /\ r.closed = x.closed
        /\ r.responded = x.responded /\ r.error = x.error /\ r.declared = x.declared /\ r.head = x.head
        /\ r.delivered = x.delivered /\ r.outcome = x.outcome
    BY <2>0 DEF Agree, Fields
  <2>6. /\ full.opened = x.opened /\ full.closed = x.closed
        /\ full.responded = x.responded /\ full.error = x.error
        /\ full.delivered = x.delivered /\ full.outcome = x.outcome
        /\ full.recvWindow = r.recvWindow /\ full.recvConsumed = r.recvConsumed
        /\ full.received = r.received /\ full.declared = r.declared /\ full.head = x.head
    BY <2>2, <2>5 DEF Agree, Fields
  <2>7. /\ q.queue = y.queue /\ q.opened = y.opened /\ q.responded = y.responded
        /\ q.recvWindow = y.recvWindow /\ q.recvConsumed = y.recvConsumed
        /\ q.delivered = y.delivered /\ q.outcome = y.outcome
        /\ q.received = y.received /\ q.declared = y.declared
    BY <2>4 DEF Agree, Fields
  <2>8. c.len > 0 => full.queue # x.queue
    <3>1. x.queue \in Seq(Chunks)
      BY <1>4 DEF StreamType
    <3>2. Len(Append(x.queue, c)) = Len(x.queue) + 1 /\ Len(x.queue) \in Nat
      BY <3>1, LenProperties, AppendProperties
    <3>3. Append(x.queue, c) # x.queue
      BY <3>2
    <3> QED
      BY <2>2, <2>5, <3>3
  <2>9. st'[s] = q /\ \A t \in Streams \ {s} : st'[t] = st[t]
    BY <1>3, <1>4, <2>4
  <2>10. c \in Chunks /\ c.len = f.len /\ flow = f.len + f.pad
    BY <1>3
  <2> HIDE DEF c, flow, x
  <2>11. q.queue = x.queue \/ (f.len > 0 /\ q.queue = Append(x.queue, c))
    BY <2>2, <2>4, <2>5, <2>7, <2>10
  <2>12. ~q.closed => /\ f.len > 0 => q.queue # x.queue
                      /\ q.recvWindow = r.recvWindow /\ q.recvConsumed = r.recvConsumed
    BY <2>4, <2>6, <2>7, <2>8, <2>10
  <2>13. /\ x.opened => q.opened
         /\ x.closed => q.closed
         /\ x.responded => q.responded
         /\ q.error = "protocol" => x.error = "protocol"
         /\ q.delivered = x.delivered /\ q.outcome = x.outcome
    BY <2>4, <2>5, <2>6, <2>7
  <2>17. /\ q.received = x.received + f.len /\ q.declared = x.declared
         /\ x.head = "ok" => q.head = "ok"
    BY <2>4, <2>5, <2>6, <2>7, <2>18
  <2>19. q.queue = x.queue /\ f.len > 0 => q.declared # NoLength /\ q.received > q.declared
    BY <2>4, <2>7, <2>8, <2>10 DEF TooLong
  <2>14. Received(x, q, f)
    BY <2>1, <2>10, <2>11, <2>12, <2>13, <2>17, <2>19 DEF Received
  <2>15. \A t \in Streams : SrvAgree(paid[t], srv'[t], {"gotRst", "late"})
    <3>1. paid \in [Streams -> ServerType]
      BY <1>3, <1>4, PeerPaid DEF paid
    <3>2. CASE srv' = paid
      BY <3>2 DEF SrvAgree
    <3>3. CASE srv' = PeerGetsRst(paid, s)
      <4> DEFINE w == PeerGetsRst(paid, s)
      <4>1. (\A t \in Streams \ {s} : w[t] = paid[t]) /\ SrvAgree(paid[s], w[s], {"gotRst", "late"})
        BY <1>3, <3>1, PeerRst
      <4>2. srv' = w
        BY <3>3
      <4> HIDE DEF w
      <4> QED
        BY <4>1, <4>2 DEF SrvAgree
    <3> QED
      BY <2>4, <3>2, <3>3
  <2>16. DataReceived(s, f)
    BY <1>8, <2>9, <2>10, <2>14, <2>15 DEF DataReceived, x, paid
  <2> QED
    BY <1>1, <1>2, <1>3, <2>9, <2>16 DEF f, flow
<1> QED
  BY <1>5, <1>6, <1>7, <1>8

-----------------------------------------------------------------------------
(***************************************************************************)
(* Each stream's body implements ResponseBody.                             *)
(***************************************************************************)
\* The reader's and the server's share of a body are as they were.
SameRead(t) == st'[t].delivered = st[t].delivered /\ st'[t].outcome = st[t].outcome
SameSent(t) == srv'[t].sent = srv[t].sent /\ srv'[t].ended = srv[t].ended
SameBody == \A t \in Streams : SameRead(t) /\ SameSent(t)

\* Steps that move no byte.
LEMMA UntouchedBody == ASSUME Untouched PROVE SameBody
PROOF
BY DEF Untouched, Undisturbed, Steady, Heard, SrvAgree, SrvFields, SameBody, SameRead, SameSent

\* A frame adds nothing to what was read or sent, DATA included.
LEMMA FrameBody ==
  ASSUME StreamInv, Scalars, OnFrame \/ Close
  PROVE  SameBody
PROOF
<1>1. CASE ~OnData
  BY <1>1, FrameFlow, UntouchedBody
<1>2. CASE OnData
  <2> DEFINE f == Head(s2c)
             s == f.stream
             x == st[s]
             w == ReplenishPeer(srv, s, x, f.pad)
  <2>1. /\ f \in DataFrames /\ s \in Streams /\ \A t \in Streams \ {s} : st'[t] = st[t]
        /\ DataStray(s, f.len + f.pad) \/ DataBlamed(s, f.len + f.pad) \/ DataReceived(s, f)
    BY <1>2, DataSteps
  <2>2. /\ x \in StreamType /\ srv \in [Streams -> ServerType] /\ f.pad \in Nat
    BY <2>1 DEF StreamInv, DataFrames
  <2> HIDE DEF f
  <2>3. \A t \in Streams : SameRead(t)
    <3>1. st' = st \/ (st'[s].delivered = x.delivered /\ st'[s].outcome = x.outcome)
      BY <2>1 DEF DataStray, DataBlamed, Blamed, DataReceived, Received
    <3> QED
      BY <2>1, <3>1 DEF SameRead
  <2>4. \A t \in Streams : SameSent(t)
    <3>1. CASE DataStray(s, f.len + f.pad)
      BY <3>1 DEF DataStray, SameSent
    <3>2. CASE DataBlamed(s, f.len + f.pad)
      BY <3>2 DEF DataBlamed, SrvAgree, SrvFields, SameSent
    <3>3. CASE DataReceived(s, f)
      <4>1. \A t \in Streams : SrvAgree(srv[t], w[t], {"late", "win"})
        BY <2>1, <2>2, PeerPaid
      <4>2. \A t \in Streams : SrvAgree(w[t], srv'[t], {"gotRst", "late"})
        BY <3>3 DEF DataReceived
      <4> HIDE DEF w
      <4> QED
        BY <4>1, <4>2 DEF SrvAgree, SrvFields, SameSent
    <3> QED
      BY <2>1, <3>1, <3>2, <3>3
  <2> QED
    BY <2>3, <2>4 DEF SameBody
<1> QED
  BY <1>1, <1>2

\* A step of one stream's body, as ResponseBody has it.
BodyStep(t) == [Body(t)!Next]_(Body(t)!bodyVars)

\* A step that leaves every body alone is a stutter of the promised body.
LEMMA SameBodyIsStutter == ASSUME SameBody, NEW t \in Streams PROVE BodyStep(t)
PROOF
BY DEF SameBody, SameRead, SameSent, BodyStep, Body!bodyVars

\* pull() hands out the next bytes of what was sent, or finds the error, or
\* the end once all of it was handed out; cancel() walks away.
LEMMA ReaderStep ==
  ASSUME StreamInv, HonestIn(events), NEW s \in Streams, Pull(s) \/ Cancel(s), NEW t \in Streams
  PROVE  BodyStep(t)
PROOF
<1> DEFINE r == st[s]
           v == srv[s]
<1>1. /\ st \in [Streams -> StreamType] /\ srv \in [Streams -> ServerType]
      /\ r \in StreamType /\ v \in ServerType /\ Good(s, r, v, srvLast, events)
  BY DEF StreamInv
<1>2. Reading(r) /\ Waiting(r) /\ Whole(r, v, events) /\ Queueing(s, r, v, events) /\ Silenced(r, v)
  BY <1>1 DEF Good
<1>3. CASE PullChunk(s)
  <2> DEFINE n == Head(r.queue).len
             p == TakeChunk(r)
             q == ReplenishStream(p, n)
  <2>1. /\ st' = [st EXCEPT ![s] = q] /\ srv' = ReplenishPeer(srv, s, r, n)
        /\ r.pull = "running" /\ r.queue # <<>>
    BY <1>3 DEF PullChunk
  <2>2. r.queue \in Seq(Chunks) /\ Head(r.queue) \in Chunks
    BY <1>1, <2>1, HeadTailProperties DEF StreamType
  <2>3. n \in Nat
    BY <2>2 DEF Chunks
  <2>4. ASSUME NEW u \in Streams PROVE SameSent(u)
    <3> DEFINE w == ReplenishPeer(srv, s, r, n)
    <3>1. (\A x \in Streams \ {s} : w[x] = srv[x]) /\ SrvAgree(v, w[s], {"late", "win"})
      BY <1>1, <1>2, <2>3, CreditKeeps
    <3> HIDE DEF w
    <3>2. w[u].sent = srv[u].sent /\ w[u].ended = srv[u].ended
      BY <3>1 DEF SrvAgree, SrvFields
    <3> QED
      BY <2>1, <3>2 DEF SameSent, w
  <2>5. q.delivered = r.delivered + n /\ q.outcome = r.outcome
    BY <1>1 DEF TakeChunk, ReplenishStream, StreamType
  <2>6. r.delivered \in Nat /\ r.delivered + n <= v.sent
    <3>1. PICK total \in Nat : /\ Filled(r.queue, s, r.delivered, total, events)
                               /\ total <= v.sent
      BY <1>2 DEF Queueing
    <3>2. r.delivered \in Nat /\ r.delivered + n <= total
      BY <2>1, <2>2, <3>1, FilledTail
    <3> QED
      BY <1>1, <2>3, <3>1, <3>2 DEF ServerType
  <2> HIDE DEF q
  <2>7. CASE t = s
    <3>1. /\ st'[t].delivered = st[t].delivered + n /\ st'[t].outcome = st[t].outcome
          /\ st[t].outcome = "reading"
      BY <1>1, <1>2, <2>1, <2>5, <2>7 DEF Reading
    <3>2. st'[t].delivered \in st[t].delivered..srv[t].sent
      BY <1>1, <2>3, <2>6, <2>7, <3>1 DEF ServerType
    <3> QED
      BY <2>4, <3>1, <3>2 DEF SameSent, BodyStep, Body!Next, Body!Deliver
  <2>8. CASE t # s
    BY <1>1, <2>1, <2>4, <2>8 DEF SameSent, BodyStep, Body!bodyVars
  <2> QED
    BY <2>7, <2>8
<1>4. CASE PullOutcome(s)
  <2> DEFINE q == Drained(r)
  <2>1. /\ st' = [st EXCEPT ![s] = q] /\ srv' = srv /\ r.pull = "running" /\ r.queue = <<>>
    BY <1>4 DEF PullOutcome, serverVars
  <2>2. /\ q.delivered = r.delivered
        /\ \/ q.outcome = "error"
           \/ r.error = "none" /\ r.recvEnded /\ q.outcome = "done"
           \/ q.outcome = r.outcome
    BY <1>1 DEF Drained, BodyFails, BodyEnds, BodyWaits, StreamType
  <2>3. ASSUME r.error = "none", r.recvEnded PROVE v.ended /\ r.delivered = v.sent
    <3>1. v.ended /\ r.received = v.sent
      BY <1>2, <2>3 DEF Whole
    <3>2. r.delivered = r.received
      BY <1>2, <2>1, <2>3, FilledNone DEF Queueing
    <3> QED
      BY <3>1, <3>2
  <2>4. r.outcome = "reading"
    BY <1>2, <2>1 DEF Reading
  <2> HIDE DEF q
  <2>5. CASE t = s
    <3>1. /\ st'[t].delivered = st[t].delivered /\ st'[t].outcome = q.outcome /\ srv'[t] = srv[t]
      BY <1>1, <2>1, <2>2, <2>5
    <3> QED
      BY <2>2, <2>3, <2>4, <2>5, <3>1
         DEF BodyStep, Body!Next, Body!Finish, Body!Abandon, Body!bodyVars
  <2>6. CASE t # s
    BY <1>1, <2>1, <2>6 DEF BodyStep, Body!bodyVars
  <2> QED
    BY <2>5, <2>6
<1>5. CASE Cancel(s)
  <2>1. /\ srv' = srv \/ srv' = PeerGetsRst(srv, s)
        /\ r.outcome = "reading"
        /\ st' = [st EXCEPT ![s] = [r EXCEPT !.closed = TRUE, !.rstSent = TRUE,
                                             !.completed = Settle(@, "partial"),
                                             !.outcome = "cancelled", !.pull = "none"]]
    BY <1>5 DEF Cancel
  <2>2. st'[s].delivered = r.delivered /\ st'[s].outcome = "cancelled"
    BY <1>1, <2>1 DEF StreamType
  <2>3. ASSUME NEW u \in Streams PROVE SameSent(u)
    <3> DEFINE w == PeerGetsRst(srv, s)
    <3>1. (\A x \in Streams \ {s} : w[x] = srv[x]) /\ SrvAgree(v, w[s], {"gotRst", "late"})
      BY <1>1, PeerRst
    <3> HIDE DEF w
    <3>2. w[u].sent = srv[u].sent /\ w[u].ended = srv[u].ended
      BY <3>1 DEF SrvAgree, SrvFields
    <3> QED
      BY <2>1, <3>2 DEF SameSent, w
  <2>4. CASE t = s
    BY <2>1, <2>2, <2>3, <2>4 DEF SameSent, BodyStep, Body!Next, Body!Abandon
  <2>5. CASE t # s
    BY <1>1, <2>1, <2>3, <2>5 DEF SameSent, BodyStep, Body!bodyVars
  <2> QED
    BY <2>4, <2>5
<1> QED
  BY <1>3, <1>4, <1>5 DEF Pull

\* An honest server adds to a body only before its end.
LEMMA ServerStep ==
  ASSUME StreamInv, HonestIn(events), Server, NEW t \in Streams
  PROVE  BodyStep(t)
PROOF
<1>1. srv \in [Streams -> ServerType] /\ srv[t] \in ServerType
  BY DEF StreamInv
<1>2. ASSUME st' = st,
             \/ SameSent(t)
             \/ /\ ~srv[t].ended /\ srv'[t].ended \in BOOLEAN
                /\ srv'[t].sent \in Nat /\ srv'[t].sent >= srv[t].sent
      PROVE  BodyStep(t)
  BY <1>2 DEF SameSent, BodyStep, Body!Next, Body!Produce, Body!bodyVars
<1>3. CASE \E s \in Streams : SrvProcess(s) \/ SrvMalformed(s) \/ SrvRst(s)
  <2>1. PICK s \in Streams : SrvProcess(s) \/ SrvMalformed(s) \/ SrvRst(s)
    BY <1>3
  <2>2. /\ st' = st
        /\ \/ srv' = [srv EXCEPT ![s].processed = TRUE]
           \/ srv' = [srv EXCEPT ![s].headers = TRUE]
           \/ srv' = [srv EXCEPT ![s].rst = TRUE]
    BY <2>1 DEF SrvProcess, SrvMalformed, SrvRst, clientVars
  <2>3. SameSent(t)
    BY <1>1, <2>2 DEF SameSent, ServerType
  <2> QED
    BY <1>2, <2>2, <2>3
<1>4. ASSUME NEW s \in Streams, SrvHeaders(s) PROVE BodyStep(t)
  <2>1. PICK body \in Bodies, end \in BOOLEAN :
          /\ Serves(s) /\ st' = st
          /\ srv' = [srv EXCEPT ![s].headers = TRUE, ![s].left = body, ![s].ended = end]
    BY <1>4 DEF SrvHeaders, clientVars
  <2> QED
    BY <1>1, <1>2, <2>1 DEF Serves, SameSent, ServerType
<1>5. ASSUME NEW s \in Streams, SrvTrailers(s) PROVE BodyStep(t)
  <2>1. st' = st /\ srv' = [srv EXCEPT ![s].ended = TRUE] /\ ~srv[s].ended
    BY <1>5 DEF SrvTrailers, Serves, clientVars
  <2>2. CASE t = s
    <3>1. srv'[t].sent = srv[t].sent /\ srv'[t].ended /\ srv[t].sent \in Nat /\ srv'[t].ended \in BOOLEAN
      BY <1>1, <2>1, <2>2 DEF ServerType
    <3>2. srv'[t].sent \in Nat /\ srv'[t].sent >= srv[t].sent
      BY <3>1
    <3> QED
      BY <1>2, <2>1, <2>2, <3>1, <3>2
  <2>3. CASE t # s
    BY <1>1, <1>2, <2>1, <2>3 DEF SameSent
  <2> QED
    BY <2>2, <2>3
<1>6. ASSUME NEW s \in Streams, SrvData(s) PROVE BodyStep(t)
  <2>1. PICK len \in 0..MaxFrame, pad \in 0..1, end \in BOOLEAN :
          /\ Serves(s) /\ st' = st
          /\ srv' = [srv EXCEPT ![s].left = @ - len, ![s].sent = @ + len,
                                ![s].win = @ - len - pad, ![s].ended = end]
    BY <1>6, ZenonT(60) DEF SrvData, clientVars
  <2>2. ~srv[s].ended
    BY <2>1 DEF Serves
  <2>3. CASE t = s
    <3>1. srv'[t].ended = end /\ srv'[t].sent = srv[t].sent + len
      BY <1>1, <2>1, <2>3 DEF ServerType
    <3>2. srv'[t].sent \in Nat /\ srv'[t].sent >= srv[t].sent /\ srv'[t].ended \in BOOLEAN
      BY <1>1, <3>1 DEF ServerType
    <3> QED
      BY <1>2, <2>1, <2>2, <2>3, <3>2
  <2>4. CASE t # s
    BY <1>1, <1>2, <2>1, <2>4 DEF SameSent
  <2> QED
    BY <2>3, <2>4
<1>7. CASE SrvGoaway \/ SrvSettings \/ SrvEof
  BY <1>2, <1>7 DEF SrvGoaway, SrvSettings, SrvEof, clientVars, serverVars, SameSent
<1>8. ASSUME NEW s \in Streams, SrvRogueData(s) PROVE FALSE
  BY <1>8 DEF SrvRogueData, HonestIn
<1> QED
  BY <1>3, <1>4, <1>5, <1>6, <1>7, <1>8 DEF Server

\* Every stream's body starts as promised, and every step of it is promised.
BodiesStart == \A s \in Streams : Body(s)!Init
BodiesStep == \A s \in Streams : [Body(s)!Next]_(Body(s)!bodyVars)

\* The scenario never changes.
LEMMA EventsKept ==
  ASSUME [Next]_vars
  PROVE  events' = events
PROOF
<1>1. CASE Caller
  <2>1. CASE \E hasBody \in BOOLEAN : Request(hasBody)
    BY <2>1 DEF Request
  <2>2. CASE RequestAborted
    BY <2>2 DEF RequestAborted
  <2>3. CASE Close
    BY <2>3 DEF Close
  <2>4. ASSUME NEW s \in Streams, Abort(s) \/ SendLastData(s) \/ LastDataWritten(s) \/ Read(s)
        PROVE  events' = events
    BY <2>4 DEF Abort, SendLastData, LastDataWritten, Read
  <2>5. ASSUME NEW s \in Streams, Pull(s) PROVE events' = events
    BY <2>5 DEF Pull, PullChunk, PullOutcome
  <2>6. ASSUME NEW s \in Streams, Cancel(s) PROVE events' = events
    BY <2>6 DEF Cancel
  <2> QED
    BY <1>1, <2>1, <2>2, <2>3, <2>4, <2>5, <2>6 DEF Caller
<1>2. CASE OnFrame
  BY <1>2 DEF OnFrame, OnResponseHead, OnTrailers, OnData, OnDataOverrun, OnUnknownStream,
              OnRstStream, OnGoaway, OnSettings, OnEof
<1>3. CASE Server
  <2>1. ASSUME NEW s \in Streams, SrvProcess(s) \/ SrvHeaders(s) \/ SrvMalformed(s) \/ SrvTrailers(s)
        PROVE  events' = events
    BY <2>1 DEF SrvProcess, SrvHeaders, SrvMalformed, SrvTrailers
  <2>2. ASSUME NEW s \in Streams, SrvData(s) \/ SrvRst(s) \/ SrvRogueData(s)
        PROVE  events' = events
    BY <2>2 DEF SrvData, SrvRst, SrvRogueData
  <2>3. CASE SrvGoaway \/ SrvSettings \/ SrvEof
    BY <2>3 DEF SrvGoaway, SrvSettings, SrvEof
  <2> QED
    BY <1>3, <2>1, <2>2, <2>3 DEF Server
<1>4. CASE UNCHANGED vars
  BY <1>4 DEF vars
<1> QED
  BY <1>1, <1>2, <1>3, <1>4 DEF Next

\* Whatever the callers do and however the frames cross, each response body is
\* read as a prefix of what the server put in it, and is finished only when
\* the server ended it and all of it was handed out.
THEOREM Http2BodiesAsPromised == Spec /\ Honest => BodiesAsPromised
PROOF
<1>1. Init => BodiesStart
  BY DEF BodiesStart, Init, Unopened, Unseen, Body!Init
<1>2. HInv /\ Honest /\ [Next]_vars => [BodiesStep]_vars
  <2> SUFFICES ASSUME HInv, Honest, [Next]_vars, NEW t \in Streams PROVE BodyStep(t)
    BY DEF BodiesStep, BodyStep
  <2>1. StreamInv /\ Scalars /\ HonestIn(events)
    BY DEF HInv, Honest, HonestIn
  <2>2. CASE Caller
    <3>1. CASE \E s \in Streams : Pull(s) \/ Cancel(s)
      BY <2>1, <3>1, ReaderStep
    <3>2. CASE Close
      BY <2>1, <3>2, FrameBody, SameBodyIsStutter
    <3>3. CASE \/ \E hasBody \in BOOLEAN : Request(hasBody)
               \/ RequestAborted
               \/ \E s \in Streams : Abort(s) \/ SendLastData(s) \/ LastDataWritten(s) \/ Read(s)
      BY <2>1, <3>3, RequestFlow, UntouchedBody, SameBodyIsStutter
    <3> QED
      BY <2>2, <3>1, <3>2, <3>3 DEF Caller
  <2>3. CASE OnFrame
    BY <2>1, <2>3, FrameBody, SameBodyIsStutter
  <2>4. CASE Server
    BY <2>1, <2>4, ServerStep
  <2>5. CASE UNCHANGED vars
    BY <2>5 DEF vars, clientVars, serverVars, BodyStep, Body!bodyVars
  <2> QED
    BY <2>2, <2>3, <2>4, <2>5 DEF Next
<1>3. Honest /\ [Next]_vars => Honest'
  BY EventsKept DEF Honest
<1>4. BodiesAsPromised <=> BodiesStart /\ [][BodiesStep]_vars
  BY DEF BodiesAsPromised, BodiesStart, BodiesStep
<1>5. Spec /\ Honest => [](HInv /\ Honest)
  BY <1>3, Invariant, PTL DEF Spec
<1> QED
  BY <1>1, <1>2, <1>4, <1>5, PTL DEF Spec

-----------------------------------------------------------------------------
(***************************************************************************)
(* Sums over the streams, the queues and the wire.                         *)
(***************************************************************************)
\* Numbers by stream are a sequence.
LEMMA ByStream ==
  ASSUME NEW S, NEW f \in [Streams -> S]
  PROVE  f \in Seq(S) /\ Len(f) = MaxStreams /\ \A s \in Streams : s \in 1..Len(f)
PROOF
<1>1. MaxStreams \in Nat /\ f \in [1..MaxStreams -> S]
  BY Http2Assumption DEF Streams
<1>2. f \in Seq(S) /\ Len(f) = MaxStreams
  BY <1>1
<1> QED
  BY <1>1, <1>2 DEF Streams

\* One stream's number changes.
LEMMA StreamsTotal ==
  ASSUME NEW f \in [Streams -> Int], NEW g \in [Streams -> Int], NEW s \in Streams, NEW d \in Int,
         g[s] = f[s] + d, \A t \in Streams \ {s} : g[t] = f[t]
  PROVE  Total(g) = Total(f) + d
PROOF
<1>1. f \in Seq(Int) /\ g \in Seq(Int) /\ Len(f) = MaxStreams /\ Len(g) = MaxStreams
  BY ByStream
<1>2. s \in 1..Len(f) /\ \A i \in 1..Len(f) : i \in Streams
  BY <1>1 DEF Streams
<1> QED
  BY <1>1, <1>2, TotalChange

\* The sum over the streams is no less than the number of any.
LEMMA StreamsNat ==
  ASSUME NEW f \in [Streams -> Nat]
  PROVE  Total(f) \in Nat /\ \A s \in Streams : f[s] <= Total(f)
PROOF
<1>1. f \in Seq(Nat) /\ \A s \in Streams : s \in 1..Len(f)
  BY ByStream
<1> QED
  BY <1>1, TotalNat

\* The bytes of a queue of chunks.
Lens(q) == [i \in DOMAIN q |-> q[i].len]
Bytes(q) == Total(Lens(q))

\* They are numbers, one for each chunk.
LEMMA LensNat ==
  ASSUME NEW q \in Seq(Chunks)
  PROVE  /\ Lens(q) \in Seq(Nat) /\ Lens(q) \in Seq(Int) /\ Len(Lens(q)) = Len(q)
         /\ \A i \in 1..Len(q) : Lens(q)[i] = q[i].len
PROOF
<1>1. DOMAIN q = 1..Len(q) /\ Len(q) \in Nat /\ \A i \in 1..Len(q) : q[i] \in Chunks
  BY LenProperties, ElementOfSeq
<1>2. \A i \in 1..Len(q) : q[i].len \in Nat
  BY <1>1 DEF Chunks
<1>3. Lens(q) \in [1..Len(q) -> Nat]
  BY <1>1, <1>2 DEF Lens
<1> QED
  BY <1>1, <1>3 DEF Lens

\* They are a natural number; an empty queue has none.
LEMMA BytesNat ==
  ASSUME NEW q \in Seq(Chunks)
  PROVE  Bytes(q) \in Nat /\ (q = <<>> => Bytes(q) = 0)
PROOF
<1>1. Bytes(q) \in Nat
  BY LensNat, TotalNat DEF Bytes
<1>2. ASSUME q = <<>> PROVE Bytes(q) = 0
  <2>1. Len(q) = 0
    BY <1>2
  <2>2. Lens(q) \in Seq(Int) /\ Len(Lens(q)) = 0
    BY <2>1, LensNat
  <2>3. \A i \in 1..Len(Lens(q)) : Lens(q)[i] = 0
    BY <2>2
  <2> HIDE DEF Lens
  <2> QED
    BY <2>2, <2>3, TotalZero DEF Bytes
<1> QED
  BY <1>1, <1>2

\* A chunk queued adds its bytes, and a chunk read takes them.
LEMMA BytesAppend ==
  ASSUME NEW q \in Seq(Chunks), NEW c \in Chunks
  PROVE  Bytes(Append(q, c)) = Bytes(q) + c.len
PROOF
<1>1. /\ Append(q, c) \in Seq(Chunks) /\ Len(Append(q, c)) = Len(q) + 1 /\ Len(q) \in Nat
      /\ Append(q, c)[Len(q) + 1] = c /\ \A i \in 1..Len(q) : Append(q, c)[i] = q[i]
  BY AppendProperties, LenProperties
<1>2. c.len \in Int
  BY DEF Chunks
<1> DEFINE a == Lens(q)
           b == Append(a, c.len)
           p == Lens(Append(q, c))
<1>3. a \in Seq(Int) /\ Len(a) = Len(q) /\ \A i \in 1..Len(q) : a[i] = q[i].len
  BY LensNat
<1>4. /\ p \in Seq(Int) /\ Len(p) = Len(q) + 1
      /\ \A i \in 1..(Len(q) + 1) : p[i] = Append(q, c)[i].len
  BY <1>1, LensNat
<1> HIDE DEF a, p
<1>5. /\ b \in Seq(Int) /\ Len(b) = Len(q) + 1 /\ b[Len(q) + 1] = c.len
      /\ \A i \in 1..Len(q) : b[i] = a[i]
  BY <1>2, <1>3, AppendProperties
<1> HIDE DEF b
<1>6. ASSUME NEW i \in 1..(Len(q) + 1) PROVE p[i] = b[i]
  <2>1. i = Len(q) + 1 \/ i \in 1..Len(q)
    BY <1>1
  <2> QED
    BY <1>1, <1>3, <1>4, <1>5, <2>1
<1>7. p = b
  BY <1>4, <1>5, <1>6, SeqEqual
<1>8. Total(b) = Total(a) + c.len
  BY <1>2, <1>3, TotalAppend DEF b
<1> QED
  BY <1>7, <1>8 DEF Bytes, a, p

\* The oldest chunk leaves.
LEMMA BytesTail ==
  ASSUME NEW q \in Seq(Chunks), q # <<>>
  PROVE  Bytes(Tail(q)) = Bytes(q) - Head(q).len
PROOF
<1>1. /\ Tail(q) \in Seq(Chunks) /\ Len(Tail(q)) = Len(q) - 1 /\ Len(q) \in Nat \ {0}
      /\ Head(q) = q[1] /\ \A i \in 1..Len(Tail(q)) : Tail(q)[i] = q[i + 1]
  BY HeadTailProperties, LenProperties, EmptySeq
<1> DEFINE a == Lens(q)
           b == Tail(a)
           p == Lens(Tail(q))
<1>2. a \in Seq(Int) /\ Len(a) = Len(q) /\ \A i \in 1..Len(q) : a[i] = q[i].len
  BY LensNat
<1>3. p \in Seq(Int) /\ Len(p) = Len(q) - 1 /\ \A i \in 1..(Len(q) - 1) : p[i] = Tail(q)[i].len
  BY <1>1, LensNat
<1> HIDE DEF a, p
<1>4. a # <<>> /\ a[1] = Head(q).len
  BY <1>1, <1>2
<1>5. b \in Seq(Int) /\ Len(b) = Len(q) - 1 /\ \A i \in 1..(Len(q) - 1) : b[i] = a[i + 1]
  BY <1>2, <1>4, HeadTailProperties
<1> HIDE DEF b
<1>6. ASSUME NEW i \in 1..(Len(q) - 1) PROVE p[i] = b[i]
  <2>1. i + 1 \in 1..Len(q) /\ i \in 1..Len(Tail(q))
    BY <1>1
  <2> QED
    BY <1>1, <1>2, <1>3, <1>5, <2>1
<1>7. p = b
  BY <1>3, <1>5, <1>6, SeqEqual
<1>8. Total(b) = Total(a) - a[1]
  BY <1>2, <1>4, TotalTail DEF b
<1> QED
  BY <1>4, <1>7, <1>8 DEF Bytes, a, p

\* The flow control that the frames q use up for stream s.
Flows(q, s) == [i \in DOMAIN q |-> FlowTo(q[i], s)]

\* They are numbers, one for each frame.
LEMMA FlowsNat ==
  ASSUME NEW q \in Seq(Frames), NEW s
  PROVE  /\ Flows(q, s) \in Seq(Nat) /\ Flows(q, s) \in Seq(Int) /\ Len(Flows(q, s)) = Len(q)
         /\ \A i \in 1..Len(q) : Flows(q, s)[i] = FlowTo(q[i], s)
         /\ \A f \in Frames : FlowTo(f, s) \in Nat
PROOF
<1>1. DOMAIN q = 1..Len(q) /\ Len(q) \in Nat /\ \A i \in 1..Len(q) : q[i] \in Frames
  BY LenProperties, ElementOfSeq
<1>2. ASSUME NEW f \in Frames PROVE FlowTo(f, s) \in Nat
  <2>1. f.type = "data" => f.len \in Nat /\ f.pad \in Nat
    BY FrameTypes DEF DataFrames
  <2> QED
    BY <2>1 DEF FlowTo
<1>3. Flows(q, s) \in [1..Len(q) -> Nat]
  BY <1>1, <1>2 DEF Flows
<1> QED
  BY <1>1, <1>2, <1>3 DEF Flows

\* What is in flight to a stream is their sum.
LEMMA FlightNat ==
  ASSUME s2c \in Seq(Frames), NEW s
  PROVE  InFlight(s) \in Nat /\ InFlight(s) = Total(Flows(s2c, s))
PROOF
<1>1. InFlight(s) = Total(Flows(s2c, s))
  BY DEF InFlight, Flows
<1> QED
  BY <1>1, FlowsNat, TotalNat

\* A frame is written.
LEMMA FlightMore ==
  ASSUME s2c \in Seq(Frames), NEW f \in Frames, s2c' = Append(s2c, f), NEW s
  PROVE  InFlight(s)' = InFlight(s) + FlowTo(f, s)
PROOF
<1>1. /\ Append(s2c, f) \in Seq(Frames) /\ Len(Append(s2c, f)) = Len(s2c) + 1 /\ Len(s2c) \in Nat
      /\ Append(s2c, f)[Len(s2c) + 1] = f /\ \A i \in 1..Len(s2c) : Append(s2c, f)[i] = s2c[i]
  BY AppendProperties, LenProperties
<1> DEFINE a == Flows(s2c, s)
           b == Append(a, FlowTo(f, s))
           p == Flows(Append(s2c, f), s)
<1>2. a \in Seq(Int) /\ Len(a) = Len(s2c) /\ \A i \in 1..Len(s2c) : a[i] = FlowTo(s2c[i], s)
  BY FlowsNat
<1>0. FlowTo(f, s) \in Int
  <2>1. FlowTo(f, s) \in Nat
    BY FlowsNat
  <2> QED
    BY <2>1
<1>3. /\ p \in Seq(Int) /\ Len(p) = Len(s2c) + 1
      /\ \A i \in 1..(Len(s2c) + 1) : p[i] = FlowTo(Append(s2c, f)[i], s)
  BY <1>1, FlowsNat
<1>4. InFlight(s)' = Total(p) /\ InFlight(s) = Total(a)
  BY DEF InFlight, Flows
<1> HIDE DEF a, p
<1>5. /\ b \in Seq(Int) /\ Len(b) = Len(s2c) + 1 /\ b[Len(s2c) + 1] = FlowTo(f, s)
      /\ \A i \in 1..Len(s2c) : b[i] = a[i]
  BY <1>0, <1>2, AppendProperties
<1> HIDE DEF b
<1>6. ASSUME NEW i \in 1..(Len(s2c) + 1) PROVE p[i] = b[i]
  <2>1. i = Len(s2c) + 1 \/ i \in 1..Len(s2c)
    BY <1>1
  <2> QED
    BY <1>1, <1>2, <1>3, <1>5, <2>1
<1>7. p = b
  BY <1>3, <1>5, <1>6, SeqEqual
<1>8. Total(b) = Total(a) + FlowTo(f, s)
  BY <1>0, <1>2, TotalAppend DEF b
<1> QED
  BY <1>4, <1>7, <1>8

\* The oldest frame is dispatched.
LEMMA FlightLess ==
  ASSUME s2c \in Seq(Frames), s2c # <<>>, s2c' = Tail(s2c), NEW s
  PROVE  InFlight(s)' = InFlight(s) - FlowTo(Head(s2c), s)
PROOF
<1>1. /\ Tail(s2c) \in Seq(Frames) /\ Len(Tail(s2c)) = Len(s2c) - 1 /\ Len(s2c) \in Nat \ {0}
      /\ Head(s2c) = s2c[1] /\ \A i \in 1..Len(Tail(s2c)) : Tail(s2c)[i] = s2c[i + 1]
  BY HeadTailProperties, LenProperties, EmptySeq
<1> DEFINE a == Flows(s2c, s)
           b == Tail(a)
           p == Flows(Tail(s2c), s)
<1>2. a \in Seq(Int) /\ Len(a) = Len(s2c) /\ \A i \in 1..Len(s2c) : a[i] = FlowTo(s2c[i], s)
  BY FlowsNat
<1>3. /\ p \in Seq(Int) /\ Len(p) = Len(s2c) - 1
      /\ \A i \in 1..(Len(s2c) - 1) : p[i] = FlowTo(Tail(s2c)[i], s)
  BY <1>1, FlowsNat
<1>4. InFlight(s)' = Total(p) /\ InFlight(s) = Total(a)
  BY DEF InFlight, Flows
<1> HIDE DEF a, p
<1>5. a # <<>> /\ a[1] = FlowTo(Head(s2c), s)
  BY <1>1, <1>2
<1>6. b \in Seq(Int) /\ Len(b) = Len(s2c) - 1 /\ \A i \in 1..(Len(s2c) - 1) : b[i] = a[i + 1]
  BY <1>2, <1>5, HeadTailProperties
<1> HIDE DEF b
<1>7. ASSUME NEW i \in 1..(Len(s2c) - 1) PROVE p[i] = b[i]
  <2>1. i + 1 \in 1..Len(s2c) /\ i \in 1..Len(Tail(s2c))
    BY <1>1
  <2> QED
    BY <1>1, <1>2, <1>3, <1>6, <2>1
<1>8. p = b
  BY <1>3, <1>6, <1>7, SeqEqual
<1>9. Total(b) = Total(a) - a[1]
  BY <1>2, <1>5, TotalTail DEF b
<1> QED
  BY <1>4, <1>5, <1>8, <1>9

-----------------------------------------------------------------------------
(***************************************************************************)
(* Backpressure: what a stream holds and what it would still take make up  *)
(* its window, and all streams together stay within the connection's.      *)
(***************************************************************************)
Solid(q) == \A i \in 1..Len(q) : q[i].len > 0
Buffered(r) ==
  /\ Bytes(r.queue) <= StreamWindow /\ Solid(r.queue)
  /\ ~r.closed => r.recvWindow \in Nat /\ Bytes(r.queue) + r.recvWindow = StreamWindow
BufferInv ==
  /\ \A s \in Streams : Buffered(st[s])
  /\ AllQueued <= ConnWindow
  /\ fatal = "none" => recvWin \in Nat /\ AllQueued + recvWin <= ConnWindow

\* All the queues together hold a number of bytes.
Loads(x) == [s \in Streams |-> Bytes(x[s].queue)]

\* Natural numbers, and so is their sum.
LEMMA LoadsNat ==
  ASSUME NEW x \in [Streams -> StreamType]
  PROVE  Loads(x) \in [Streams -> Nat] /\ Total(Loads(x)) \in Nat
PROOF
<1>1. ASSUME NEW s \in Streams PROVE Bytes(x[s].queue) \in Nat
  <2>1. x[s].queue \in Seq(Chunks)
    BY DEF StreamType
  <2> QED
    BY <2>1, BytesNat
<1>2. Loads(x) \in [Streams -> Nat]
  BY <1>1 DEF Loads
<1> QED
  BY <1>2, StreamsNat

\* They are what is queued, now and after a step.
LEMMA QueuedLoads ==
  /\ AllQueued = Total(Loads(st)) /\ AllQueued' = Total(Loads(st'))
  /\ \A s \in Streams : Queued(s) = Bytes(st[s].queue)
PROOF
<1>1. \A s \in Streams : Queued(s) = Bytes(st[s].queue) /\ Queued(s)' = Bytes(st'[s].queue)
  BY DEF Queued, Bytes, Lens
<1>2. [s \in Streams |-> Queued(s)] = Loads(st) /\ [s \in Streams |-> Queued(s)'] = Loads(st')
  BY <1>1 DEF Loads
<1> QED
  BY <1>1, <1>2 DEF AllQueued

\* One queue grows by d bytes, or shrinks, and the others stay.
LEMMA QueuedStep ==
  ASSUME StreamInv, StreamInv', NEW s \in Streams, NEW d \in Int,
         Bytes(st'[s].queue) = Bytes(st[s].queue) + d,
         \A t \in Streams \ {s} : st'[t].queue = st[t].queue
  PROVE  AllQueued' = AllQueued + d
PROOF
<1> DEFINE f == Loads(st)
           g == Loads(st')
<1>1. st \in [Streams -> StreamType] /\ st' \in [Streams -> StreamType]
  BY DEF StreamInv
<1>2. f \in [Streams -> Nat] /\ g \in [Streams -> Nat]
  BY <1>1, LoadsNat
<1>3. g[s] = f[s] + d /\ \A t \in Streams \ {s} : g[t] = f[t]
  BY DEF Loads
<1> HIDE DEF f, g
<1>4. Total(g) = Total(f) + d
  BY <1>2, <1>3, StreamsTotal
<1> QED
  BY <1>4, QueuedLoads DEF f, g

\* Steps that add nothing to a queue and nothing to the connection's window.
LEMMA SteadyBuffer ==
  ASSUME StreamInv, StreamInv', BufferInv, \A t \in Streams : Steady(st[t], st'[t]),
         fatal' = "none" => fatal = "none" /\ recvWin' = recvWin
  PROVE  BufferInv'
PROOF
<1>1. ASSUME NEW t \in Streams PROVE Buffered(st'[t])
  <2>1. Buffered(st[t]) /\ Steady(st[t], st'[t])
    BY DEF BufferInv
  <2> QED
    BY <2>1 DEF Steady, Buffered
<1>3. Loads(st') = Loads(st)
  BY DEF Steady, Loads
<1>4. AllQueued' = AllQueued
  BY <1>3, QueuedLoads
<1> QED
  BY <1>1, <1>4 DEF BufferInv

\* A step that moves d bytes into the queue of one stream, or out of it.
LEMMA BufferStep ==
  ASSUME StreamInv, StreamInv', BufferInv, NEW s \in Streams, NEW d \in Int,
         \A t \in Streams \ {s} : st'[t] = st[t],
         Buffered(st'[s]), Bytes(st'[s].queue) = Bytes(st[s].queue) + d,
         fatal' = fatal, d <= 0 \/ fatal = "none",
         fatal = "none" => recvWin' \in Nat /\ recvWin' <= recvWin - d
  PROVE  BufferInv'
PROOF
<1>1. \A t \in Streams : Buffered(st'[t])
  BY DEF BufferInv
<1>2. AllQueued' = AllQueued + d /\ AllQueued \in Nat /\ ConnWindow \in Nat
  <2>1. AllQueued \in Nat
    BY LoadsNat, QueuedLoads DEF StreamInv
  <2> QED
    BY <2>1, QueuedStep, Http2Assumption
<1>3. fatal = "none" => recvWin \in Nat /\ AllQueued + recvWin <= ConnWindow
  BY DEF BufferInv
<1>4. AllQueued' <= ConnWindow
  BY <1>2, <1>3 DEF BufferInv
<1>5. fatal = "none" => AllQueued' + recvWin' <= ConnWindow
  BY <1>2, <1>3
<1> QED
  BY <1>1, <1>4, <1>5 DEF BufferInv

\* pull() takes a chunk, and opens the windows by as much.
LEMMA PullChunkBuffer ==
  ASSUME HInv, HInv', BufferInv, NEW s \in Streams, PullChunk(s)
  PROVE  BufferInv'
PROOF
<1> DEFINE r == st[s]
           n == Head(r.queue).len
           p == TakeChunk(r)
           q == ReplenishStream(p, n)
<1>1. /\ st \in [Streams -> StreamType] /\ r \in StreamType /\ StreamInv /\ StreamInv' /\ Scalars
      /\ Buffered(r)
  BY DEF HInv, StreamInv, BufferInv
<1>2. /\ st' = [st EXCEPT ![s] = q] /\ r.queue # <<>> /\ ConnCredit(0, n) /\ fatal' = fatal
  BY DEF PullChunk
<1>3. /\ r.queue \in Seq(Chunks) /\ Head(r.queue) \in Chunks /\ Tail(r.queue) \in Seq(Chunks)
      /\ Len(Tail(r.queue)) = Len(r.queue) - 1 /\ Len(r.queue) \in Nat
      /\ \A i \in 1..Len(Tail(r.queue)) : Tail(r.queue)[i] = r.queue[i + 1]
  <2>1. r.queue \in Seq(Chunks)
    BY <1>1 DEF StreamType
  <2> QED
    BY <1>2, <2>1, HeadTailProperties, LenProperties
<1>4. n \in Nat
  BY <1>3 DEF Chunks
<1>5. Bytes(Tail(r.queue)) = Bytes(r.queue) - n /\ Bytes(r.queue) \in Nat /\ Bytes(Tail(r.queue)) \in Nat
  BY <1>2, <1>3, BytesTail, BytesNat
<1>6. Solid(Tail(r.queue))
  <2> SUFFICES ASSUME NEW i \in 1..Len(Tail(r.queue)) PROVE Tail(r.queue)[i].len > 0
    BY DEF Solid
  <2>1. i + 1 \in 1..Len(r.queue)
    BY <1>3
  <2> QED
    BY <1>1, <1>3, <2>1 DEF Buffered, Solid
<1>7. /\ p \in StreamType /\ p.queue = Tail(r.queue) /\ Agree(r, p, {"queue", "delivered", "pull"})
  BY <1>1, <1>2, TakesChunk
<1> HIDE DEF p
<1>8. q \in StreamType /\ Agree(p, q, {"recvWindow", "recvConsumed"}) /\ q.recvWindow = p.recvWindow + n
  BY <1>4, <1>7, WindowGrows
<1>9. q.queue = Tail(r.queue) /\ q.closed = r.closed /\ q.recvWindow = r.recvWindow + n
  BY <1>7, <1>8 DEF Agree, Fields
<1> HIDE DEF q, n
<1>10. StreamWindow \in Nat /\ r.recvWindow \in Int
  BY <1>1, Http2Assumption DEF StreamType
<1>11. Buffered(q)
  <2>1. Bytes(q.queue) <= StreamWindow /\ Solid(q.queue)
    BY <1>1, <1>4, <1>5, <1>6, <1>9, <1>10 DEF Buffered
  <2>2. ~r.closed => r.recvWindow \in Nat /\ Bytes(r.queue) + r.recvWindow = StreamWindow
    BY <1>1 DEF Buffered
  <2>3. ~q.closed => q.recvWindow \in Nat /\ Bytes(q.queue) + q.recvWindow = StreamWindow
    BY <1>4, <1>5, <1>9, <1>10, <2>2
  <2> QED
    BY <2>1, <2>3 DEF Buffered
<1>12. st'[s] = q /\ \A t \in Streams \ {s} : st'[t] = st[t]
  BY <1>1, <1>2
<1>13. recvWin' = recvWin + n /\ recvWin \in Int
  BY <1>1, <1>2, <1>4 DEF ConnCredit, Scalars
<1>14. fatal = "none" => recvWin' \in Nat /\ recvWin' <= recvWin - (0 - n)
  BY <1>4, <1>13 DEF BufferInv
<1>15. (0 - n) \in Int /\ Bytes(q.queue) = Bytes(r.queue) + (0 - n) /\ 0 - n <= 0
  BY <1>4, <1>5, <1>9
<1> QED
  BY <1>1, <1>2, <1>11, <1>12, <1>14, <1>15, BufferStep

\* _onData queues no more than both windows leave.
LEMMA DataBuffer ==
  ASSUME HInv, HInv', BufferInv, OnData
  PROVE  BufferInv'
PROOF
<1> DEFINE f == Head(s2c)
           s == f.stream
           flow == f.len + f.pad
           x == st[s]
           q == st'[s]
<1>1. /\ StreamInv /\ StreamInv' /\ Scalars
  BY DEF HInv
<1>2. /\ fatal = "none" /\ f \in DataFrames /\ s \in Streams /\ recvWin >= flow /\ fatal' = fatal
      /\ \A t \in Streams \ {s} : st'[t] = st[t]
      /\ DataStray(s, flow) \/ DataBlamed(s, flow) \/ DataReceived(s, f)
  BY <1>1, DataSteps
<1>3. f.len \in Nat /\ f.pad \in Nat /\ flow \in Nat
  BY <1>2 DEF DataFrames
<1>4. /\ x \in StreamType /\ q \in StreamType /\ Buffered(x) /\ x.queue \in Seq(Chunks)
      /\ Bytes(x.queue) \in Nat /\ recvWin \in Nat /\ StreamWindow \in Nat
  <2>1. x \in StreamType /\ q \in StreamType /\ Buffered(x) /\ recvWin \in Nat
    BY <1>1, <1>2 DEF StreamInv, BufferInv
  <2>2. x.queue \in Seq(Chunks)
    BY <2>1 DEF StreamType
  <2> QED
    BY <2>1, <2>2, BytesNat, Http2Assumption
<1>5. ASSUME NEW given \in Nat, ConnCredit(flow, given) PROVE recvWin' = recvWin - flow + given
  BY <1>5 DEF ConnCredit
<1> HIDE DEF f, s, flow
<1>6. CASE DataStray(s, flow)
  <2>1. recvWin' = recvWin /\ st' = st
    BY <1>3, <1>4, <1>5, <1>6 DEF DataStray
  <2>2. \A t \in Streams : Steady(st[t], st'[t])
    BY <2>1 DEF Steady
  <2> QED
    BY <1>1, <1>2, <2>1, <2>2, SteadyBuffer
<1>7. CASE DataBlamed(s, flow)
  <2>1. recvWin' = recvWin - flow + 0 /\ q.closed /\ q.queue = x.queue
    BY <1>5, <1>7 DEF DataBlamed, Blamed
  <2>2. recvWin' \in Nat /\ recvWin' <= recvWin - 0
    BY <1>2, <1>3, <1>4, <2>1
  <2>3. Buffered(q)
    BY <1>4, <2>1 DEF Buffered
  <2>4. Bytes(q.queue) = Bytes(x.queue) + 0 /\ 0 \in Int /\ 0 <= 0
    BY <1>4, <2>1
  <2> QED
    BY <1>1, <1>2, <2>2, <2>3, <2>4, BufferStep
<1>8. CASE DataReceived(s, f)
  <2>1. recvWin' = recvWin - flow + f.pad /\ Received(x, q, f) /\ x.recvWindow >= flow /\ Live(s)
    BY <1>3, <1>5, <1>8 DEF DataReceived, flow
  <2>2. flow = f.len + f.pad /\ x.recvWindow \in Int
    BY <1>4 DEF flow, StreamType
  <2>3. recvWin' = recvWin - f.len /\ recvWin' \in Nat
    BY <1>2, <1>3, <1>4, <2>1, <2>2, SMTT(30)
  <2>4. Bytes(x.queue) + x.recvWindow = StreamWindow
    BY <1>4, <2>1 DEF Live, Buffered
  <2>5. CASE q.queue = x.queue
    <3>1. ~q.closed => f.len = 0
      BY <1>3, <2>1, <2>5 DEF Received
    <3>2. ~q.closed => q.recvWindow = x.recvWindow
      BY <1>3, <2>1, <2>2, <3>1 DEF Received
    <3>3. Buffered(q)
      BY <1>4, <2>1, <2>5, <3>2 DEF Buffered, Received
    <3>4. Bytes(q.queue) = Bytes(x.queue) + 0 /\ 0 \in Int /\ 0 <= 0 /\ recvWin' <= recvWin - 0
      BY <1>3, <1>4, <2>3, <2>5
    <3> QED
      BY <1>1, <1>2, <2>3, <3>3, <3>4, BufferStep
  <2>6. ASSUME NEW c \in Chunks, f.len > 0, c.len = f.len, q.queue = Append(x.queue, c) PROVE BufferInv'
    <3>1. Bytes(q.queue) = Bytes(x.queue) + f.len
      BY <1>4, <2>6, BytesAppend
    <3>2. Solid(q.queue)
      <4>1. /\ Len(q.queue) = Len(x.queue) + 1 /\ Len(x.queue) \in Nat /\ q.queue[Len(x.queue) + 1] = c
            /\ \A i \in 1..Len(x.queue) : q.queue[i] = x.queue[i]
        BY <1>4, <2>6, AppendProperties, LenProperties
      <4>2. ASSUME NEW i \in 1..Len(q.queue) PROVE q.queue[i].len > 0
        <5>1. i = Len(x.queue) + 1 \/ i \in 1..Len(x.queue)
          BY <4>1
        <5> QED
          BY <1>4, <2>6, <4>1, <5>1 DEF Buffered, Solid
      <4> QED
        BY <4>2 DEF Solid
    <3>3. ~q.closed => q.recvWindow = x.recvWindow - f.len
      BY <1>3, <2>1, <2>2 DEF Received
    <3>4. Bytes(q.queue) <= StreamWindow /\ x.recvWindow - f.len \in Nat
      BY <1>3, <1>4, <2>1, <2>2, <2>4, <3>1, SMTT(30)
    <3>5. ~q.closed => q.recvWindow \in Nat /\ Bytes(q.queue) + q.recvWindow = StreamWindow
      BY <1>3, <1>4, <2>2, <2>4, <3>1, <3>3, <3>4
    <3>6. Buffered(q)
      BY <3>2, <3>4, <3>5 DEF Buffered
    <3>7. f.len \in Int /\ recvWin' <= recvWin - f.len
      BY <1>3, <1>4, <2>3
    <3> QED
      BY <1>1, <1>2, <2>3, <3>1, <3>6, <3>7, BufferStep
  <2> QED
    BY <2>1, <2>5, <2>6 DEF Received
<1> QED
  BY <1>2, <1>6, <1>7, <1>8

\* An empty queue with its whole window.
LEMMA InitBuffer == Init => BufferInv
PROOF
<1> SUFFICES ASSUME Init PROVE BufferInv
  OBVIOUS
<1>1. StreamInv /\ StreamWindow \in Nat /\ ConnWindow \in Nat
  BY InitHolds, Http2Assumption DEF HInv
<1>2. ASSUME NEW s \in Streams
      PROVE  st[s].queue = <<>> /\ st[s].recvWindow = StreamWindow
  BY <1>2 DEF Init, Unopened
<1>3. Bytes(<<>>) = 0
  <2>1. <<>> \in Seq(Chunks)
    OBVIOUS
  <2> QED
    BY <2>1, BytesNat
<1>4. Solid(<<>>)
  BY DEF Solid
<1>5. ASSUME NEW s \in Streams PROVE Buffered(st[s])
  <2>1. st[s].queue = <<>> /\ st[s].recvWindow = StreamWindow
    BY <1>2
  <2> QED
    BY <1>1, <1>3, <1>4, <2>1 DEF Buffered
<1>6. AllQueued = 0
  <2> DEFINE f == Loads(st)
  <2>1. f \in [Streams -> Nat]
    BY <1>1, LoadsNat DEF StreamInv
  <2>2. \A s \in Streams : f[s] = 0
    BY <1>2, <1>3 DEF Loads
  <2> HIDE DEF f
  <2>3. f \in Seq(Int) /\ \A i \in 1..Len(f) : i \in Streams
    <3>1. f \in [Streams -> Int]
      BY <2>1
    <3> QED
      BY <3>1, ByStream DEF Streams
  <2>4. Total(f) = 0
    BY <2>2, <2>3, TotalZero
  <2> QED
    BY <2>4, QueuedLoads DEF f
<1>7. recvWin = ConnWindow
  BY DEF Init
<1> QED
  BY <1>1, <1>5, <1>6, <1>7 DEF BufferInv

\* No step breaks it.
LEMMA BufferKept ==
  ASSUME HInv, HInv', BufferInv, [Next]_vars
  PROVE  BufferInv'
PROOF
<1>1. StreamInv /\ StreamInv' /\ Scalars
  BY DEF HInv
<1>2. ASSUME SameFlow, fatal' = fatal, recvWin' = recvWin PROVE BufferInv'
  BY <1>1, <1>2, SteadyBuffer DEF SameFlow
<1>3. ASSUME st' = st PROVE \A t \in Streams : Steady(st[t], st'[t])
  BY <1>3 DEF Steady
<1>4. CASE Quiet
  BY <1>2, <1>4 DEF Quiet, CountersKept
<1>5. CASE Died
  BY <1>1, <1>5, SteadyBuffer DEF Died, SameFlow
<1>6. ASSUME NEW s \in Streams, PullChunk(s) PROVE BufferInv'
  BY <1>6, PullChunkBuffer
<1>7. CASE Caller
  BY <1>1, <1>4, <1>5, <1>6, <1>7, CallerSteps
<1>8. CASE OnFrame
  <2>1. CASE OnData
    BY <2>1, DataBuffer
  <2>2. CASE Dispatched
    BY <1>2, <2>2 DEF Dispatched, CountersKept
  <2> QED
    BY <1>1, <1>5, <1>8, <2>1, <2>2, FrameSteps
<1>9. CASE Server
  <2>1. UNCHANGED <<st, fatal, recvWin>> => BufferInv'
    BY <1>1, <1>3, SteadyBuffer
  <2>2. ASSUME NEW f \in Frames, Written(f) PROVE BufferInv'
    BY <2>1, <2>2 DEF Written, CountersKept
  <2>3. ASSUME NEW s \in Streams, SrvData(s) \/ SrvRogueData(s) PROVE BufferInv'
    <3>1. CASE SrvData(s)
      BY <2>1, <3>1, ZenonT(60) DEF SrvData, clientVars
    <3>2. CASE SrvRogueData(s)
      BY <2>1, <3>2 DEF SrvRogueData, clientVars
    <3> QED
      BY <2>3, <3>1, <3>2
  <2> QED
    BY <1>1, <1>4, <1>9, <2>2, <2>3, ServerSteps
<1>10. CASE UNCHANGED vars
  BY <1>1, <1>3, <1>10, SteadyBuffer DEF vars, clientVars
<1> QED
  BY <1>7, <1>8, <1>9, <1>10 DEF Next

\* Whatever the server sends and however slowly the bodies are read, what is
\* buffered stays within the windows: a byte is credited when it leaves a
\* queue, never when it enters one (_onData, pull, _consumeStream).
THEOREM Http2BufferBounded == Spec => []BufferBounded
PROOF
<1>1. BufferInv => BufferBounded
  BY QueuedLoads DEF BufferInv, Buffered, BufferBounded
<1>2. HInv /\ HInv' /\ BufferInv /\ [Next]_vars => BufferInv'
  BY BufferKept
<1> QED
  BY <1>1, <1>2, InitBuffer, Invariant, PTL DEF Spec

-----------------------------------------------------------------------------
(***************************************************************************)
(* Credit.  The server may still send what the client would still accept,  *)
(* less what is on the way and what the client owes.  An honest server is  *)
(* not accused either of sending DATA before its head, which takes what it *)
(* has announced on the wire into the invariant.                           *)
(***************************************************************************)
IsHead(f, s) == f.type = "headers" /\ f.stream = s
IsData(f, s) == f.type = "data" /\ f.stream = s

\* Frames q for stream s, of which the client holds r and the server v: they
\* belong to a stream that was opened, and DATA follows the head.
HasHead(q, s) == \E i \in 1..Len(q) : IsHead(q[i], s)
HeadFirst(q, s) == \A i \in 1..Len(q) : IsData(q[i], s) => \E j \in 1..(i - 1) : IsHead(q[j], s)
Known(q, s, r, v) ==
  /\ v.headers => v.open
  /\ \A i \in 1..Len(q) : IsHead(q[i], s) \/ IsData(q[i], s) => v.open
  /\ ~r.closed /\ ~r.responded => (v.headers => HasHead(q, s)) /\ HeadFirst(q, s)

\* The two ends of a live stream agree, n bytes being on the way.
Balanced(r, v, n) == ~r.closed => r.recvWindow = v.win + n + r.recvConsumed

CreditInv ==
  Honest =>
    /\ HonestServerNotBlamed
    /\ srvWin \in Nat /\ \A s \in Streams : srv[s].win \in Nat
    /\ fatal = "none" =>
         /\ recvWin = srvWin + AllInFlight + consumed
         /\ \A s \in Streams : Balanced(st[s], srv[s], InFlight(s)) /\ Known(s2c, s, st[s], srv[s])

\* A stream that only moves on stays known.
LEMMA KnownKept ==
  ASSUME NEW q, NEW s, NEW r, NEW v, NEW p, NEW w, Known(q, s, r, v),
         r.closed => p.closed, r.responded => p.responded,
         w.headers = v.headers, v.open => w.open
  PROVE  Known(q, s, p, w)
PROOF
BY DEF Known

\* The oldest frame is taken, and if it is a head the stream has it or is gone.
LEMMA KnownTaken ==
  ASSUME NEW q \in Seq(Frames), q # <<>>, NEW s, NEW r, NEW v, Known(q, s, r, v),
         IsHead(Head(q), s) => r.closed \/ r.responded
  PROVE  Known(Tail(q), s, r, v)
PROOF
<1>1. /\ Len(Tail(q)) = Len(q) - 1 /\ Len(q) \in Nat \ {0} /\ Head(q) = q[1]
      /\ \A i \in 1..Len(Tail(q)) : Tail(q)[i] = q[i + 1]
  BY HeadTailProperties, LenProperties, EmptySeq
<1>2. ASSUME NEW i \in 1..Len(Tail(q)) PROVE i + 1 \in 1..Len(q) /\ Tail(q)[i] = q[i + 1]
  BY <1>1
<1>3. ASSUME ~r.closed, ~r.responded, NEW j \in 1..Len(q), IsHead(q[j], s)
      PROVE  j - 1 \in 1..Len(Tail(q)) /\ IsHead(Tail(q)[j - 1], s)
  <2>1. j # 1
    BY <1>1, <1>3
  <2>2. j - 1 \in 1..Len(Tail(q)) /\ (j - 1) + 1 = j
    BY <1>1, <2>1
  <2> QED
    BY <1>1, <1>3, <2>2
<1>4. \A i \in 1..Len(Tail(q)) : IsHead(Tail(q)[i], s) \/ IsData(Tail(q)[i], s) => v.open
  BY <1>2 DEF Known
<1>5. ASSUME ~r.closed, ~r.responded, v.headers PROVE HasHead(Tail(q), s)
  <2>1. PICK j \in 1..Len(q) : IsHead(q[j], s)
    BY <1>5 DEF Known, HasHead
  <2> QED
    BY <1>3, <1>5, <2>1 DEF HasHead
<1>6. ASSUME ~r.closed, ~r.responded, NEW i \in 1..Len(Tail(q)), IsData(Tail(q)[i], s)
      PROVE  \E j \in 1..(i - 1) : IsHead(Tail(q)[j], s)
  <2>1. PICK j \in 1..((i + 1) - 1) : IsHead(q[j], s)
    BY <1>2, <1>6 DEF Known, HeadFirst
  <2>2. j \in 1..Len(q)
    BY <1>1, <1>2
  <2>3. j - 1 \in 1..Len(Tail(q)) /\ IsHead(Tail(q)[j - 1], s)
    BY <1>3, <1>6, <2>1, <2>2
  <2>4. j - 1 \in 1..(i - 1)
    BY <1>1, <2>3
  <2> QED
    BY <2>3, <2>4
<1>7. ~r.closed /\ ~r.responded => HeadFirst(Tail(q), s)
  BY <1>6 DEF HeadFirst
<1> QED
  BY <1>4, <1>5, <1>7 DEF Known

\* A frame is written for a stream that was opened, DATA after the head.
LEMMA KnownWritten ==
  ASSUME NEW q \in Seq(Frames), NEW f \in Frames, NEW s, NEW r, NEW v, NEW w, Known(q, s, r, v),
         IsHead(f, s) => v.open, IsData(f, s) => v.headers,
         w.open = v.open, w.headers => v.headers \/ IsHead(f, s)
  PROVE  Known(Append(q, f), s, r, w)
PROOF
<1> DEFINE p == Append(q, f)
<1>1. /\ Len(p) = Len(q) + 1 /\ Len(q) \in Nat /\ p[Len(q) + 1] = f
      /\ \A i \in 1..Len(q) : p[i] = q[i]
  BY AppendProperties, LenProperties
<1> HIDE DEF p
<1>2. \A i \in 1..Len(p) : i \in 1..Len(q) \/ i = Len(q) + 1
  BY <1>1
<1>3. ASSUME NEW j \in 1..Len(q) PROVE j \in 1..Len(p) /\ p[j] = q[j]
  BY <1>1
<1>4. (v.headers => v.open) /\ (w.headers => w.open)
  BY DEF Known
<1>5. \A i \in 1..Len(p) : IsHead(p[i], s) \/ IsData(p[i], s) => w.open
  BY <1>1, <1>2, <1>4 DEF Known
<1>6. ASSUME ~r.closed, ~r.responded, w.headers PROVE HasHead(p, s)
  <2>1. CASE IsHead(f, s)
    <3>1. Len(q) + 1 \in 1..Len(p)
      BY <1>1
    <3> QED
      BY <1>1, <2>1, <3>1 DEF HasHead
  <2>2. CASE v.headers
    <3>1. PICK j \in 1..Len(q) : IsHead(q[j], s)
      BY <1>6, <2>2 DEF Known, HasHead
    <3> QED
      BY <1>3, <3>1 DEF HasHead
  <2> QED
    BY <1>6, <2>1, <2>2
<1>7. ASSUME ~r.closed, ~r.responded, NEW i \in 1..Len(p), IsData(p[i], s)
      PROVE  \E j \in 1..(i - 1) : IsHead(p[j], s)
  <2>1. CASE i \in 1..Len(q)
    <3>1. PICK j \in 1..(i - 1) : IsHead(q[j], s)
      BY <1>1, <1>7, <2>1 DEF Known, HeadFirst
    <3>2. j \in 1..Len(q)
      BY <1>1, <2>1
    <3> QED
      BY <1>3, <3>1, <3>2
  <2>2. CASE i = Len(q) + 1
    <3>1. v.headers
      BY <1>1, <1>7, <2>2
    <3>2. PICK j \in 1..Len(q) : IsHead(q[j], s)
      BY <1>7, <3>1 DEF Known, HasHead
    <3>3. j \in 1..(i - 1)
      BY <1>1, <2>2
    <3> QED
      BY <1>3, <3>2, <3>3
  <2> QED
    BY <1>2, <2>1, <2>2
<1>8. ~r.closed /\ ~r.responded => HeadFirst(p, s)
  BY <1>7 DEF HeadFirst
<1> QED
  BY <1>4, <1>5, <1>6, <1>8 DEF Known, p

\* What is in flight to every stream, and to all.
Flying(q) == [s \in Streams |-> Total(Flows(q, s))]

\* Natural numbers, none more than their sum.
LEMMA FlyingNat ==
  ASSUME NEW q \in Seq(Frames)
  PROVE  Flying(q) \in [Streams -> Nat] /\ Total(Flying(q)) \in Nat
         /\ \A s \in Streams : Flying(q)[s] <= Total(Flying(q))
PROOF
<1>1. ASSUME NEW s \in Streams PROVE Total(Flows(q, s)) \in Nat
  BY FlowsNat, TotalNat
<1>2. Flying(q) \in [Streams -> Nat]
  BY <1>1 DEF Flying
<1> QED
  BY <1>2, StreamsNat

\* AllInFlight is the sum of these, before and after a step.
LEMMA InFlightFlying ==
  /\ AllInFlight = Total(Flying(s2c)) /\ AllInFlight' = Total(Flying(s2c'))
  /\ \A s \in Streams : InFlight(s) = Flying(s2c)[s] /\ InFlight(s)' = Flying(s2c')[s]
PROOF
<1>1. \A s \in Streams : InFlight(s) = Total(Flows(s2c, s)) /\ InFlight(s)' = Total(Flows(s2c', s))
  BY DEF InFlight, Flows
<1>2. [s \in Streams |-> InFlight(s)] = Flying(s2c) /\ [s \in Streams |-> InFlight(s)'] = Flying(s2c')
  BY <1>1 DEF Flying
<1> QED
  BY <1>1, <1>2 DEF AllInFlight, Flying

\* Nothing moves on the wire but frames without bytes.
LEMMA SameFlight ==
  ASSUME s2c \in Seq(Frames),
         \/ s2c' = s2c
         \/ s2c # <<>> /\ s2c' = Tail(s2c) /\ Head(s2c).type # "data"
         \/ \E f \in Frames : s2c' = Append(s2c, f) /\ f.type # "data"
  PROVE  AllInFlight' = AllInFlight /\ \A s \in Streams : InFlight(s)' = InFlight(s)
PROOF
<1>1. ASSUME NEW s \in Streams PROVE InFlight(s)' = InFlight(s)
  <2>1. InFlight(s) \in Nat
    BY FlightNat
  <2>2. CASE s2c' = s2c
    BY <2>2 DEF InFlight
  <2>3. CASE s2c # <<>> /\ s2c' = Tail(s2c) /\ Head(s2c).type # "data"
    <3>1. FlowTo(Head(s2c), s) = 0
      BY <2>3 DEF FlowTo
    <3> QED
      BY <2>1, <2>3, <3>1, FlightLess
  <2>4. ASSUME NEW f \in Frames, s2c' = Append(s2c, f), f.type # "data" PROVE InFlight(s)' = InFlight(s)
    <3>1. FlowTo(f, s) = 0
      BY <2>4 DEF FlowTo
    <3> QED
      BY <2>1, <2>4, <3>1, FlightMore
  <2> QED
    BY <2>2, <2>3, <2>4
<1>2. Flying(s2c') = Flying(s2c)
  <2>1. \A s \in Streams : Flying(s2c')[s] = Flying(s2c)[s]
    BY <1>1, InFlightFlying
  <2> HIDE DEF Flying
  <2>2. \A q : Flying(q) = [s \in Streams |-> Flying(q)[s]]
    BY DEF Flying
  <2> QED
    BY <2>1, <2>2
<1> QED
  BY <1>1, <1>2, InFlightFlying

\* d bytes more are on the way to one stream, or fewer.
LEMMA FlightStep ==
  ASSUME s2c \in Seq(Frames), s2c' \in Seq(Frames), NEW s \in Streams, NEW d \in Int,
         InFlight(s)' = InFlight(s) + d,
         \A t \in Streams \ {s} : InFlight(t)' = InFlight(t)
  PROVE  AllInFlight' = AllInFlight + d
PROOF
<1> DEFINE f == Flying(s2c)
           g == Flying(s2c')
<1>1. f \in [Streams -> Nat] /\ g \in [Streams -> Nat]
  BY FlyingNat
<1>2. g[s] = f[s] + d /\ \A t \in Streams \ {s} : g[t] = f[t]
  BY InFlightFlying
<1> HIDE DEF f, g
<1>3. f \in [Streams -> Int] /\ g \in [Streams -> Int]
  BY <1>1
<1>4. Total(g) = Total(f) + d
  BY <1>2, <1>3, StreamsTotal
<1> QED
  BY <1>4, InFlightFlying DEF f, g

\* Credit on the way is all there, and the oldest frame is part of it.
LEMMA FlightHolds ==
  ASSUME s2c \in Seq(Frames), NEW s \in Streams
  PROVE  /\ InFlight(s) \in Nat /\ AllInFlight \in Nat /\ InFlight(s) <= AllInFlight
         /\ s2c # <<>> => FlowTo(Head(s2c), s) <= InFlight(s)
PROOF
<1>1. InFlight(s) \in Nat /\ AllInFlight \in Nat /\ InFlight(s) <= AllInFlight
  BY FlyingNat, InFlightFlying
<1>2. ASSUME s2c # <<>> PROVE FlowTo(Head(s2c), s) <= InFlight(s)
  <2>1. /\ Flows(s2c, s) \in Seq(Nat) /\ Len(Flows(s2c, s)) = Len(s2c)
        /\ \A i \in 1..Len(s2c) : Flows(s2c, s)[i] = FlowTo(s2c[i], s)
    BY FlowsNat
  <2>2. 1 \in 1..Len(s2c) /\ Head(s2c) = s2c[1]
    <3>1. Len(s2c) \in Nat /\ Len(s2c) # 0
      BY <1>2, LenProperties, EmptySeq
    <3> QED
      BY <1>2, <3>1, HeadTailProperties
  <2> HIDE DEF Flows
  <2>3. \A i \in 1..Len(Flows(s2c, s)) : Flows(s2c, s)[i] <= Total(Flows(s2c, s))
    BY <2>1, TotalNat
  <2>4. InFlight(s) = Total(Flows(s2c, s))
    BY FlightNat
  <2> QED
    BY <2>1, <2>2, <2>3, <2>4
<1> QED
  BY <1>1, <1>2

\* What the server still has of credit, by what CreditInv says while it lives.
LEMMA CreditWhileAlive ==
  ASSUME HInv, CreditInv, Honest, fatal = "none", NEW s \in Streams
  PROVE  /\ recvWin = srvWin + AllInFlight + consumed
         /\ Balanced(st[s], srv[s], InFlight(s)) /\ Known(s2c, s, st[s], srv[s])
         /\ srvWin \in Nat /\ srv[s].win \in Nat /\ consumed \in Nat
         /\ InFlight(s) \in Nat /\ AllInFlight \in Nat /\ InFlight(s) <= AllInFlight
PROOF
<1>1. s2c \in Seq(Frames) /\ consumed \in Nat
  BY DEF HInv, StreamInv, Scalars
<1> QED
  BY <1>1, FlightHolds DEF CreditInv

\* Steps that move no byte and write no credit.
LEMMA SteadyCredit ==
  ASSUME HInv, CreditInv, SameFlow, UNCHANGED <<events, srvWin>>,
         Honest => fatal' # "overrun",
         fatal' = "none" =>
           /\ fatal = "none" /\ UNCHANGED <<recvWin, consumed>>
           /\ \/ s2c' = s2c
              \/ s2c # <<>> /\ s2c' = Tail(s2c) /\ Head(s2c).type # "data"
           /\ Honest => \A t \in Streams : Known(s2c', t, st'[t], srv'[t])
  PROVE  CreditInv'
PROOF
<1> SUFFICES ASSUME Honest PROVE CreditInv'
  BY DEF CreditInv, Honest
<1>1. /\ s2c \in Seq(Frames) /\ HonestServerNotBlamed /\ srvWin \in Nat
      /\ \A s \in Streams : srv[s].win \in Nat
  BY DEF HInv, StreamInv, CreditInv
<1>2. ASSUME NEW t \in Streams PROVE srv'[t].win = srv[t].win
  BY DEF SameFlow, Heard, SrvAgree, SrvFields
<1>3. ASSUME NEW t \in Streams PROVE st'[t].error # "protocol"
  BY <1>1 DEF SameFlow, Steady, HonestServerNotBlamed
<1>4. HonestServerNotBlamed'
  BY <1>3 DEF HonestServerNotBlamed
<1>5. ASSUME fatal' = "none"
      PROVE  recvWin' = srvWin' + AllInFlight' + consumed'
  BY <1>1, <1>5, SameFlight DEF CreditInv
<1>6. ASSUME fatal' = "none", NEW t \in Streams
      PROVE  Balanced(st'[t], srv'[t], InFlight(t)')
  <2>1. Balanced(st[t], srv[t], InFlight(t)) /\ InFlight(t)' = InFlight(t)
    BY <1>1, <1>6, SameFlight DEF CreditInv
  <2>2. Steady(st[t], st'[t])
    BY DEF SameFlow
  <2> QED
    BY <1>2, <2>1, <2>2 DEF Balanced, Steady
<1> QED
  BY <1>1, <1>2, <1>4, <1>5, <1>6 DEF CreditInv

\* A caller's step, or nothing at all.
LEMMA QuietCredit ==
  ASSUME HInv, CreditInv, Quiet
  PROVE  CreditInv'
PROOF
<1>1. SameFlow /\ UNCHANGED <<events, srvWin, fatal, recvWin, consumed, s2c>>
  BY DEF Quiet, CountersKept
<1>2. ASSUME Honest, fatal = "none", NEW t \in Streams PROVE Known(s2c, t, st'[t], srv'[t])
  <2>1. Known(s2c, t, st[t], srv[t])
    BY <1>2 DEF CreditInv
  <2>2. /\ st[t].closed => st'[t].closed
        /\ st[t].responded => st'[t].responded
        /\ srv'[t].headers = srv[t].headers
        /\ srv[t].open => srv'[t].open
    BY <1>1 DEF SameFlow, Steady, Heard, SrvAgree, SrvFields
  <2> QED
    BY <2>1, <2>2, KnownKept
<1>3. Honest => fatal' # "overrun"
  BY <1>1 DEF CreditInv, HonestServerNotBlamed
<1> QED
  BY <1>1, <1>2, <1>3, SteadyCredit

\* A frame without bytes is dispatched.
LEMMA DispatchedCredit ==
  ASSUME HInv, CreditInv, Dispatched
  PROVE  CreditInv'
PROOF
<1>1. /\ SameFlow /\ UNCHANGED <<events, srvWin, fatal, recvWin, consumed>>
      /\ fatal = "none" /\ s2c # <<>> /\ s2c' = Tail(s2c) /\ Head(s2c).type # "data"
  BY DEF Dispatched, CountersKept
<1>2. s2c \in Seq(Frames) /\ Head(s2c) \in Frames
  BY <1>1, OldestFrame DEF HInv
<1>3. ASSUME Honest, NEW t \in Streams PROVE Known(s2c', t, st'[t], srv'[t])
  <2>1. Known(s2c, t, st[t], srv[t]) /\ Begun(st[t], srv[t], events)
    BY <1>1, <1>3 DEF CreditInv, HInv, StreamInv, Good
  <2>2. /\ st[t].closed => st'[t].closed
        /\ st[t].responded => st'[t].responded
        /\ srv'[t].headers = srv[t].headers
        /\ srv[t].open => srv'[t].open
    BY <1>1 DEF SameFlow, Steady, Heard, SrvAgree, SrvFields
  <2>3. Known(s2c, t, st'[t], srv'[t])
    BY <2>1, <2>2, KnownKept
  <2>4. IsHead(Head(s2c), t) => st'[t].closed \/ st'[t].responded
    <3>1. SUFFICES ASSUME IsHead(Head(s2c), t) PROVE st'[t].closed \/ st'[t].responded
      OBVIOUS
    <3>2. ~Live(t) \/ st'[t].closed \/ st'[t].responded
      BY <3>1 DEF Dispatched, IsHead
    <3>3. srv[t].open
      <4>1. 1 \in 1..Len(s2c) /\ Head(s2c) = s2c[1]
        <5>1. Len(s2c) \in Nat /\ Len(s2c) # 0
          BY <1>1, <1>2, LenProperties, EmptySeq
        <5> QED
          BY <1>1, <1>2, <5>1, HeadTailProperties
      <4> QED
        BY <2>1, <3>1, <4>1 DEF Known
    <3>4. st[t].opened
      BY <2>1, <3>3 DEF Begun
    <3> QED
      BY <2>2, <3>2, <3>4 DEF Live
  <2> QED
    BY <1>1, <1>2, <2>3, <2>4, KnownTaken
<1>4. Honest => fatal' # "overrun"
  BY <1>1 DEF CreditInv, HonestServerNotBlamed
<1> QED
  BY <1>1, <1>3, <1>4, SteadyCredit

\* An honest server's DATA never overruns the connection.
LEMMA DiedCredit ==
  ASSUME HInv, CreditInv, Died
  PROVE  CreditInv'
PROOF
<1>1. /\ SameFlow /\ UNCHANGED <<events, srvWin>> /\ fatal = "none" /\ fatal' # "none"
  BY DEF Died
<1>2. ASSUME Honest, OnDataOverrun PROVE FALSE
  <2> DEFINE f == Head(s2c)
             s == f.stream
             flow == f.len + f.pad
  <2>1. s2c # <<>> /\ f.type = "data" /\ flow > recvWin
    <3>1. s2c # <<>> /\ f.type = "data" /\ f.len + f.pad > recvWin
      BY <1>2 DEF OnDataOverrun, Receives
    <3> QED
      BY <3>1
  <2>2. s \in Streams /\ f.len \in Nat /\ f.pad \in Nat /\ s2c \in Seq(Frames)
    BY <2>1, OldestFrame, FrameTypes DEF HInv, DataFrames
  <2>3. FlowTo(f, s) = flow /\ flow \in Nat
    BY <2>1, <2>2 DEF FlowTo
  <2>4. FlowTo(f, s) <= InFlight(s)
    BY <2>1, <2>2, FlightHolds
  <2> HIDE DEF f, s, flow
  <2>5. /\ recvWin = srvWin + AllInFlight + consumed /\ srvWin \in Nat /\ consumed \in Nat
        /\ InFlight(s) \in Nat /\ AllInFlight \in Nat /\ InFlight(s) <= AllInFlight
    BY <1>1, <1>2, <2>2, CreditWhileAlive
  <2> QED
    BY <2>1, <2>3, <2>4, <2>5
<1>3. Honest => fatal' # "overrun"
  BY <1>2 DEF Died
<1> QED
  BY <1>1, <1>3, SteadyCredit

\* The server writes a frame without bytes.
LEMMA WrittenCredit ==
  ASSUME HInv, CreditInv, NEW f \in Frames, Written(f)
  PROVE  CreditInv'
PROOF
<1> SUFFICES ASSUME Honest PROVE CreditInv'
  BY DEF Written, CreditInv, Honest
<1>1. /\ UNCHANGED <<recvWin, consumed, srvWin, st, fatal, events>>
      /\ s2c' = Append(s2c, f) /\ f.type # "data"
  BY DEF Written, CountersKept
<1>2. /\ s2c \in Seq(Frames) /\ HonestServerNotBlamed /\ srvWin \in Nat
      /\ \A s \in Streams : srv[s].win \in Nat
  BY DEF HInv, StreamInv, CreditInv
<1>3. AllInFlight' = AllInFlight /\ \A t \in Streams : InFlight(t)' = InFlight(t)
  BY <1>1, <1>2, SameFlight
<1>4. ASSUME NEW t \in Streams PROVE srv'[t].win = srv[t].win
  BY DEF Written
<1>5. ASSUME fatal = "none", NEW t \in Streams
      PROVE  Balanced(st[t], srv'[t], InFlight(t)') /\ Known(s2c', t, st[t], srv'[t])
  <2>1. Balanced(st[t], srv[t], InFlight(t)) /\ Known(s2c, t, st[t], srv[t])
    BY <1>5 DEF CreditInv
  <2>2. Balanced(st[t], srv'[t], InFlight(t)')
    BY <1>3, <1>4, <2>1 DEF Balanced
  <2>3. /\ IsHead(f, t) => srv[t].open
        /\ ~IsData(f, t) /\ srv'[t].open = srv[t].open
        /\ srv'[t].headers => srv[t].headers \/ IsHead(f, t)
    BY DEF Written, IsHead, IsData
  <2>4. Known(Append(s2c, f), t, st[t], srv'[t])
    BY <1>2, <2>1, <2>3, KnownWritten
  <2> QED
    BY <1>1, <2>2, <2>4
<1>6. HonestServerNotBlamed'
  BY <1>1, <1>2 DEF HonestServerNotBlamed, Honest
<1>7. fatal' = "none" => recvWin' = srvWin' + AllInFlight' + consumed'
  BY <1>1, <1>3 DEF CreditInv
<1> QED
  BY <1>1, <1>2, <1>4, <1>5, <1>6, <1>7 DEF CreditInv

\* The server spends credit to write DATA.
LEMMA SrvDataCredit ==
  ASSUME HInv, CreditInv, NEW s \in Streams, SrvData(s)
  PROVE  CreditInv'
PROOF
<1>1. PICK len \in 0..MaxFrame, pad \in 0..1, end \in BOOLEAN :
        /\ srv[s].headers /\ fatal = "none"
        /\ len + pad <= srv[s].win /\ len + pad <= srvWin
        /\ s2c' = Append(s2c, DataFrame(s, len, pad, end))
        /\ srv' = [srv EXCEPT ![s].left = @ - len, ![s].sent = @ + len,
                              ![s].win = @ - len - pad, ![s].ended = end]
        /\ srvWin' = srvWin - len - pad
        /\ UNCHANGED <<events, clientVars, srvLast>>
  BY ZenonT(60) DEF SrvData, Write
<1> SUFFICES ASSUME Honest PROVE CreditInv'
  BY <1>1 DEF CreditInv, Honest
<1> DEFINE f == DataFrame(s, len, pad, end)
           flow == len + pad
<1>2. MaxFrame \in Nat /\ len \in Nat /\ pad \in Nat /\ flow \in Nat
  BY Http2Assumption
<1>3. /\ s2c \in Seq(Frames) /\ HonestServerNotBlamed /\ srvWin \in Nat
      /\ \A t \in Streams : srv[t].win \in Nat
      /\ srv \in [Streams -> ServerType]
  BY DEF HInv, StreamInv, CreditInv
<1>4. /\ f \in Frames /\ f.type = "data" /\ f.stream = s /\ f.len = len /\ f.pad = pad
  <2>1. srv[s].sent \in Nat
    BY <1>3 DEF ServerType
  <2> QED
    BY <1>2, <2>1 DEF DataFrame, Frames, DataFrames
<1>5. /\ srv'[s].win = srv[s].win - len - pad
      /\ srv'[s].open = srv[s].open /\ srv'[s].headers = srv[s].headers
      /\ \A t \in Streams \ {s} : srv'[t] = srv[t]
  BY <1>1, <1>3 DEF ServerType
<1>6. s2c' = Append(s2c, f) /\ UNCHANGED <<st, recvWin, consumed, fatal, events>>
  BY <1>1 DEF clientVars
<1> HIDE DEF f
<1>7. InFlight(s)' = InFlight(s) + flow /\ \A t \in Streams \ {s} : InFlight(t)' = InFlight(t)
  <2>1. FlowTo(f, s) = flow
    BY <1>4 DEF FlowTo
  <2>2. ASSUME NEW t \in Streams \ {s} PROVE FlowTo(f, t) = 0 /\ InFlight(t) \in Nat
    BY <1>3, <1>4, FlightNat DEF FlowTo
  <2>3. InFlight(s)' = InFlight(s) + FlowTo(f, s)
    BY <1>3, <1>4, <1>6, FlightMore
  <2>4. ASSUME NEW t \in Streams \ {s} PROVE InFlight(t)' = InFlight(t) + FlowTo(f, t)
    BY <1>3, <1>4, <1>6, FlightMore
  <2> QED
    BY <2>1, <2>2, <2>3, <2>4
<1>8. AllInFlight' = AllInFlight + flow
  <2>1. s2c' \in Seq(Frames)
    BY <1>3, <1>4, <1>6, AppendProperties
  <2>2. flow \in Int
    BY <1>2
  <2> HIDE DEF flow
  <2> QED
    BY <1>3, <1>7, <2>1, <2>2, FlightStep
<1>9. /\ recvWin = srvWin + AllInFlight + consumed /\ consumed \in Nat /\ AllInFlight \in Nat
      /\ srv[s].win \in Nat /\ InFlight(s) \in Nat
      /\ Balanced(st[s], srv[s], InFlight(s))
  BY <1>1, CreditWhileAlive
<1>10. srvWin' \in Nat /\ recvWin' = srvWin' + AllInFlight' + consumed'
  <2>1. srvWin' = srvWin - len - pad /\ flow <= srvWin /\ consumed' = consumed /\ recvWin' = recvWin
    BY <1>1, <1>6
  <2> QED
    BY ONLY <1>2, <1>3, <1>8, <1>9, <2>1
<1>11. \A t \in Streams : srv'[t].win \in Nat
  <2>1. srv'[s].win \in Nat
    <3>1. flow <= srv[s].win
      BY <1>1
    <3> QED
      BY ONLY <1>2, <1>3, <1>5, <3>1
  <2> QED
    BY <1>3, <1>5, <2>1
<1>12. ASSUME NEW t \in Streams PROVE Balanced(st'[t], srv'[t], InFlight(t)')
  <2>1. CASE t = s
    <3>1. st[s].closed \/ st[s].recvWindow = srv[s].win + InFlight(s) + st[s].recvConsumed
      BY <1>9 DEF Balanced
    <3>2. st[s].recvConsumed \in Nat
      BY DEF HInv, StreamInv, StreamType
    <3>3. srv[s].win + InFlight(s) + st[s].recvConsumed
            = srv'[s].win + InFlight(s)' + st[s].recvConsumed
      BY <1>2, <1>5, <1>7, <1>9, <3>2
    <3> QED
      BY <1>6, <2>1, <3>1, <3>3 DEF Balanced
  <2>2. CASE t # s
    <3>1. Balanced(st[t], srv[t], InFlight(t))
      BY <1>1 DEF CreditInv
    <3> QED
      BY <1>5, <1>6, <1>7, <2>2, <3>1
  <2> QED
    BY <2>1, <2>2
<1>13. ASSUME NEW t \in Streams PROVE Known(s2c', t, st'[t], srv'[t])
  <2>1. Known(s2c, t, st[t], srv[t])
    BY <1>1 DEF CreditInv
  <2>2. /\ ~IsHead(f, t) /\ (IsData(f, t) => srv[t].headers)
        /\ srv'[t].open = srv[t].open /\ srv'[t].headers = srv[t].headers
    BY <1>1, <1>4, <1>5 DEF IsHead, IsData
  <2> QED
    BY <1>3, <1>4, <1>6, <2>1, <2>2, KnownWritten
<1>14. HonestServerNotBlamed'
  BY <1>3, <1>6 DEF HonestServerNotBlamed, Honest
<1> QED
  BY <1>10, <1>11, <1>12, <1>13, <1>14 DEF CreditInv

\* The connection's credit: what is debited and credited is conserved.
LEMMA ConnKept ==
  ASSUME NEW a \in Nat, NEW taken \in Nat, NEW given \in Nat, fatal = "none",
         srvWin \in Nat, consumed \in Nat, recvWin = srvWin + a + consumed, taken <= a,
         ConnCredit(taken, given)
  PROVE  srvWin' \in Nat /\ recvWin' = srvWin' + (a - taken) + consumed'
PROOF
<1> DEFINE owed == consumed + given
           pays == given > 0 /\ owed >= Threshold(ConnWindow)
<1>1. owed \in Nat /\ owed = consumed + given
  OBVIOUS
<1>2. /\ recvWin' = recvWin - taken + given
      /\ consumed' = IF pays THEN 0 ELSE owed
      /\ srvWin' = IF pays THEN srvWin + owed ELSE srvWin
  BY DEF ConnCredit
<1> HIDE DEF pays, owed
<1> QED
  BY <1>1, <1>2

\* Once the connection is dead only the client's own books change.
LEMMA DeadCredit ==
  ASSUME HInv, CreditInv, fatal # "none", UNCHANGED <<fatal, events, srvWin>>,
         \A t \in Streams : /\ srv'[t].win = srv[t].win
                            /\ st'[t].error = "protocol" => st[t].error = "protocol"
  PROVE  CreditInv'
PROOF
BY DEF CreditInv, HonestServerNotBlamed, Honest

\* pull() pays the server for the chunk it takes.
LEMMA PullChunkCredit ==
  ASSUME HInv, BufferInv, CreditInv, NEW s \in Streams, PullChunk(s)
  PROVE  CreditInv'
PROOF
<1> DEFINE r == st[s]
           n == Head(r.queue).len
           p == TakeChunk(r)
           q == ReplenishStream(p, n)
           w == ReplenishPeer(srv, s, r, n)
<1>1. /\ st \in [Streams -> StreamType] /\ r \in StreamType /\ srv \in [Streams -> ServerType]
      /\ s2c \in Seq(Frames) /\ Buffered(r)
  BY DEF HInv, StreamInv, BufferInv
<1>2. /\ st' = [st EXCEPT ![s] = q] /\ r.queue # <<>> /\ ConnCredit(0, n) /\ srv' = w
      /\ UNCHANGED <<fatal, s2c, events>>
  BY DEF PullChunk
<1>3. n \in Nat /\ n > 0
  <2>1. r.queue \in Seq(Chunks)
    BY <1>1 DEF StreamType
  <2>2. Len(r.queue) \in Nat /\ Len(r.queue) # 0 /\ Head(r.queue) = r.queue[1] /\ Head(r.queue) \in Chunks
    BY <1>2, <2>1, LenProperties, EmptySeq, HeadTailProperties
  <2>3. r.queue[1].len > 0
    BY <1>1, <2>2 DEF Buffered, Solid
  <2> QED
    BY <2>2, <2>3 DEF Chunks
<1>4. /\ p \in StreamType /\ Agree(r, p, {"queue", "delivered", "pull"})
  BY <1>1, <1>2, TakesChunk
<1> HIDE DEF p
<1>5. /\ q \in StreamType /\ Agree(p, q, {"recvWindow", "recvConsumed"})
      /\ q.recvWindow = p.recvWindow + n
      /\ q.recvConsumed = IF StreamOwes(p, n) THEN 0 ELSE p.recvConsumed + n
  BY <1>3, <1>4, WindowGrows
<1>6. /\ p.closed = r.closed /\ p.recvWindow = r.recvWindow /\ p.recvConsumed = r.recvConsumed
      /\ p.responded = r.responded /\ p.error = r.error
  BY <1>4 DEF Agree, Fields
<1>7. StreamOwes(p, n) <=> Paid(r, n)
  BY <1>3, <1>6 DEF StreamOwes, Paid
<1>8. /\ q.closed = r.closed /\ q.responded = r.responded /\ q.error = r.error
      /\ q.recvWindow = r.recvWindow + n
      /\ q.recvConsumed = IF Paid(r, n) THEN 0 ELSE r.recvConsumed + n
  BY <1>5, <1>6, <1>7 DEF Agree, Fields
<1>9. /\ w \in [Streams -> ServerType]
      /\ \A t \in Streams : SrvAgree(srv[t], w[t], {"late", "win"})
      /\ \A t \in Streams \ {s} : w[t].win = srv[t].win
      /\ w[s].win = IF Paid(r, n) /\ fatal = "none" THEN srv[s].win + (r.recvConsumed + n)
                                                    ELSE srv[s].win
  BY <1>1, <1>3, PeerPaid
<1>10. st'[s] = q /\ \A t \in Streams \ {s} : st'[t] = st[t]
  BY <1>1, <1>2
<1> HIDE DEF q, w, n
<1>11. \A t \in Streams : st'[t].error = "protocol" => st[t].error = "protocol"
  BY <1>8, <1>10
<1>12. CASE fatal # "none"
  <2>1. \A t \in Streams : srv'[t].win = srv[t].win
    BY <1>2, <1>9, <1>12
  <2>2. srvWin' = srvWin
    BY <1>2, <1>12 DEF ConnCredit
  <2> QED
    BY <1>2, <1>11, <1>12, <2>1, <2>2, DeadCredit
<1>13. ASSUME fatal = "none", Honest PROVE CreditInv'
  <2>1. /\ recvWin = srvWin + AllInFlight + consumed
        /\ srvWin \in Nat /\ srv[s].win \in Nat /\ consumed \in Nat
        /\ InFlight(s) \in Nat /\ AllInFlight \in Nat
        /\ Balanced(r, srv[s], InFlight(s))
    BY <1>13, CreditWhileAlive
  <2>2. AllInFlight' = AllInFlight /\ \A t \in Streams : InFlight(t)' = InFlight(t)
    BY <1>1, <1>2, SameFlight
  <2>3. srvWin' \in Nat /\ recvWin' = srvWin' + AllInFlight' + consumed'
    <3>1. srvWin' \in Nat /\ recvWin' = srvWin' + (AllInFlight - 0) + consumed'
      <4>1. 0 \in Nat /\ 0 <= AllInFlight
        BY <2>1
      <4> QED
        BY <1>2, <1>3, <1>13, <2>1, <4>1, ConnKept
    <3>2. AllInFlight - 0 = AllInFlight
      BY <2>1
    <3> QED
      BY <2>2, <3>1, <3>2
  <2>4. r.recvConsumed \in Nat /\ r.recvWindow \in Int
    BY <1>1 DEF StreamType
  <2>5. w[s].win \in Nat /\ (~r.closed => q.recvWindow = w[s].win + InFlight(s) + q.recvConsumed)
    <3>1. ~r.closed => r.recvWindow = srv[s].win + InFlight(s) + r.recvConsumed
      BY <2>1 DEF Balanced
    <3> QED
      BY <1>3, <1>8, <1>9, <1>13, <2>1, <2>4, <3>1
  <2>6. ASSUME NEW t \in Streams PROVE srv'[t].win \in Nat /\ Balanced(st'[t], srv'[t], InFlight(t)')
    <3>1. CASE t = s
      BY <1>2, <1>8, <1>10, <2>2, <2>5, <3>1 DEF Balanced
    <3>2. CASE t # s
      <4>1. Balanced(st[t], srv[t], InFlight(t)) /\ srv[t].win \in Nat
        BY <1>13 DEF CreditInv
      <4>2. st'[t] = st[t] /\ srv'[t].win = srv[t].win
        BY <1>2, <1>9, <1>10, <3>2
      <4> QED
        BY <2>2, <4>1, <4>2 DEF Balanced
    <3> QED
      BY <3>1, <3>2
  <2>7. ASSUME NEW t \in Streams PROVE Known(s2c', t, st'[t], srv'[t])
    <3>1. Known(s2c, t, st[t], srv[t])
      BY <1>13 DEF CreditInv
    <3>2. srv'[t].headers = srv[t].headers /\ srv'[t].open = srv[t].open
      BY <1>2, <1>9 DEF SrvAgree, SrvFields
    <3>3. st'[t].closed = st[t].closed /\ st'[t].responded = st[t].responded
      BY <1>8, <1>10
    <3> QED
      BY <1>2, <3>1, <3>2, <3>3, KnownKept
  <2>8. HonestServerNotBlamed'
    BY <1>2, <1>11, <1>13 DEF CreditInv, HonestServerNotBlamed
  <2> QED
    BY <2>3, <2>6, <2>7, <2>8 DEF CreditInv
<1>14. ~Honest => CreditInv'
  BY <1>2 DEF CreditInv, Honest
<1> QED
  BY <1>12, <1>13, <1>14

\* The oldest frame on the wire is DATA that its stream knows of.
LEMMA DataExpected ==
  ASSUME HInv, CreditInv, Honest, OnData
  PROVE  LET f == Head(s2c)
             s == f.stream
         IN /\ Live(s) => st[s].responded /\ st[s].recvWindow >= f.len + f.pad
            /\ ~Live(s) => st[s].closed
            /\ FlowTo(f, s) = f.len + f.pad /\ f.len + f.pad <= InFlight(s)
PROOF
<1> DEFINE f == Head(s2c)
           s == f.stream
           flow == f.len + f.pad
<1>1. fatal = "none" /\ s2c # <<>> /\ f.type = "data"
  BY DEF OnData, Receives
<1>2. /\ s \in Streams /\ f.len \in Nat /\ f.pad \in Nat /\ s2c \in Seq(Frames)
      /\ 1 \in 1..Len(s2c) /\ f = s2c[1]
  <2>1. s2c \in Seq(Frames) /\ Len(s2c) \in Nat /\ Len(s2c) # 0
    BY <1>1, LenProperties, EmptySeq DEF HInv, StreamInv
  <2>2. 1 \in 1..Len(s2c) /\ f = s2c[1]
    BY <1>1, <2>1, HeadTailProperties
  <2> QED
    BY <1>1, <2>1, <2>2, OldestFrame, FrameTypes DEF HInv, DataFrames
<1>3. FlowTo(f, s) = flow /\ flow \in Nat /\ flow <= InFlight(s)
  <2>1. FlowTo(f, s) = flow
    BY <1>1 DEF FlowTo
  <2>2. FlowTo(f, s) <= InFlight(s)
    BY <1>1, <1>2, FlightHolds
  <2> QED
    BY <1>2, <2>1, <2>2
<1>4. /\ st[s] \in StreamType /\ Begun(st[s], srv[s], events)
  BY <1>2 DEF HInv, StreamInv, Good
<1> HIDE DEF f, s, flow
<1>5. /\ Balanced(st[s], srv[s], InFlight(s)) /\ Known(s2c, s, st[s], srv[s])
      /\ srv[s].win \in Nat /\ InFlight(s) \in Nat
  BY <1>1, <1>2, CreditWhileAlive
<1>6. IsData(s2c[1], s)
  BY <1>1, <1>2 DEF IsData, s
<1>7. st[s].opened
  BY <1>2, <1>4, <1>5, <1>6 DEF Known, Begun
<1>8. ASSUME Live(s) PROVE st[s].responded /\ st[s].recvWindow >= flow
  <2>1. ~st[s].closed
    BY <1>8 DEF Live
  <2>2. st[s].responded
    <3>1. ~HeadFirst(s2c, s)
      <4>1. ~\E j \in 1..(1 - 1) : IsHead(s2c[j], s)
        OBVIOUS
      <4> QED
        BY <1>2, <1>6, <4>1 DEF HeadFirst
    <3> QED
      BY <1>5, <2>1, <3>1 DEF Known
  <2>3. st[s].recvWindow = srv[s].win + InFlight(s) + st[s].recvConsumed /\ st[s].recvConsumed \in Nat
    BY <1>4, <1>5, <2>1 DEF Balanced, StreamType
  <2> QED
    BY <1>3, <1>5, <2>2, <2>3
<1> QED
  BY <1>3, <1>7, <1>8 DEF Live, f, s, flow

\* DATA uses up the credit it was sent on; padding, and what no stream takes,
\* is paid back at once.
LEMMA DataCredit ==
  ASSUME HInv, HInv', CreditInv, OnData
  PROVE  CreditInv'
PROOF
<1>0. PICK s \in Streams : s = Head(s2c).stream
  <2>1. Head(s2c).stream \in Streams
    BY DataSteps DEF HInv
  <2> QED
    BY <2>1
<1> DEFINE f == Head(s2c)
           flow == f.len + f.pad
           x == st[s]
           q == st'[s]
<1>1. /\ StreamInv /\ StreamInv' /\ Scalars
  BY DEF HInv
<1>2. /\ fatal = "none" /\ s2c # <<>> /\ s2c' = Tail(s2c) /\ f \in DataFrames /\ s \in Streams
      /\ fatal' = fatal /\ events' = events
      /\ \A t \in Streams \ {s} : st'[t] = st[t]
      /\ DataStray(s, flow) \/ DataBlamed(s, flow) \/ DataReceived(s, f)
  BY <1>0, <1>1, DataSteps
<1> SUFFICES ASSUME Honest PROVE CreditInv'
  BY <1>2 DEF CreditInv, Honest
<1>3. /\ Live(s) => x.responded /\ x.recvWindow >= flow
      /\ ~Live(s) => x.closed
      /\ FlowTo(f, s) = flow /\ flow <= InFlight(s)
  BY <1>0, DataExpected
<1>4. f.len \in Nat /\ f.pad \in Nat /\ flow \in Nat /\ f.type = "data"
  BY <1>2 DEF DataFrames
<1>5. /\ x \in StreamType /\ s2c \in Seq(Frames) /\ s2c' \in Seq(Frames)
      /\ srv \in [Streams -> ServerType] /\ srv[s] \in ServerType
  BY <1>1, <1>2 DEF StreamInv
<1>6. \A t : t # s => FlowTo(f, t) = 0
  BY <1>0 DEF FlowTo
<1>7. flow = f.len + f.pad
  OBVIOUS
<1>8. \A t \in Streams : ~IsHead(f, t)
  BY <1>4 DEF IsHead
<1>9. InFlight(s)' = InFlight(s) - flow /\ \A t \in Streams \ {s} : InFlight(t)' = InFlight(t)
  <2>1. ASSUME NEW t \in Streams PROVE InFlight(t)' = InFlight(t) - FlowTo(f, t) /\ InFlight(t) \in Nat
    BY <1>2, <1>5, FlightLess, FlightNat
  <2> HIDE DEF f, flow
  <2>2. InFlight(s)' = InFlight(s) - flow
    BY <1>2, <1>3, <2>1
  <2>3. ASSUME NEW t \in Streams \ {s} PROVE InFlight(t)' = InFlight(t)
    <3>1. InFlight(t)' = InFlight(t) - FlowTo(f, t) /\ InFlight(t) \in Nat
      BY <2>1
    <3>2. FlowTo(f, t) = 0
      BY <1>6
    <3> QED
      BY <3>1, <3>2
  <2> QED
    BY <2>2, <2>3
<1>10. f = Head(s2c)
  OBVIOUS
<1> HIDE DEF f, flow
<1>11. AllInFlight' = AllInFlight - flow
  <2>1. InFlight(s)' = InFlight(s) + (0 - flow) /\ (0 - flow) \in Int
    <3>1. InFlight(s) \in Nat
      BY <1>5, FlightNat
    <3> QED
      BY <1>4, <1>9, <3>1
  <2>2. AllInFlight' = AllInFlight + (0 - flow)
    <3> DEFINE d == 0 - flow
    <3>1. d \in Int /\ InFlight(s)' = InFlight(s) + d
      BY <2>1
    <3> HIDE DEF d
    <3>2. AllInFlight' = AllInFlight + d
      BY <1>2, <1>5, <1>9, <3>1, FlightStep
    <3> QED
      BY <3>2 DEF d
  <2>3. AllInFlight \in Nat
    BY <1>2, <1>5, FlightHolds
  <2> QED
    BY <1>4, <2>2, <2>3
<1>12. /\ recvWin = srvWin + AllInFlight + consumed
       /\ Balanced(x, srv[s], InFlight(s))
       /\ srvWin \in Nat /\ srv[s].win \in Nat /\ consumed \in Nat
       /\ InFlight(s) \in Nat /\ AllInFlight \in Nat /\ InFlight(s) <= AllInFlight
  BY <1>2, CreditWhileAlive
<1>13. ASSUME NEW given \in Nat, ConnCredit(flow, given)
       PROVE  srvWin' \in Nat /\ recvWin' = srvWin' + AllInFlight' + consumed'
  <2>1. flow <= AllInFlight
    BY <1>3, <1>4, <1>12
  <2> QED
    BY <1>2, <1>4, <1>11, <1>12, <1>13, <2>1, ConnKept
<1>14. \A t \in Streams : srv[t].win \in Nat /\ st[t].error # "protocol"
  BY DEF CreditInv, HonestServerNotBlamed
<1>15. ASSUME NEW t \in Streams,
              /\ st[t].closed => st'[t].closed
              /\ st[t].responded => st'[t].responded
              /\ srv'[t].headers = srv[t].headers
              /\ srv[t].open => srv'[t].open
       PROVE  Known(s2c', t, st'[t], srv'[t])
  <2>1. Known(s2c, t, st[t], srv[t])
    BY <1>2 DEF CreditInv
  <2>2. Known(s2c, t, st'[t], srv'[t])
    BY <1>15, <2>1, KnownKept
  <2>3. Known(Tail(s2c), t, st'[t], srv'[t])
    BY <1>2, <1>5, <1>8, <1>10, <2>2, KnownTaken
  <2> QED
    BY <1>2, <2>3
<1>16. ASSUME NEW t \in Streams \ {s}, srv'[t].win = srv[t].win
       PROVE  Balanced(st'[t], srv'[t], InFlight(t)')
  <2>1. Balanced(st[t], srv[t], InFlight(t))
    BY <1>2 DEF CreditInv
  <2> QED
    BY <1>2, <1>9, <1>16, <2>1 DEF Balanced
<1>17. ASSUME NEW given \in Nat, ConnCredit(flow, given),
              \A t \in Streams : st'[t].error # "protocol" /\ srv'[t].win \in Nat,
              \A t \in Streams : Balanced(st'[t], srv'[t], InFlight(t)'),
              \A t \in Streams : Known(s2c', t, st'[t], srv'[t])
       PROVE  CreditInv'
  <2>1. srvWin' \in Nat /\ recvWin' = srvWin' + AllInFlight' + consumed'
    BY <1>13, <1>17
  <2>2. HonestServerNotBlamed'
    BY <1>2, <1>17 DEF HonestServerNotBlamed
  <2> QED
    BY <1>17, <2>1, <2>2 DEF CreditInv
<1>18. CASE DataStray(s, flow)
  <2>1. ConnCredit(flow, flow) /\ st' = st /\ srv' = srv /\ x.closed
    BY <1>3, <1>18 DEF DataStray
  <2>2. ASSUME NEW t \in Streams PROVE Balanced(st'[t], srv'[t], InFlight(t)')
    BY <1>16, <2>1 DEF Balanced
  <2> QED
    BY <1>4, <1>14, <1>15, <1>17, <2>1, <2>2
<1>19. CASE DataBlamed(s, flow)
  BY <1>3, <1>4, <1>5, <1>19 DEF DataBlamed, StreamType
<1>20. CASE DataReceived(s, f)
  <2> DEFINE w == ReplenishPeer(srv, s, x, f.pad)
  <2>1. ConnCredit(flow, f.pad) /\ Received(x, q, f) /\ Live(s)
    BY <1>7, <1>20 DEF DataReceived
  <2>2. /\ \A t \in Streams : SrvAgree(srv[t], w[t], {"late", "win"})
        /\ \A t \in Streams \ {s} : w[t].win = srv[t].win
        /\ w[s].win = IF Paid(x, f.pad) THEN srv[s].win + (x.recvConsumed + f.pad) ELSE srv[s].win
    BY <1>2, <1>4, <1>5, PeerPaid
  <2>3. \A t \in Streams : SrvAgree(w[t], srv'[t], {"gotRst", "late"})
    BY <1>20 DEF DataReceived
  <2> HIDE DEF w
  <2>4. ASSUME NEW t \in Streams
        PROVE  /\ srv'[t].win = w[t].win /\ srv'[t].headers = srv[t].headers
               /\ srv'[t].open = srv[t].open
    BY <2>2, <2>3 DEF SrvAgree, SrvFields
  <2>5. ASSUME NEW t \in Streams PROVE Known(s2c', t, st'[t], srv'[t])
    <3>1. (st[t].closed => st'[t].closed) /\ (st[t].responded => st'[t].responded)
      BY <1>2, <2>1 DEF Received
    <3> QED
      BY <1>15, <2>4, <3>1
  <2>6. x.recvConsumed \in Nat /\ x.recvWindow \in Int
    BY <1>5 DEF StreamType
  <2>7. srv'[s].win \in Nat /\ Balanced(q, srv'[s], InFlight(s)')
    <3>1. x.recvWindow = srv[s].win + InFlight(s) + x.recvConsumed
      BY <1>12, <2>1 DEF Balanced, Live
    <3>2. ~q.closed => /\ q.recvWindow = x.recvWindow - flow + f.pad
                       /\ q.recvConsumed = IF Paid(x, f.pad) THEN 0 ELSE x.recvConsumed + f.pad
      BY <1>7, <2>1 DEF Received
    <3>3. srv'[s].win = IF Paid(x, f.pad) THEN srv[s].win + (x.recvConsumed + f.pad) ELSE srv[s].win
      BY <1>2, <2>2, <2>4
    <3>4. srv'[s].win \in Nat
      BY <1>4, <1>12, <2>6, <3>3
    <3>5. ~q.closed => q.recvWindow = srv'[s].win + InFlight(s)' + q.recvConsumed
      BY <1>4, <1>9, <1>12, <2>6, <3>1, <3>2, <3>3
    <3> QED
      BY <3>4, <3>5 DEF Balanced
  <2>8. ASSUME NEW t \in Streams
        PROVE  srv'[t].win \in Nat /\ Balanced(st'[t], srv'[t], InFlight(t)')
    <3>1. CASE t = s
      BY <2>7, <3>1
    <3>2. CASE t # s
      <4>1. t \in Streams \ {s} /\ srv'[t].win = srv[t].win
        BY <2>2, <2>4, <3>2
      <4>2. srv[t].win \in Nat
        BY <1>14
      <4> QED
        BY <1>16, <4>1, <4>2
    <3> QED
      BY <3>1, <3>2
  <2>9. ASSUME NEW t \in Streams PROVE st'[t].error # "protocol"
    BY <1>2, <1>14, <2>1 DEF Received
  <2> QED
    BY <1>4, <1>17, <2>1, <2>5, <2>8, <2>9
<1> QED
  BY <1>2, <1>18, <1>19, <1>20

\* At first nothing is on the way, and nothing is owed.
LEMMA InitCredit == Init => CreditInv
PROOF
<1> SUFFICES ASSUME Init PROVE CreditInv
  OBVIOUS
<1>1. StreamWindow \in Nat /\ ConnWindow \in Nat /\ s2c = <<>> /\ s2c \in Seq(Frames)
  BY Http2Assumption DEF Init
<1>2. /\ recvWin = ConnWindow /\ srvWin = ConnWindow /\ consumed = 0 /\ fatal = "none"
      /\ \A s \in Streams : st[s] = Unopened /\ srv[s] = Unseen
  BY DEF Init
<1>3. ASSUME NEW s \in Streams PROVE InFlight(s) = 0
  <2>1. Flows(s2c, s) \in Seq(Int) /\ Len(Flows(s2c, s)) = 0
    BY <1>1, FlowsNat
  <2>2. \A i \in 1..Len(Flows(s2c, s)) : Flows(s2c, s)[i] = 0
    BY <2>1
  <2> HIDE DEF Flows
  <2> QED
    BY <1>1, <2>1, <2>2, TotalZero, FlightNat
<1>4. AllInFlight = 0
  <2> DEFINE g == Flying(s2c)
  <2>1. g \in [Streams -> Nat] /\ \A s \in Streams : g[s] = 0
    BY <1>1, <1>3, FlyingNat, InFlightFlying
  <2> HIDE DEF g
  <2>2. g \in Seq(Int) /\ \A i \in 1..Len(g) : i \in Streams
    <3>1. g \in [Streams -> Int]
      BY <2>1
    <3> QED
      BY <3>1, ByStream DEF Streams
  <2>3. Total(g) = 0
    BY <2>1, <2>2, TotalZero
  <2> QED
    BY <2>3, InFlightFlying DEF g
<1>5. ASSUME NEW s \in Streams
      PROVE  /\ st[s].error = "none" /\ srv[s].win = StreamWindow
             /\ st[s].recvWindow = StreamWindow /\ st[s].recvConsumed = 0 /\ ~srv[s].headers
  BY <1>2 DEF Unopened, Unseen
<1>6. ASSUME NEW s \in Streams PROVE Balanced(st[s], srv[s], InFlight(s))
  BY <1>1, <1>3, <1>5 DEF Balanced
<1>7. ASSUME NEW s \in Streams PROVE Known(s2c, s, st[s], srv[s])
  <2>1. ~\E i \in 1..Len(s2c) : TRUE
    BY <1>1
  <2> QED
    BY <1>5, <2>1 DEF Known, HeadFirst
<1>8. HonestServerNotBlamed
  BY <1>2, <1>5 DEF HonestServerNotBlamed
<1>9. recvWin = srvWin + AllInFlight + consumed
  BY <1>1, <1>2, <1>4
<1> QED
  BY <1>1, <1>2, <1>5, <1>6, <1>7, <1>8, <1>9 DEF CreditInv

\* No step breaks it.
LEMMA CreditStep ==
  ASSUME HInv, HInv', BufferInv, CreditInv, [Next]_vars
  PROVE  CreditInv'
PROOF
<1>1. StreamInv /\ StreamInv' /\ Scalars
  BY DEF HInv
<1>2. CASE Quiet
  BY <1>2, QuietCredit
<1>3. CASE Died
  BY <1>3, DiedCredit
<1>4. CASE Caller
  BY <1>1, <1>2, <1>3, <1>4, CallerSteps, PullChunkCredit
<1>5. CASE OnFrame
  BY <1>1, <1>3, <1>5, FrameSteps, DataCredit, DispatchedCredit
<1>6. CASE Server
  <2>1. ASSUME NEW s \in Streams, SrvRogueData(s) PROVE CreditInv'
    BY <2>1 DEF SrvRogueData, CreditInv, Honest
  <2> QED
    BY <1>1, <1>2, <1>6, <2>1, ServerSteps, WrittenCredit, SrvDataCredit
<1>7. CASE UNCHANGED vars
  <2>1. ASSUME NEW t \in Streams PROVE Heard(srv[t], srv[t])
    BY <1>1, RstHeard DEF StreamInv
  <2>2. Quiet
    BY <1>7, <2>1 DEF vars, clientVars, serverVars, Quiet, SameFlow, Steady, CountersKept
  <2> QED
    BY <1>2, <2>2
<1> QED
  BY <1>4, <1>5, <1>6, <1>7 DEF Next

-----------------------------------------------------------------------------
(***************************************************************************)
(* Where the credit is.  What a body received and was not read waits in    *)
(* its queue, but for the last frame of a body that overran its length;    *)
(* what is owed is less than half a window.                                *)
(***************************************************************************)
Held(r) == r.received - r.delivered = Bytes(r.queue) \/ TooLong(r)
Awaited(r) == r.queue # <<>> => r.head = "ok" /\ r.outcome \in {"reading", "cancelled"}
KeptInv ==
  /\ \A s \in Streams : Held(st[s])
  /\ Honest => \A s \in Streams : Awaited(st[s])
  /\ OwesLittle(consumed, ConnWindow)
  /\ \A s \in Streams : ~st[s].closed => OwesLittle(st[s].recvConsumed, StreamWindow)
  /\ Honest /\ fatal = "none" => recvWin + AllUnread = ConnWindow

\* What is unread of every stream.
Unreads(x) == [s \in Streams |-> x[s].received - x[s].delivered]

\* They are integers, and so is their sum.
LEMMA UnreadsInt ==
  ASSUME NEW x \in [Streams -> StreamType]
  PROVE  Unreads(x) \in [Streams -> Int] /\ Total(Unreads(x)) \in Int
PROOF
<1>1. ASSUME NEW s \in Streams PROVE x[s].received - x[s].delivered \in Int
  <2>1. x[s].received \in Nat /\ x[s].delivered \in Nat
    BY DEF StreamType
  <2> QED
    BY <2>1
<1>2. Unreads(x) \in [Streams -> Int]
  BY <1>1 DEF Unreads
<1> HIDE DEF Unreads
<1>3. Unreads(x) \in Seq(Int) /\ Len(Unreads(x)) \in Nat
  <2>1. Unreads(x) \in Seq(Int)
    BY <1>2, ByStream
  <2> QED
    BY <2>1, LenProperties
<1>4. PICK p \in [0..Len(Unreads(x)) -> Int] : Total(Unreads(x)) = p[Len(Unreads(x))]
  BY <1>3, TotalHas
<1> QED
  BY <1>2, <1>3, <1>4

\* AllUnread is that sum, before and after a step.
LEMMA UnreadTotal == AllUnread = Total(Unreads(st)) /\ AllUnread' = Total(Unreads(st'))
PROOF
BY DEF AllUnread, Unread, Unreads

\* One stream has d bytes more to read, or fewer.
LEMMA UnreadStep ==
  ASSUME StreamInv, StreamInv', NEW s \in Streams, NEW d \in Int,
         st'[s].received - st'[s].delivered = (st[s].received - st[s].delivered) + d,
         \A t \in Streams \ {s} : st'[t] = st[t]
  PROVE  AllUnread' = AllUnread + d /\ AllUnread \in Int
PROOF
<1> DEFINE f == Unreads(st)
           g == Unreads(st')
<1>1. f \in [Streams -> Int] /\ g \in [Streams -> Int] /\ Total(f) \in Int
  BY UnreadsInt DEF StreamInv
<1>2. g[s] = f[s] + d /\ \A t \in Streams \ {s} : g[t] = f[t]
  BY DEF Unreads
<1> HIDE DEF f, g
<1>3. Total(g) = Total(f) + d
  BY <1>1, <1>2, StreamsTotal
<1> QED
  BY <1>1, <1>3, UnreadTotal DEF f, g

\* Less than the threshold is less than half a window, or nothing.
LEMMA BelowThreshold ==
  ASSUME NEW w \in Nat, NEW n \in Nat, n < Threshold(w)
  PROVE  OwesLittle(n, w)
PROOF
<1> DEFINE h == w \div 2
<1>1. h \in Nat /\ 2 * h <= w
  OBVIOUS
<1>2. Threshold(w) = Max({1, h})
  BY DEF Threshold
<1> HIDE DEF h
<1>3. Max({1, h}) \in {1, h}
  <2>1. \E m \in {1, h} : \A y \in {1, h} : m >= y
    BY <1>1
  <2> QED
    BY <2>1 DEF Max
<1>4. n < 1 \/ n < h
  BY <1>2, <1>3
<1> QED
  BY <1>1, <1>4 DEF OwesLittle

\* What is credited to the connection, or to a stream, is paid in time.
LEMMA ConnPaid ==
  ASSUME consumed \in Nat, OwesLittle(consumed, ConnWindow), NEW taken, NEW given \in Nat,
         ConnCredit(taken, given)
  PROVE  OwesLittle(consumed', ConnWindow)
PROOF
<1> DEFINE owed == consumed + given
           h == Threshold(ConnWindow)
<1>1. owed \in Nat /\ ConnWindow \in Nat
  BY Http2Assumption
<1>2. consumed' = IF given > 0 /\ owed >= h THEN 0 ELSE owed
  BY DEF ConnCredit
<1>3. h \in Int
  <2>1. ConnWindow \div 2 \in Int
    BY <1>1
  <2>2. \E m \in {1, ConnWindow \div 2} : \A y \in {1, ConnWindow \div 2} : m >= y
    BY <2>1
  <2>3. Max({1, ConnWindow \div 2}) \in {1, ConnWindow \div 2}
    BY <2>2 DEF Max
  <2> QED
    BY <2>1, <2>3 DEF Threshold
<1>4. CASE given = 0
  BY <1>2, <1>4
<1>5. CASE given > 0 /\ owed >= h
  BY <1>2, <1>5 DEF OwesLittle
<1>6. CASE ~(owed >= h)
  <2>1. owed < Threshold(ConnWindow) /\ consumed' = owed
    BY <1>1, <1>2, <1>3, <1>6
  <2> QED
    BY <1>1, <2>1, BelowThreshold
<1> QED
  BY <1>4, <1>5, <1>6

\* Likewise on a stream.
LEMMA StreamPaid ==
  ASSUME NEW r \in StreamType, ~r.closed, OwesLittle(r.recvConsumed, StreamWindow), NEW n \in Nat
  PROVE  OwesLittle(IF Paid(r, n) THEN 0 ELSE r.recvConsumed + n, StreamWindow)
PROOF
<1> DEFINE owed == r.recvConsumed + n
           h == Threshold(StreamWindow)
<1>1. owed \in Nat /\ r.recvConsumed \in Nat /\ StreamWindow \in Nat
  BY Http2Assumption DEF StreamType
<1>2. Paid(r, n) <=> n > 0 /\ owed >= h
  BY DEF Paid, StreamOwes
<1>3. h \in Int
  <2>1. StreamWindow \div 2 \in Int
    BY <1>1
  <2>2. \E m \in {1, StreamWindow \div 2} : \A y \in {1, StreamWindow \div 2} : m >= y
    BY <2>1
  <2>3. Max({1, StreamWindow \div 2}) \in {1, StreamWindow \div 2}
    BY <2>2 DEF Max
  <2> QED
    BY <2>1, <2>3 DEF Threshold
<1>4. CASE n = 0
  <2>1. ~Paid(r, n) /\ r.recvConsumed + n = r.recvConsumed
    BY <1>1, <1>2, <1>4
  <2> QED
    BY <2>1
<1>5. CASE Paid(r, n)
  BY <1>5 DEF OwesLittle
<1>6. CASE ~(owed >= h)
  <2>1. owed < Threshold(StreamWindow) /\ ~Paid(r, n)
    BY <1>1, <1>2, <1>3, <1>6
  <2> QED
    BY <1>1, <2>1, BelowThreshold
<1> QED
  BY <1>2, <1>4, <1>5, <1>6

\* Steps that move no byte and write no credit.
LEMMA SteadyHeld ==
  ASSUME HInv, KeptInv, \A t \in Streams : Steady(st[t], st'[t]),
         consumed' = consumed, events' = events,
         fatal' = "none" => fatal = "none" /\ recvWin' = recvWin
  PROVE  KeptInv'
PROOF
<1>1. ASSUME NEW t \in Streams
      PROVE  /\ Held(st[t]) /\ Steady(st[t], st'[t])
             /\ st[t].declared # NoLength => st[t].responded
             /\ ~st[t].closed => OwesLittle(st[t].recvConsumed, StreamWindow)
  BY DEF KeptInv, HInv, StreamInv, Good, Reading
<1>2. ASSUME NEW t \in Streams PROVE Held(st'[t])
  <2>1. TooLong(st[t]) => TooLong(st'[t])
    BY <1>1 DEF TooLong, Steady
  <2> QED
    BY <1>1, <2>1 DEF Held, Steady
<1>3. ASSUME NEW t \in Streams, Awaited(st[t]) PROVE Awaited(st'[t])
  BY <1>1, <1>3 DEF Awaited, Steady
<1>4. ASSUME NEW t \in Streams, ~st'[t].closed PROVE OwesLittle(st'[t].recvConsumed, StreamWindow)
  BY <1>1, <1>4 DEF Steady
<1>5. AllUnread' = AllUnread
  <2>1. Unreads(st') = Unreads(st)
    BY <1>1 DEF Unreads, Steady
  <2> QED
    BY <2>1, UnreadTotal
<1> QED
  BY <1>2, <1>3, <1>4, <1>5 DEF KeptInv, Honest

\* pull() takes a chunk: fewer bytes are unread, by as much as is credited.
LEMMA PullChunkHeld ==
  ASSUME HInv, HInv', BufferInv, KeptInv, NEW s \in Streams, PullChunk(s)
  PROVE  KeptInv'
PROOF
<1> DEFINE r == st[s]
           n == Head(r.queue).len
           p == TakeChunk(r)
           q == ReplenishStream(p, n)
<1>1. /\ st \in [Streams -> StreamType] /\ r \in StreamType /\ StreamInv /\ StreamInv' /\ Scalars
      /\ Buffered(r)
  BY DEF HInv, StreamInv, BufferInv
<1>2. /\ st' = [st EXCEPT ![s] = q] /\ r.queue # <<>> /\ ConnCredit(0, n)
      /\ fatal' = fatal /\ events' = events
  BY DEF PullChunk
<1>3. /\ r.queue \in Seq(Chunks) /\ Head(r.queue) \in Chunks
  <2>1. r.queue \in Seq(Chunks)
    BY <1>1 DEF StreamType
  <2> QED
    BY <1>2, <2>1, HeadTailProperties
<1>4. n \in Nat
  BY <1>3 DEF Chunks
<1>5. Bytes(Tail(r.queue)) = Bytes(r.queue) - n /\ Bytes(r.queue) \in Nat
  BY <1>2, <1>3, BytesTail, BytesNat
<1>6. /\ p \in StreamType /\ p.queue = Tail(r.queue) /\ Agree(r, p, {"queue", "delivered", "pull"})
  BY <1>1, <1>2, TakesChunk
<1>7. p.delivered = r.delivered + n
  BY <1>1 DEF TakeChunk, StreamType
<1> HIDE DEF p
<1>8. /\ q \in StreamType /\ Agree(p, q, {"recvWindow", "recvConsumed"})
      /\ q.recvConsumed = IF StreamOwes(p, n) THEN 0 ELSE p.recvConsumed + n
  BY <1>4, <1>6, WindowGrows
<1>9. /\ q.queue = Tail(r.queue) /\ q.closed = r.closed /\ q.delivered = r.delivered + n
      /\ q.received = r.received /\ q.declared = r.declared /\ q.head = r.head
      /\ q.outcome = r.outcome /\ p.closed = r.closed /\ p.recvConsumed = r.recvConsumed
  BY <1>6, <1>7, <1>8 DEF Agree, Fields
<1> HIDE DEF q
<1>10. n > 0
  <2>1. Len(r.queue) \in Nat /\ Len(r.queue) # 0 /\ Head(r.queue) = r.queue[1]
    BY <1>2, <1>3, LenProperties, EmptySeq, HeadTailProperties
  <2>2. r.queue[1].len > 0
    BY <1>1, <2>1 DEF Buffered, Solid
  <2> QED
    BY <2>1, <2>2
<1> HIDE DEF n
<1>11. r.received \in Nat /\ r.delivered \in Nat /\ Held(r)
  BY <1>1 DEF StreamType, KeptInv
<1>12. Held(q) /\ (Awaited(r) => Awaited(q))
  <2>1. Held(q)
    BY <1>4, <1>5, <1>9, <1>11 DEF Held, TooLong
  <2> QED
    BY <1>2, <1>9, <2>1 DEF Awaited
<1>13. st'[s] = q /\ \A t \in Streams \ {s} : st'[t] = st[t]
  BY <1>1, <1>2
<1>14. ~q.closed => OwesLittle(q.recvConsumed, StreamWindow)
  <2> SUFFICES ASSUME ~r.closed PROVE OwesLittle(q.recvConsumed, StreamWindow)
    BY <1>9
  <2>1. OwesLittle(IF Paid(r, n) THEN 0 ELSE r.recvConsumed + n, StreamWindow)
    BY <1>1, <1>4, StreamPaid DEF KeptInv
  <2>2. StreamOwes(p, n) <=> Paid(r, n)
    BY <1>9, <1>10 DEF StreamOwes, Paid
  <2> QED
    BY <1>8, <1>9, <2>1, <2>2
<1>15. OwesLittle(consumed', ConnWindow)
  BY <1>1, <1>2, <1>4, ConnPaid DEF KeptInv, Scalars
<1>16. AllUnread' = AllUnread + (0 - n) /\ AllUnread \in Int
  <2> DEFINE d == 0 - n
  <2>1. d \in Int /\ q.received - q.delivered = (r.received - r.delivered) + d
    BY <1>4, <1>9, <1>11
  <2> HIDE DEF d
  <2>2. AllUnread' = AllUnread + d /\ AllUnread \in Int
    BY <1>1, <1>13, <2>1, UnreadStep
  <2> QED
    BY <2>2 DEF d
<1>17. recvWin' = recvWin + n /\ recvWin \in Int
  BY <1>1, <1>2, <1>4 DEF ConnCredit, Scalars
<1>18. Honest' /\ fatal' = "none" => recvWin' + AllUnread' = ConnWindow
  <2> SUFFICES ASSUME Honest, fatal = "none" PROVE recvWin' + AllUnread' = ConnWindow
    BY <1>2 DEF Honest
  <2>1. recvWin + AllUnread = ConnWindow
    BY DEF KeptInv
  <2> QED
    BY <1>4, <1>16, <1>17, <2>1
<1>19. Honest' => \A t \in Streams : Awaited(st'[t])
  BY <1>2, <1>12, <1>13 DEF KeptInv, Honest
<1> QED
  BY <1>12, <1>13, <1>14, <1>15, <1>18, <1>19 DEF KeptInv

\* DATA: what it takes from the connection's window its stream has to read.
LEMMA DataHeld ==
  ASSUME HInv, HInv', BufferInv, CreditInv, KeptInv, OnData
  PROVE  KeptInv'
PROOF
<1>0. PICK s \in Streams : s = Head(s2c).stream
  <2>1. Head(s2c).stream \in Streams
    BY DataSteps DEF HInv
  <2> QED
    BY <2>1
<1> DEFINE f == Head(s2c)
           flow == f.len + f.pad
           x == st[s]
           q == st'[s]
<1>1. /\ StreamInv /\ StreamInv' /\ Scalars
  BY DEF HInv
<1>2. /\ fatal = "none" /\ s2c # <<>> /\ f \in DataFrames /\ fatal' = fatal /\ events' = events
      /\ \A t \in Streams \ {s} : st'[t] = st[t]
      /\ DataStray(s, flow) \/ DataBlamed(s, flow) \/ DataReceived(s, f)
  BY <1>0, <1>1, DataSteps
<1>3. Honest => (Live(s) => x.responded /\ x.recvWindow >= flow)
  BY <1>0, DataExpected
<1>4. f.len \in Nat /\ f.pad \in Nat /\ flow \in Nat /\ flow = f.len + f.pad
  BY <1>2 DEF DataFrames
<1>5. /\ x \in StreamType /\ q \in StreamType /\ Held(x) /\ x.queue \in Seq(Chunks)
      /\ x.received \in Nat /\ x.delivered \in Nat /\ x.declared \in Int /\ Bytes(x.queue) \in Nat
      /\ ~x.closed => OwesLittle(x.recvConsumed, StreamWindow)
  <2>1. x \in StreamType /\ q \in StreamType
    BY <1>1 DEF StreamInv
  <2>2. /\ x.queue \in Seq(Chunks) /\ x.received \in Nat /\ x.delivered \in Nat
        /\ x.declared \in Int
    BY <2>1 DEF StreamType
  <2> QED
    BY <2>1, <2>2, BytesNat DEF KeptInv
<1> HIDE DEF f, flow
<1>6. ASSUME NEW given \in Nat, ConnCredit(flow, given)
      PROVE  /\ OwesLittle(consumed', ConnWindow)
             /\ recvWin' = recvWin - flow + given /\ recvWin \in Int
  BY <1>1, <1>6, ConnPaid DEF ConnCredit, KeptInv, Scalars
<1>7. CASE DataStray(s, flow)
  <2>1. st' = st /\ OwesLittle(consumed', ConnWindow) /\ recvWin' = recvWin
    BY <1>4, <1>6, <1>7 DEF DataStray
  <2>2. AllUnread' = AllUnread
    BY <2>1, UnreadTotal
  <2> QED
    BY <1>2, <2>1, <2>2 DEF KeptInv, Honest
<1>8. CASE DataBlamed(s, flow)
  <2>1. OwesLittle(consumed', ConnWindow) /\ q.closed /\ q.queue = x.queue /\ ~Honest
    BY <1>3, <1>4, <1>5, <1>6, <1>8 DEF DataBlamed, Blamed, StreamType
  <2>2. Held(q)
    BY <1>5, <1>8 DEF DataBlamed, Blamed, Held, TooLong
  <2> QED
    BY <1>2, <2>1, <2>2 DEF KeptInv, Honest
<1>9. CASE DataReceived(s, f)
  <2>1. /\ OwesLittle(consumed', ConnWindow) /\ recvWin' = recvWin - f.len /\ recvWin \in Int
        /\ Received(x, q, f) /\ ~x.closed /\ x.responded /\ x.opened
    <3>1. ConnCredit(flow, f.pad) /\ Received(x, q, f) /\ ~x.closed /\ x.responded /\ x.opened
      BY <1>4, <1>9 DEF DataReceived, Live
    <3> QED
      BY <1>4, <1>6, <3>1
  <2>2. /\ q.received = x.received + f.len /\ q.declared = x.declared
        /\ q.delivered = x.delivered /\ q.outcome = x.outcome
        /\ x.head = "ok" => q.head = "ok"
        /\ q.queue = x.queue /\ f.len > 0 => TooLong(q)
        /\ TooLong(x) => TooLong(q)
        /\ \/ q.queue = x.queue
           \/ f.len > 0 /\ \E c \in Chunks : c.len = f.len /\ q.queue = Append(x.queue, c)
    BY <1>4, <1>5, <2>1 DEF Received, TooLong
  <2>3. Held(q)
    <3>1. CASE q.queue = x.queue
      BY <1>4, <1>5, <2>2, <3>1 DEF Held
    <3>2. ASSUME NEW c \in Chunks, c.len = f.len, q.queue = Append(x.queue, c) PROVE Held(q)
      <4>1. Bytes(q.queue) = Bytes(x.queue) + f.len
        BY <1>5, <3>2, BytesAppend
      <4> QED
        BY <1>4, <1>5, <2>2, <4>1 DEF Held
    <3> QED
      BY <2>2, <3>1, <3>2
  <2>4. Honest /\ f.len > 0 => x.head = "ok" /\ x.outcome = "reading"
    <3> SUFFICES ASSUME Honest, f.len > 0 PROVE x.head = "ok" /\ x.outcome = "reading"
      OBVIOUS
    <3>1. Waiting(x) /\ Whole(x, srv[s], events) /\ Wire(s2c, s, x.received, srv[s].sent, srv[s].ended)
      BY <1>1, <2>1 DEF StreamInv, Good, OnItsWay, Honest, HonestIn
    <3>2. x.recvEnded => x.received = srv[s].sent
      BY <2>1, <3>1 DEF Waiting, Whole, Honest, HonestIn
    <3>3. x.received + f.len <= srv[s].sent
      <4>1. s2c \in Seq(Frames) /\ s2c # <<>> /\ f.type = "data" /\ f.stream = s
        BY <1>0, <1>1, <1>2 DEF StreamInv, DataFrames, f
      <4>2. Carried(Head(s2c), s) = f.len
        BY <4>1 DEF Carried, f
      <4> QED
        BY <3>1, <4>1, <4>2, WireTail
    <3>4. ~x.recvEnded
      BY <1>4, <1>5, <3>2, <3>3
    <3> QED
      BY <2>1, <3>1, <3>4 DEF Waiting
  <2>5. Honest => Awaited(q)
    BY <2>2, <2>4 DEF KeptInv, Awaited
  <2>6. ~q.closed => OwesLittle(q.recvConsumed, StreamWindow)
    <3>1. OwesLittle(IF Paid(x, f.pad) THEN 0 ELSE x.recvConsumed + f.pad, StreamWindow)
      BY <1>4, <1>5, <2>1, StreamPaid
    <3> QED
      BY <2>1, <3>1 DEF Received
  <2>7. AllUnread' = AllUnread + f.len /\ AllUnread \in Int
    <3>1. f.len \in Int /\ q.received - q.delivered = (x.received - x.delivered) + f.len
      BY <1>4, <1>5, <2>2
    <3> QED
      BY <1>1, <1>2, <3>1, UnreadStep
  <2>8. Honest /\ fatal = "none" => recvWin' + AllUnread' = ConnWindow
    <3> SUFFICES ASSUME Honest PROVE recvWin' + AllUnread' = ConnWindow
      OBVIOUS
    <3>1. recvWin + AllUnread = ConnWindow
      BY <1>2 DEF KeptInv
    <3> QED
      BY <1>4, <2>1, <2>7, <3>1
  <2> HIDE DEF x, q
  <2>9. ASSUME NEW t \in Streams
        PROVE  /\ Held(st'[t])
               /\ ~st'[t].closed => OwesLittle(st'[t].recvConsumed, StreamWindow)
               /\ Honest => Awaited(st'[t])
    BY <1>2, <2>3, <2>5, <2>6 DEF KeptInv, x, q
  <2> QED
    BY <1>2, <2>1, <2>8, <2>9 DEF KeptInv, Honest
<1> QED
  BY <1>2, <1>7, <1>8, <1>9

\* At first nothing was received, and nothing is owed.
LEMMA InitHeld == Init => KeptInv
PROOF
<1> SUFFICES ASSUME Init PROVE KeptInv
  OBVIOUS
<1>1. HInv
  BY InitHolds
<1>2. /\ recvWin = ConnWindow /\ consumed = 0 /\ ConnWindow \in Nat
      /\ \A s \in Streams : st[s] = Unopened
  BY Http2Assumption DEF Init
<1>3. ASSUME NEW s \in Streams
      PROVE  /\ st[s].received = 0 /\ st[s].delivered = 0 /\ st[s].queue = <<>>
             /\ st[s].recvConsumed = 0
  BY <1>2 DEF Unopened
<1>4. Bytes(<<>>) = 0
  <2>1. <<>> \in Seq(Chunks)
    OBVIOUS
  <2> QED
    BY <2>1, BytesNat
<1>5. ASSUME NEW s \in Streams
      PROVE  Held(st[s]) /\ Awaited(st[s]) /\ OwesLittle(st[s].recvConsumed, StreamWindow)
  BY <1>3, <1>4 DEF Held, Awaited, OwesLittle
<1>6. AllUnread = 0
  <2> DEFINE g == Unreads(st)
  <2>1. g \in [Streams -> Int] /\ \A s \in Streams : g[s] = 0
    BY <1>1, <1>3, UnreadsInt DEF HInv, StreamInv, Unreads
  <2> HIDE DEF g
  <2>2. g \in Seq(Int) /\ \A i \in 1..Len(g) : i \in Streams
    BY <2>1, ByStream DEF Streams
  <2>3. Total(g) = 0
    BY <2>1, <2>2, TotalZero
  <2> QED
    BY <2>3, UnreadTotal DEF g
<1> QED
  BY <1>2, <1>5, <1>6 DEF KeptInv, OwesLittle

\* No step breaks it.
LEMMA KeptStep ==
  ASSUME HInv, HInv', BufferInv, CreditInv, KeptInv, [Next]_vars
  PROVE  KeptInv'
PROOF
<1>1. StreamInv /\ StreamInv' /\ Scalars
  BY DEF HInv
<1>2. CASE Quiet
  BY <1>2, SteadyHeld DEF Quiet, SameFlow, CountersKept
<1>3. CASE Died
  BY <1>3, SteadyHeld DEF Died, SameFlow
<1>4. CASE Caller
  BY <1>1, <1>2, <1>3, <1>4, CallerSteps, PullChunkHeld
<1>5. CASE OnFrame
  <2>1. CASE Dispatched
    BY <2>1, SteadyHeld DEF Dispatched, SameFlow, CountersKept
  <2> QED
    BY <1>1, <1>3, <1>5, <2>1, FrameSteps, DataHeld
<1>6. ASSUME UNCHANGED <<st, fatal, recvWin, consumed, events>> PROVE KeptInv'
  <2>1. \A t \in Streams : Steady(st[t], st'[t])
    BY <1>6 DEF Steady
  <2> QED
    BY <1>6, <2>1, SteadyHeld
<1>7. CASE Server
  <2>1. ASSUME NEW f \in Frames, Written(f) PROVE KeptInv'
    BY <1>6, <2>1 DEF Written, CountersKept
  <2>2. ASSUME NEW s \in Streams, SrvData(s) PROVE KeptInv'
    BY <1>6, <2>2, ZenonT(60) DEF SrvData, clientVars
  <2>3. ASSUME NEW s \in Streams, SrvRogueData(s) PROVE KeptInv'
    BY <1>6, <2>3 DEF SrvRogueData, clientVars
  <2> QED
    BY <1>1, <1>2, <1>7, <2>1, <2>2, <2>3, ServerSteps
<1>8. CASE UNCHANGED vars
  BY <1>6, <1>8 DEF vars, clientVars
<1> QED
  BY <1>4, <1>5, <1>7, <1>8 DEF Next

\* What the connection lacks of its window, its bodies have to read.
LEMMA KeptIsConserved ==
  ASSUME HInv, BufferInv, KeptInv
  PROVE  CreditConserved /\ CreditPaid
PROOF
<1>1. ASSUME NEW s \in Streams
      PROVE  /\ Queued(s) = Bytes(st[s].queue) /\ Bytes(st[s].queue) \in Nat
             /\ Held(st[s]) /\ Buffered(st[s])
             /\ st[s].queue = <<>> => Queued(s) = 0
             /\ ~st[s].closed => OwesLittle(st[s].recvConsumed, StreamWindow)
  <2>1. st[s].queue \in Seq(Chunks)
    BY DEF HInv, StreamInv, StreamType
  <2> QED
    BY <2>1, QueuedLoads, BytesNat DEF KeptInv, BufferInv
<1>2. ASSUME NEW s \in LiveStreams PROVE st[s].recvWindow + Queued(s) = StreamWindow
  BY <1>1, <1>2 DEF LiveStreams, Live, Buffered
<1>3. ASSUME NEW s \in Streams PROVE Unread(s) = Queued(s) \/ Overlong(s)
  BY <1>1 DEF Unread, Overlong, Held, TooLong
<1>4. ASSUME Honest, NEW s \in Streams, Queued(s) > 0
      PROVE  st[s].head = "ok" /\ st[s].outcome \in {"reading", "cancelled"}
  BY <1>1, <1>4 DEF KeptInv, Awaited
<1>5. CreditConserved
  BY <1>2, <1>3, <1>4 DEF CreditConserved, KeptInv
<1>6. CreditPaid
  BY <1>1 DEF CreditPaid, KeptInv, LiveStreams, Live
<1> QED
  BY <1>5, <1>6

\* The two ends agree on the credit, so a server that keeps to its own is never
\* accused of overrunning it; none of it is lost, but with a body that was
\* cancelled with bytes in its queue or overran its declared length: the rest of
\* what a window lacks waits for a reader; and what the client owes is paid
\* before it amounts to half a window (_onData, _consumeStream, _replenish).
THEOREM Http2CreditKept == Spec => []CreditKept
PROOF
<1>1. HInv /\ BufferInv /\ CreditInv /\ KeptInv => CreditKept
  <2> SUFFICES ASSUME HInv, BufferInv, CreditInv, KeptInv PROVE CreditKept
    OBVIOUS
  <2>1. HonestServerNotBlamed
    BY DEF CreditInv, HonestServerNotBlamed
  <2>2. CreditAgrees
    BY DEF CreditInv, CreditAgrees, Balanced, LiveStreams, Live
  <2>3. CreditConserved /\ CreditPaid
    BY KeptIsConserved
  <2> QED
    BY <2>1, <2>2, <2>3 DEF CreditKept
<1>2. HInv /\ HInv' /\ BufferInv /\ CreditInv /\ KeptInv /\ [Next]_vars => KeptInv'
  BY KeptStep
<1>3. HInv /\ HInv' /\ BufferInv /\ CreditInv /\ [Next]_vars => CreditInv'
  BY CreditStep
<1>4. HInv /\ HInv' /\ BufferInv /\ [Next]_vars => BufferInv'
  BY BufferKept
<1> QED
  BY <1>1, <1>2, <1>3, <1>4, InitBuffer, InitCredit, InitHeld, Invariant, PTL DEF Spec

-----------------------------------------------------------------------------
(***************************************************************************)
(* The peer's limit on streams.  A stream leaves the map only once the     *)
(* server can count it closed too, as long as the connection lives and no  *)
(* GOAWAY has stopped new streams.                                         *)
(***************************************************************************)
\* What the server knows of a stream is never unlearnt.
PeerGrows(v, w) ==
  /\ w.open => v.open
  /\ v.clientEnded => w.clientEnded
  /\ v.gotRst => w.gotRst
  /\ v.rst => w.rst
  /\ v.ended => w.ended
AllGrow == \A t \in Streams : PeerGrows(srv[t], srv'[t])

\* What the client has done with a stream, the server knows; n is the next one.
Released(s, r, v, n) ==
  /\ r.opened => s < n
  /\ r.closed => r.opened
  /\ r.localEnded => v.clientEnded
  /\ r.rstSent => v.gotRst
  /\ r.closed => v.gotRst \/ v.rst \/ (v.ended /\ v.clientEnded)

MayOpen == fatal = "none" /\ goaway = NoGoaway /\ Honest
PeerInv ==
  /\ \A i \in 1..Len(s2c) : s2c[i].type = "rst" => srv[s2c[i].stream].rst
  /\ MayOpen => \A s \in Streams : Released(s, st[s], srv[s], nextStream)

\* RST_STREAM reaches the server.
LEMMA RstGrows ==
  ASSUME NEW v \in [Streams -> ServerType], NEW s \in Streams
  PROVE  /\ \A t \in Streams : PeerGrows(v[t], PeerGetsRst(v, s)[t])
         /\ PeerGetsRst(v, s)[s].gotRst
PROOF
<1> DEFINE w == PeerGetsRst(v, s)
<1>1. /\ \A t \in Streams \ {s} : w[t] = v[t]
      /\ w[s].gotRst /\ SrvAgree(v[s], w[s], {"gotRst", "late"})
  BY PeerRst
<1> HIDE DEF w
<1>2. \A t \in Streams : PeerGrows(v[t], w[t])
  BY <1>1 DEF PeerGrows, SrvAgree, SrvFields
<1> QED
  BY <1>1, <1>2 DEF w

\* So does a WINDOW_UPDATE.
LEMMA PaidGrows ==
  ASSUME NEW v \in [Streams -> ServerType], NEW s \in Streams, NEW r \in StreamType, NEW n \in Nat
  PROVE  /\ ReplenishPeer(v, s, r, n) \in [Streams -> ServerType]
         /\ \A t \in Streams : PeerGrows(v[t], ReplenishPeer(v, s, r, n)[t])
PROOF
<1> DEFINE w == ReplenishPeer(v, s, r, n)
<1>1. w \in [Streams -> ServerType] /\ \A t \in Streams : SrvAgree(v[t], w[t], {"late", "win"})
  BY PeerPaid
<1> HIDE DEF w
<1>2. \A t \in Streams : PeerGrows(v[t], w[t])
  BY <1>1 DEF PeerGrows, SrvAgree, SrvFields
<1> QED
  BY <1>1, <1>2 DEF w

\* The server's own steps.
LEMMA ServerGrows ==
  ASSUME StreamInv, Server
  PROVE  AllGrow
PROOF
<1>1. srv \in [Streams -> ServerType]
  BY DEF StreamInv
<1>2. ASSUME NEW s \in Streams, SrvProcess(s) PROVE AllGrow
  BY <1>1, <1>2 DEF SrvProcess, AllGrow, PeerGrows, ServerType
<1>3. ASSUME NEW s \in Streams, SrvHeaders(s) PROVE AllGrow
  <2>1. PICK body \in Bodies, end \in BOOLEAN :
          srv' = [srv EXCEPT ![s].headers = TRUE, ![s].left = body, ![s].ended = end]
    BY <1>3, ZenonT(60) DEF SrvHeaders
  <2>2. ~srv[s].ended
    BY <1>3 DEF SrvHeaders, Serves
  <2> QED
    BY <1>1, <2>1, <2>2 DEF AllGrow, PeerGrows, ServerType
<1>4. ASSUME NEW s \in Streams, SrvMalformed(s) PROVE AllGrow
  <2>1. srv' = [srv EXCEPT ![s].headers = TRUE]
    BY <1>4 DEF SrvMalformed
  <2> QED
    BY <1>1, <2>1 DEF AllGrow, PeerGrows, ServerType
<1>5. ASSUME NEW s \in Streams, SrvData(s) PROVE AllGrow
  <2>1. PICK len \in 0..MaxFrame, pad \in 0..1, end \in BOOLEAN :
          srv' = [srv EXCEPT ![s].left = @ - len, ![s].sent = @ + len,
                             ![s].win = @ - len - pad, ![s].ended = end]
    BY <1>5, ZenonT(60) DEF SrvData
  <2>2. ~srv[s].ended
    BY <1>5 DEF SrvData, Serves
  <2> QED
    BY <1>1, <2>1, <2>2 DEF AllGrow, PeerGrows, ServerType
<1>6. ASSUME NEW s \in Streams, SrvTrailers(s) PROVE AllGrow
  <2>1. srv' = [srv EXCEPT ![s].ended = TRUE]
    BY <1>6 DEF SrvTrailers
  <2> QED
    BY <1>1, <2>1 DEF AllGrow, PeerGrows, ServerType
<1>7. ASSUME NEW s \in Streams, SrvRst(s) PROVE AllGrow
  <2>1. srv' = [srv EXCEPT ![s].rst = TRUE]
    BY <1>7 DEF SrvRst
  <2> QED
    BY <1>1, <2>1 DEF AllGrow, PeerGrows, ServerType
<1>8. ASSUME NEW s \in Streams, SrvRogueData(s) PROVE AllGrow
  <2>1. PICK len \in 1..MaxFrame : srv' = [srv EXCEPT ![s].sent = @ + len, ![s].left = 0]
    BY <1>8 DEF SrvRogueData
  <2> QED
    BY <1>1, <2>1 DEF AllGrow, PeerGrows, ServerType
<1>9. ASSUME SrvGoaway \/ SrvSettings \/ SrvEof PROVE AllGrow
  BY <1>9 DEF SrvGoaway, SrvSettings, SrvEof, serverVars, AllGrow, PeerGrows
<1> QED
  BY <1>2, <1>3, <1>4, <1>5, <1>6, <1>7, <1>8, <1>9 DEF Server

\* The oldest frame's DATA, as its handler treats it.
LEMMA DataCases ==
  ASSUME StreamInv, OnData
  PROVE  LET f == Head(s2c)
             s == f.stream
             x == st[s]
             flow == f.len + f.pad
             c == [stream |-> s, from |-> f.from, len |-> f.len]
             r == Charged(x, flow, f.pad, f.len)
             z == [x EXCEPT !.recvWindow = IF x.responded THEN @ - flow ELSE @]
         IN /\ s2c # <<>> /\ s2c' = Tail(s2c)
            /\ s \in Streams /\ flow \in Nat /\ f.pad \in Nat /\ f.len \in Nat /\ f.end \in BOOLEAN
            /\ c \in Chunks
            /\ \/ UNCHANGED <<st, srv>>
               \/ Live(s) /\ ResetStream(s, z, "protocol")
               \/ Live(s) /\ DataHandled(s, f.end, r, Stocked(r, c), ReplenishPeer(srv, s, x, f.pad))
PROOF
<1> DEFINE f == Head(s2c)
<1>1. s2c # <<>> /\ f.type = "data" /\ s2c' = Tail(s2c)
  BY DEF OnData, Receives
<1>2. f \in DataFrames
  BY <1>1, OldestFrame, FrameTypes
<1>3. /\ f.stream \in Streams /\ f.len + f.pad \in Nat /\ f.pad \in Nat /\ f.len \in Nat
      /\ f.end \in BOOLEAN /\ [stream |-> f.stream, from |-> f.from, len |-> f.len] \in Chunks
  BY <1>2 DEF DataFrames, Chunks
<1> QED
  BY <1>1, <1>3 DEF OnData, StrayCredited, Charged, Stocked, DataHandled, TooLong

\* Whatever the client does, but opening a stream.
LEMMA ClientGrows ==
  ASSUME StreamInv, Scalars, Caller \/ OnFrame, ~\E hasBody \in BOOLEAN : Request(hasBody)
  PROVE  AllGrow
PROOF
<1>1. srv \in [Streams -> ServerType] /\ st \in [Streams -> StreamType]
  BY DEF StreamInv
<1>2. ASSUME srv' = srv PROVE AllGrow
  BY <1>2 DEF AllGrow, PeerGrows
<1>3. ASSUME NEW s \in Streams, srv' = srv \/ srv' = PeerGetsRst(srv, s) PROVE AllGrow
  BY <1>1, <1>2, <1>3, RstGrows DEF AllGrow
<1>4. ASSUME NEW s \in Streams, Abort(s) \/ Cancel(s) PROVE AllGrow
  BY <1>3, <1>4 DEF Abort, Cancel, ResetStream
<1>5. ASSUME RequestAborted PROVE AllGrow
  BY <1>3, <1>5, NextIsStream DEF RequestAborted, ResetStream
<1>6. ASSUME NEW s \in Streams, SendLastData(s) PROVE AllGrow
  <2>1. srv' = [srv EXCEPT ![s].clientEnded = TRUE, ![s].late = srv[s].gotRst]
    BY <1>6 DEF SendLastData
  <2> QED
    BY <1>1, <2>1 DEF AllGrow, PeerGrows, ServerType
<1>7. ASSUME NEW s \in Streams, LastDataWritten(s) \/ Read(s) \/ PullOutcome(s) PROVE AllGrow
  BY <1>2, <1>7 DEF LastDataWritten, Read, PullOutcome, serverVars
<1>8. ASSUME NEW s \in Streams, PullChunk(s) PROVE AllGrow
  <2>1. st[s].queue # <<>> /\ srv' = ReplenishPeer(srv, s, st[s], Head(st[s].queue).len)
    BY <1>8 DEF PullChunk
  <2>2. Head(st[s].queue).len \in Nat
    BY <1>1, <2>1, TakesChunk
  <2> QED
    BY <1>1, <2>1, <2>2, PaidGrows DEF AllGrow
<1>9. ASSUME \/ Close \/ OnDataOverrun \/ OnUnknownStream \/ OnRstStream \/ OnGoaway \/ OnSettings \/ OnEof
      PROVE  AllGrow
  BY <1>2, <1>9 DEF Close, OnDataOverrun, OnUnknownStream, OnRstStream, OnGoaway, OnSettings, OnEof,
                    serverVars
<1>10. ASSUME OnResponseHead \/ OnTrailers PROVE AllGrow
  <2>1. Head(s2c).type = "headers" /\ s2c # <<>>
    BY <1>10 DEF OnResponseHead, OnTrailers, Receives
  <2>2. Head(s2c).stream \in Streams
    BY <2>1, OldestFrame, FrameTypes DEF HeaderFrames
  <2>3. srv' = srv \/ srv' = PeerGetsRst(srv, Head(s2c).stream)
    BY <1>10 DEF OnResponseHead, OnTrailers, ResetStream, EndRecv
  <2> QED
    BY <1>3, <2>2, <2>3
<1>11. ASSUME OnData PROVE AllGrow
  <2> DEFINE f == Head(s2c)
             s == f.stream
             paid == ReplenishPeer(srv, s, st[s], f.pad)
  <2>1. s \in Streams /\ f.pad \in Nat
    BY <1>11, DataCases
  <2>2. srv' = srv \/ srv' = PeerGetsRst(srv, s) \/ srv' = paid \/ srv' = PeerGetsRst(paid, s)
    BY <1>11, DataCases DEF ResetStream, DataHandled
  <2>3. paid \in [Streams -> ServerType] /\ \A t \in Streams : PeerGrows(srv[t], paid[t])
    BY <1>1, <2>1, PaidGrows
  <2> HIDE DEF paid, s
  <2>4. \A t \in Streams : PeerGrows(paid[t], PeerGetsRst(paid, s)[t])
    BY <2>1, <2>3, RstGrows
  <2> QED
    BY <1>3, <2>1, <2>2, <2>3, <2>4 DEF AllGrow, PeerGrows
<1> QED
  BY <1>4, <1>5, <1>6, <1>7, <1>8, <1>9, <1>10, <1>11 DEF Caller, OnFrame, Pull

\* What a step changed of a stream says nothing about its end.
Ending == {"opened", "closed", "localEnded", "rstSent"}

\* A stream whose end the step did not touch.
LEMMA SameEnd ==
  ASSUME NEW s, NEW r, NEW q, NEW v, NEW w, NEW n \in Nat, NEW m \in Nat, n <= m,
         Released(s, r, v, n), PeerGrows(v, w), s \in Nat, Agree(r, q, Fields \ Ending)
  PROVE  Released(s, q, w, m)
PROOF
<1>1. q.opened = r.opened /\ q.closed = r.closed /\ q.localEnded = r.localEnded /\ q.rstSent = r.rstSent
  BY DEF Agree, Fields, Ending
<1> QED
  BY <1>1 DEF Released, PeerGrows

\* A stream that fails, once the server knows that it is over.
LEMMA FailReleases ==
  ASSUME NEW s, NEW r \in StreamType, NEW v, NEW n, NEW e \in Failures,
         Released(s, r, v, n), r.opened, v.gotRst \/ v.rst
  PROVE  Released(s, FailStream(r, e), v, n)
PROOF
<1> DEFINE q == FailStream(r, e)
<1>1. Failed(r, q, e)
  BY Fails
<1> HIDE DEF q
<1>2. /\ q.opened = r.opened /\ q.localEnded = r.localEnded /\ q.rstSent = r.rstSent
  BY <1>1 DEF Failed, Agree, Fields
<1> QED
  BY <1>2 DEF Released, q

\* _resetStream tells the server.
LEMMA ResetReleases ==
  ASSUME NEW s \in Streams, NEW r \in StreamType, NEW v \in [Streams -> ServerType], NEW n,
         NEW e \in Failures, Released(s, r, v[s], n), r.opened
  PROVE  Released(s, FailStream([r EXCEPT !.rstSent = TRUE], e),
                  (IF r.rstSent THEN v ELSE PeerGetsRst(v, s))[s], n)
PROOF
<1> DEFINE p == [r EXCEPT !.rstSent = TRUE]
           w == IF r.rstSent THEN v ELSE PeerGetsRst(v, s)
<1>1. /\ p \in StreamType /\ p.rstSent /\ Agree(r, p, {"rstSent"})
  BY DEF StreamType, Agree, Fields
<1>2. PeerGrows(v[s], w[s]) /\ w[s].gotRst
  BY RstGrows DEF Released, PeerGrows
<1> HIDE DEF p, w
<1>3. p.opened = r.opened /\ p.closed = r.closed /\ p.localEnded = r.localEnded
  BY <1>1 DEF Agree, Fields
<1>4. Released(s, p, w[s], n)
  BY <1>1, <1>2, <1>3 DEF Released, PeerGrows
<1>5. Released(s, FailStream(p, e), w[s], n)
  BY <1>1, <1>2, <1>3, <1>4, FailReleases
<1> QED
  BY <1>5 DEF p, w

\* _maybeCloseStream forgets a stream that the server has ended and knows ended.
LEMMA CloseReleases ==
  ASSUME NEW s, NEW r \in StreamType, NEW v, NEW n, NEW ev,
         Released(s, r, v, n), r.opened, r.error = "none", HonestIn(ev),
         Whole(MaybeClose(r), v, ev)
  PROVE  Released(s, MaybeClose(r), v, n)
PROOF
<1> DEFINE q == MaybeClose(r)
<1>1. (q.closed <=> r.closed \/ (r.recvEnded /\ r.localEnded)) /\ Agree(r, q, {"closed", "pull"})
  BY MaybeCloses
<1> HIDE DEF q
<1>2. /\ q.opened = r.opened /\ q.localEnded = r.localEnded /\ q.rstSent = r.rstSent
      /\ q.error = r.error /\ q.recvEnded = r.recvEnded
  BY <1>1 DEF Agree, Fields
<1>3. r.recvEnded => v.ended
  BY <1>2 DEF Whole, q
<1> QED
  BY <1>1, <1>2, <1>3 DEF Released, q

\* The end of the response's half, where both have ended or not.
LEMMA EndReleases ==
  ASSUME NEW s, NEW r \in StreamType, NEW v, NEW n, NEW ev,
         Released(s, r, v, n), r.opened, r.error = "none", HonestIn(ev),
         Whole(MaybeClose(WakePull([r EXCEPT !.recvEnded = TRUE])), v, ev)
  PROVE  Released(s, MaybeClose(WakePull([r EXCEPT !.recvEnded = TRUE])), v, n)
PROOF
<1> DEFINE a == [r EXCEPT !.recvEnded = TRUE]
           b == WakePull(a)
<1>1. a \in StreamType /\ Agree(r, a, {"recvEnded"})
  BY DEF StreamType, Agree, Fields
<1> HIDE DEF a
<1>2. b \in StreamType /\ Agree(a, b, {"pull"})
  BY <1>1, Wakes
<1> HIDE DEF b
<1>3. /\ b.opened = r.opened /\ b.closed = r.closed /\ b.localEnded = r.localEnded
      /\ b.rstSent = r.rstSent /\ b.error = r.error
  BY <1>1, <1>2 DEF Agree, Fields
<1>4. Released(s, b, v, n)
  BY <1>3 DEF Released
<1>5. Whole(MaybeClose(b), v, ev)
  BY DEF a, b
<1> QED
  BY <1>2, <1>3, <1>4, <1>5, CloseReleases DEF a, b

\* A stream changes, and no other.
LEMMA OneReleased ==
  ASSUME StreamInv, nextStream \in Nat, nextStream' \in Nat, nextStream <= nextStream',
         \A t \in Streams : Released(t, st[t], srv[t], nextStream), AllGrow,
         NEW s \in Streams, NEW q, st' = [st EXCEPT ![s] = q], Released(s, q, srv'[s], nextStream')
  PROVE  \A t \in Streams : Released(t, st'[t], srv'[t], nextStream')
PROOF
<1>1. st \in [Streams -> StreamType] /\ Streams \subseteq Nat
  BY Http2Assumption DEF StreamInv, Streams
<1>2. ASSUME NEW t \in Streams PROVE Released(t, st'[t], srv'[t], nextStream')
  <2>1. CASE t = s
    BY <1>1, <2>1
  <2>2. CASE t # s
    <3>1. st'[t] = st[t] /\ Agree(st[t], st[t], Fields \ Ending) /\ PeerGrows(srv[t], srv'[t])
      BY <1>1, <2>2 DEF Agree, AllGrow
    <3> QED
      BY <1>1, <3>1, SameEnd
  <2> QED
    BY <2>1, <2>2
<1> QED
  BY <1>2

\* No stream changes.
LEMMA NoneReleased ==
  ASSUME nextStream \in Nat, nextStream' = nextStream, st' = st,
         \A t \in Streams : Released(t, st[t], srv[t], nextStream), AllGrow
  PROVE  \A t \in Streams : Released(t, st'[t], srv'[t], nextStream')
PROOF
BY DEF Released, AllGrow, PeerGrows

AllReleased == \A s \in Streams : Released(s, st[s], srv[s], nextStream)

\* request() opens a stream that nobody knows yet.
LEMMA RequestReleases ==
  ASSUME HInv, AllReleased, NEW hasBody \in BOOLEAN, Request(hasBody)
  PROVE  /\ AllReleased'
         /\ \A t \in Streams \ {nextStream} : srv'[t] = srv[t]
PROOF
<1> DEFINE s == nextStream
           a == [st[s] EXCEPT !.opened = TRUE]
           q == [st[s] EXCEPT !.opened = TRUE, !.localEnded = ~hasBody]
<1>1. st \in [Streams -> StreamType] /\ srv \in [Streams -> ServerType] /\ Streams \subseteq Nat
  BY Http2Assumption DEF HInv, StreamInv, Streams
<1>2. s \in Streams /\ s \in Nat /\ nextStream' = s + 1
  BY <1>1, NextIsStream DEF HInv, Request
<1>3. st' = [st EXCEPT ![s] = q] /\ srv' = [srv EXCEPT ![s].open = TRUE, ![s].clientEnded = ~hasBody]
  BY DEF Request
<1>4. ~st[s].opened /\ ~st[s].closed
  BY <1>2 DEF AllReleased, Released
<1>5. /\ q.opened /\ ~q.closed /\ q.rstSent = st[s].rstSent /\ (q.localEnded <=> ~hasBody)
  <2>1. a \in StreamType /\ a.opened /\ Agree(st[s], a, {"opened"})
    BY <1>1, <1>2, ZenonT(60) DEF StreamType, Agree, Fields
  <2>2. q = [a EXCEPT !.localEnded = ~hasBody]
    OBVIOUS
  <2> HIDE DEF a, q
  <2>3. Agree(a, q, {"localEnded"}) /\ q.localEnded = ~hasBody
    BY <2>1, <2>2 DEF StreamType, Agree, Fields
  <2> QED
    BY <1>4, <2>1, <2>3 DEF Agree, Fields
<1> HIDE DEF q
<1>6. /\ srv'[s].clientEnded <=> ~hasBody
      /\ srv'[s].gotRst = srv[s].gotRst
      /\ \A t \in Streams \ {s} : srv'[t] = srv[t]
  BY <1>1, <1>2, <1>3 DEF ServerType
<1>7. \A t \in Streams \ {s} : st'[t] = st[t]
  BY <1>1, <1>3
<1>8. st'[s] = q
  BY <1>1, <1>2, <1>3
<1> HIDE DEF s
<1>9. ASSUME NEW t \in Streams PROVE Released(t, st'[t], srv'[t], nextStream')
  <2>1. CASE t = s
    <3>1. st[s].rstSent => srv[s].gotRst
      BY <1>2 DEF AllReleased, Released
    <3> QED
      BY <1>2, <1>5, <1>6, <1>8, <2>1, <3>1 DEF Released
  <2>2. CASE t # s
    <3>1. Released(t, st[t], srv[t], s) /\ t \in Nat
      BY <1>1 DEF AllReleased, s
    <3> QED
      BY <1>2, <1>6, <1>7, <2>2, <3>1 DEF Released
  <2> QED
    BY <2>1, <2>2
<1> QED
  BY <1>6, <1>9 DEF AllReleased, s

\* The other steps of the callers.
LEMMA CallerReleases ==
  ASSUME HInv, HInv', MayOpen, AllReleased, AllGrow, Caller, ~Close,
         ~\E hasBody \in BOOLEAN : Request(hasBody)
  PROVE  AllReleased'
PROOF
<1>1. /\ st \in [Streams -> StreamType] /\ srv \in [Streams -> ServerType]
      /\ nextStream \in Nat /\ StreamInv /\ Scalars
  <2>1. MaxStreams \in Nat
    BY Http2Assumption
  <2>2. StreamInv /\ Scalars
    BY DEF HInv
  <2>3. nextStream \in Nat
    BY <2>1, <2>2 DEF Scalars
  <2> QED
    BY <2>2, <2>3 DEF StreamInv
<1>2. \A t \in Streams : Good(t, st[t], srv[t], srvLast, events) /\ Good(t, st'[t], srv'[t], srvLast', events')
  BY DEF HInv, StreamInv
<1>3. ASSUME NEW s \in Streams, NEW q, st' = [st EXCEPT ![s] = q], nextStream' = nextStream,
             Released(s, q, srv'[s], nextStream)
      PROVE  AllReleased'
  <2>1. nextStream' \in Nat /\ nextStream <= nextStream'
    BY <1>1, <1>3
  <2> QED
    BY <1>1, <1>3, <2>1, OneReleased DEF AllReleased
<1>4. ASSUME NEW s \in Streams, NEW q, st' = [st EXCEPT ![s] = q], nextStream' = nextStream,
             Agree(st[s], q, Fields \ Ending)
      PROVE  AllReleased'
  <2>1. s \in Nat /\ PeerGrows(srv[s], srv'[s]) /\ Released(s, st[s], srv[s], nextStream)
    BY Http2Assumption DEF Streams, AllGrow, AllReleased
  <2>2. nextStream <= nextStream
    BY <1>1
  <2>3. Released(s, q, srv'[s], nextStream)
    BY <1>1, <1>4, <2>1, <2>2, SameEnd
  <2> QED
    BY <1>3, <1>4, <2>3
<1>5. CASE RequestAborted
  <2> DEFINE s == nextStream
             r == [st[s] EXCEPT !.opened = TRUE]
  <2>1. /\ s \in Streams /\ s \in Nat /\ nextStream' = s + 1 /\ "aborted" \in Failures
        /\ st' = [st EXCEPT ![s] = FailStream([r EXCEPT !.rstSent = TRUE], "aborted")]
        /\ srv' = IF r.rstSent THEN srv ELSE PeerGetsRst(srv, s)
    BY <1>1, <1>5, NextIsStream DEF RequestAborted, Failures, ResetStream
  <2>2. r \in StreamType /\ Agree(st[s], r, {"opened"}) /\ r.opened
    BY <1>1, <2>1, ZenonT(60) DEF StreamType, Agree, Fields
  <2> HIDE DEF r
  <2>3. r.closed = st[s].closed /\ r.localEnded = st[s].localEnded /\ r.rstSent = st[s].rstSent
    BY <2>2 DEF Agree, Fields
  <2>4. Released(s, r, srv[s], s + 1)
    BY <2>1, <2>2, <2>3 DEF AllReleased, Released
  <2>5. Released(s, FailStream([r EXCEPT !.rstSent = TRUE], "aborted"), srv'[s], nextStream')
    BY <1>1, <2>1, <2>2, <2>4, ResetReleases
  <2>6. nextStream' \in Nat /\ nextStream <= nextStream'
    BY <2>1
  <2> HIDE DEF s
  <2> QED
    BY <1>1, <2>1, <2>5, <2>6, OneReleased DEF AllReleased
<1>6. ASSUME NEW s \in Streams, Abort(s) PROVE AllReleased'
  <2>1. /\ Live(s) /\ nextStream' = nextStream /\ "aborted" \in Failures
        /\ st' = [st EXCEPT ![s] = FailStream([st[s] EXCEPT !.rstSent = TRUE], "aborted")]
        /\ srv' = IF st[s].rstSent THEN srv ELSE PeerGetsRst(srv, s)
    BY <1>6 DEF Abort, Failures, ResetStream
  <2>2. Released(s, st[s], srv[s], nextStream) /\ st[s].opened /\ st[s] \in StreamType
    BY <1>1, <2>1 DEF AllReleased, Live
  <2>3. Released(s, FailStream([st[s] EXCEPT !.rstSent = TRUE], "aborted"), srv'[s], nextStream)
    BY <1>1, <2>1, <2>2, ResetReleases
  <2> QED
    BY <1>3, <2>1, <2>3
<1>7. ASSUME NEW s \in Streams, SendLastData(s) PROVE AllReleased'
  BY <1>1, <1>7, NoneReleased DEF SendLastData, clientVars, AllReleased
<1>8. ASSUME NEW s \in Streams, LastDataWritten(s) PROVE AllReleased'
  <2> DEFINE p == [st[s] EXCEPT !.localEnded = TRUE]
  <2>1. /\ st' = [st EXCEPT ![s] = MaybeClose(p)] /\ srv' = srv /\ nextStream' = nextStream
        /\ Live(s) /\ srv[s].clientEnded
    BY <1>8 DEF LastDataWritten, serverVars
  <2>2. p \in StreamType /\ Agree(st[s], p, {"localEnded"})
    BY <1>1, ZenonT(60) DEF StreamType, Agree, Fields
  <2>3. MaybeClose(p) = st'[s] /\ events' = events
    BY <1>1, <1>8, <2>1 DEF LastDataWritten
  <2> HIDE DEF p
  <2>4. /\ p.opened = st[s].opened /\ p.closed = st[s].closed /\ p.rstSent = st[s].rstSent
        /\ p.error = st[s].error
    BY <2>2 DEF Agree, Fields
  <2>5. Released(s, p, srv[s], nextStream) /\ p.opened
    BY <2>1, <2>4 DEF AllReleased, Released, Live
  <2>6. p.error = "none"
    BY <1>2, <2>1, <2>4 DEF Good, Waiting, Live
  <2>7. Whole(MaybeClose(p), srv[s], events) /\ HonestIn(events)
    BY <1>2, <2>1, <2>3 DEF Good, MayOpen, Honest, HonestIn
  <2>8. Released(s, MaybeClose(p), srv'[s], nextStream)
    BY <2>1, <2>2, <2>5, <2>6, <2>7, CloseReleases
  <2> QED
    BY <1>3, <2>1, <2>8
<1>9. ASSUME NEW s \in Streams, Read(s) PROVE AllReleased'
  <2>1. Agree(st[s], [st[s] EXCEPT !.pull = "running"], Fields \ Ending)
    BY <1>1 DEF StreamType, Agree, Fields, Ending
  <2> QED
    BY <1>4, <1>9, <2>1 DEF Read
<1>10. ASSUME NEW s \in Streams, PullChunk(s) PROVE AllReleased'
  <2> DEFINE r == st[s]
             p == TakeChunk(r)
             n == Head(r.queue).len
  <2>1. r \in StreamType /\ r.queue # <<>> /\ st' = [st EXCEPT ![s] = ReplenishStream(p, n)]
    BY <1>1, <1>10 DEF PullChunk
  <2>2. n \in Nat /\ p \in StreamType /\ Agree(r, p, {"queue", "delivered", "pull"})
    BY <2>1, TakesChunk
  <2> HIDE DEF p, n
  <2>3. Agree(p, ReplenishStream(p, n), {"recvWindow", "recvConsumed"})
    BY <2>2, Replenishes
  <2>4. Agree(r, ReplenishStream(p, n), Fields \ Ending)
    BY <2>2, <2>3 DEF Agree, Fields, Ending
  <2>5. nextStream' = nextStream
    BY <1>10 DEF PullChunk
  <2> QED
    BY <1>4, <2>1, <2>4, <2>5
<1>11. ASSUME NEW s \in Streams, PullOutcome(s) PROVE AllReleased'
  <2> DEFINE r == st[s]
             q == Drained(r)
  <2>1. st' = [st EXCEPT ![s] = q] /\ nextStream' = nextStream
    BY <1>11 DEF PullOutcome
  <2>2. q = BodyFails(r) \/ q = BodyEnds(r) \/ q = BodyWaits(r)
    BY DEF Drained
  <2> HIDE DEF q
  <2>3. Agree(r, q, Fields \ Ending)
    <3>1. CASE q = BodyFails(r)
      BY <1>1, <3>1 DEF BodyFails, StreamType, Agree, Fields, Ending
    <3>2. CASE q = BodyEnds(r)
      BY <1>1, <3>2 DEF BodyEnds, StreamType, Agree, Fields, Ending
    <3>3. CASE q = BodyWaits(r)
      BY <1>1, <3>3 DEF BodyWaits, StreamType, Agree, Fields, Ending
    <3> QED
      BY <2>2, <3>1, <3>2, <3>3
  <2> QED
    BY <1>4, <2>1, <2>3
<1>12. ASSUME NEW s \in Streams, Cancel(s) PROVE AllReleased'
  <2> DEFINE r == st[s]
             q == [r EXCEPT !.closed = TRUE, !.rstSent = TRUE, !.completed = Settle(@, "partial"),
                            !.outcome = "cancelled", !.pull = "none"]
  <2>1. /\ st' = [st EXCEPT ![s] = q] /\ nextStream' = nextStream /\ r.head = "ok"
        /\ srv' = IF r.rstSent THEN srv ELSE PeerGetsRst(srv, s)
    BY <1>12 DEF Cancel, MayOpen
  <2>2. q.opened = r.opened /\ q.localEnded = r.localEnded
    BY <1>1 DEF StreamType
  <2>3. r.opened
    BY <1>2, <2>1 DEF Good, Reading
  <2>4. srv'[s].gotRst
    BY <1>1, <2>1, RstGrows DEF AllReleased, Released
  <2>5. PeerGrows(srv[s], srv'[s]) /\ Released(s, r, srv[s], nextStream)
    BY DEF AllGrow, AllReleased
  <2> HIDE DEF q, r
  <2>6. Released(s, q, srv'[s], nextStream)
    BY <2>2, <2>3, <2>4, <2>5 DEF Released, PeerGrows
  <2> QED
    BY <1>3, <2>1, <2>6
<1> QED
  BY <1>5, <1>6, <1>7, <1>8, <1>9, <1>10, <1>11, <1>12 DEF Caller, Pull

\* A handler's frame, for a stream of the map.
LEMMA HeadReleases ==
  ASSUME HInv, HInv', MayOpen, AllReleased, AllGrow, OnResponseHead \/ OnTrailers
  PROVE  AllReleased'
PROOF
<1> DEFINE f == Head(s2c)
           s == f.stream
           x == st[s]
           r == [x EXCEPT !.responded = TRUE, !.declared = f.declared, !.exempt = f.exempt]
           h == [r EXCEPT !.head = "ok"]
           c == [r EXCEPT !.head = "ok", !.completed = "whole", !.recvEnded = TRUE]
           e == MaybeClose(WakePull([x EXCEPT !.recvEnded = TRUE]))
<1>1. /\ StreamInv /\ st \in [Streams -> StreamType] /\ srv \in [Streams -> ServerType]
      /\ nextStream \in Nat /\ "malformed" \in Failures /\ events' = events
      /\ nextStream' = nextStream
  <2>1. /\ StreamInv /\ st \in [Streams -> StreamType] /\ srv \in [Streams -> ServerType]
        /\ nextStream \in Nat
    BY DEF HInv, StreamInv, Scalars
  <2>2. "malformed" \in Failures
    BY DEF Failures
  <2>3. events' = events /\ nextStream' = nextStream
    BY DEF OnResponseHead, OnTrailers
  <2> QED
    BY <2>1, <2>2, <2>3
<1>2. s2c # <<>> /\ f.type = "headers" /\ Live(s)
  BY DEF OnResponseHead, OnTrailers, Receives
<1>3. s \in Streams /\ f.declared \in Int /\ f.exempt \in BOOLEAN
  BY <1>1, <1>2, OldestFrame, FrameTypes DEF HeaderFrames
<1>4. /\ x \in StreamType /\ x.opened /\ x.error = "none" /\ Released(s, x, srv[s], nextStream)
      /\ HonestIn(events)
  BY <1>1, <1>2, <1>3 DEF StreamInv, Good, Waiting, Live, AllReleased, MayOpen, Honest, HonestIn
<1>5. Whole(st'[s], srv'[s], events)
  BY <1>1, <1>3 DEF HInv, StreamInv, Good
<1>6. r \in StreamType /\ Agree(x, r, {"responded", "declared", "exempt"})
  BY <1>3, <1>4, HeadDelivered
<1>7. \/ ResetStream(s, x, "malformed")
      \/ ResetStream(s, r, "malformed")
      \/ st' = [st EXCEPT ![s] = h] /\ srv' = srv
      \/ st' = [st EXCEPT ![s] = MaybeClose(c)] /\ srv' = srv
      \/ st' = [st EXCEPT ![s] = e] /\ srv' = srv
  BY DEF OnResponseHead, OnTrailers, EndRecv
<1> HIDE DEF f, r, s, x
<1>8. /\ r.opened = x.opened /\ r.closed = x.closed /\ r.localEnded = x.localEnded
      /\ r.rstSent = x.rstSent /\ r.error = x.error
  BY <1>6 DEF Agree, Fields
<1>9. Released(s, r, srv[s], nextStream)
  BY <1>4, <1>8 DEF Released
<1>10. ASSUME NEW q, st' = [st EXCEPT ![s] = q], Released(s, q, srv'[s], nextStream)
       PROVE  AllReleased'
  <2>1. nextStream' \in Nat /\ nextStream <= nextStream'
    BY <1>1
  <2> QED
    BY <1>1, <1>3, <1>10, <2>1, OneReleased DEF AllReleased
<1>11. ASSUME NEW y \in StreamType, ResetStream(s, y, "malformed"), y.opened,
              Released(s, y, srv[s], nextStream)
       PROVE  AllReleased'
  <2> DEFINE q == FailStream([y EXCEPT !.rstSent = TRUE], "malformed")
  <2>1. st' = [st EXCEPT ![s] = q] /\ srv' = IF y.rstSent THEN srv ELSE PeerGetsRst(srv, s)
    BY <1>11 DEF ResetStream
  <2>2. Released(s, q, srv'[s], nextStream)
    BY <1>1, <1>3, <1>11, <2>1, ResetReleases
  <2> HIDE DEF q
  <2> QED
    BY <1>10, <2>1, <2>2
<1>12. CASE st' = [st EXCEPT ![s] = h] /\ srv' = srv
  <2>1. Agree(r, h, {"head"})
    BY <1>6 DEF StreamType, Agree, Fields
  <2> HIDE DEF h
  <2>2. h.opened = r.opened /\ h.closed = r.closed /\ h.localEnded = r.localEnded /\ h.rstSent = r.rstSent
    BY <2>1 DEF Agree, Fields
  <2>3. Released(s, h, srv'[s], nextStream)
    BY <1>9, <1>12, <2>2 DEF Released
  <2> QED
    BY <1>10, <1>12, <2>3
<1>13. CASE st' = [st EXCEPT ![s] = MaybeClose(c)] /\ srv' = srv
  <2>1. c \in StreamType /\ Agree(r, c, {"head", "completed", "recvEnded"})
    BY <1>6 DEF StreamType, Agree, Fields
  <2> HIDE DEF c
  <2>2. /\ c.opened = r.opened /\ c.closed = r.closed /\ c.localEnded = r.localEnded
        /\ c.rstSent = r.rstSent /\ c.error = r.error
    BY <2>1 DEF Agree, Fields
  <2>3. Released(s, c, srv[s], nextStream) /\ c.opened /\ c.error = "none"
    BY <1>4, <1>8, <1>9, <2>2 DEF Released
  <2>4. Whole(MaybeClose(c), srv[s], events)
    BY <1>1, <1>3, <1>5, <1>13
  <2>5. Released(s, MaybeClose(c), srv'[s], nextStream)
    BY <1>4, <1>13, <2>1, <2>3, <2>4, CloseReleases
  <2> QED
    BY <1>10, <1>13, <2>5
<1>14. CASE st' = [st EXCEPT ![s] = e] /\ srv' = srv
  <2>1. Whole(e, srv[s], events)
    BY <1>1, <1>3, <1>5, <1>14
  <2>2. Released(s, e, srv'[s], nextStream)
    BY <1>4, <1>14, <2>1, EndReleases
  <2> HIDE DEF e
  <2> QED
    BY <1>10, <1>14, <2>2
<1> QED
  BY <1>4, <1>6, <1>7, <1>8, <1>9, <1>11, <1>12, <1>13, <1>14

\* DATA, whichever end it makes.
LEMMA DataReleases ==
  ASSUME HInv, HInv', MayOpen, AllReleased, AllGrow, OnData
  PROVE  AllReleased'
PROOF
<1> DEFINE f == Head(s2c)
           s == f.stream
           x == st[s]
           flow == f.len + f.pad
           c == [stream |-> s, from |-> f.from, len |-> f.len]
           r == Charged(x, flow, f.pad, f.len)
           full == Stocked(r, c)
           paid == ReplenishPeer(srv, s, x, f.pad)
           z == [x EXCEPT !.recvWindow = IF x.responded THEN @ - flow ELSE @]
<1>1. /\ StreamInv /\ st \in [Streams -> StreamType] /\ srv \in [Streams -> ServerType]
      /\ nextStream \in Nat /\ {"malformed", "protocol"} \subseteq Failures /\ events' = events
      /\ nextStream' = nextStream
  <2>1. StreamInv /\ nextStream \in Nat /\ {"malformed", "protocol"} \subseteq Failures
    BY Http2Assumption DEF HInv, Scalars, Failures
  <2>2. events' = events /\ nextStream' = nextStream
    BY DEF OnData
  <2> QED
    BY <2>1, <2>2 DEF StreamInv
<1>2. /\ s \in Streams /\ flow \in Nat /\ f.pad \in Nat /\ f.len \in Nat /\ f.end \in BOOLEAN
      /\ c \in Chunks
  BY <1>1, DataCases
<1>3. \/ UNCHANGED <<st, srv>>
      \/ Live(s) /\ ResetStream(s, z, "protocol")
      \/ Live(s) /\ DataHandled(s, f.end, r, full, paid)
  BY <1>1, DataCases
<1>4. /\ x \in StreamType /\ Released(s, x, srv[s], nextStream) /\ HonestIn(events)
      /\ Live(s) => x.opened /\ x.error = "none"
  BY <1>1, <1>2 DEF StreamInv, Good, Waiting, Live, AllReleased, MayOpen, Honest, HonestIn
<1>5. Whole(st'[s], srv'[s], events)
  BY <1>1, <1>2 DEF HInv, StreamInv, Good
<1>6. paid \in [Streams -> ServerType] /\ PeerGrows(srv[s], paid[s])
  BY <1>1, <1>2, <1>4, PaidGrows
<1>7. r \in StreamType /\ Agree(x, r, {"recvWindow", "recvConsumed", "received"})
  BY <1>2, <1>4, Charges
<1>8. z \in StreamType /\ Agree(x, z, {"recvWindow"})
  <2>1. (IF x.responded THEN x.recvWindow - flow ELSE x.recvWindow) \in Int
    BY <1>2, <1>4 DEF StreamType
  <2> HIDE DEF flow
  <2> QED
    BY <1>4, <2>1 DEF StreamType, Agree, Fields
<1> HIDE DEF r, z
<1>9. full \in StreamType /\ Agree(r, full, {"queue", "pull"})
  BY <1>2, <1>7, Stocks
<1> HIDE DEF full, paid, x, c, flow, s, f
<1>10. ASSUME NEW y \in {r, full, z}
       PROVE  /\ y \in StreamType /\ y.opened = x.opened /\ y.error = x.error
              /\ Released(s, y, srv[s], nextStream) /\ Released(s, y, paid[s], nextStream)
  <2>1. y \in StreamType /\ Agree(x, y, Fields \ (Ending \union {"error"}))
    BY <1>7, <1>8, <1>9 DEF Agree, Fields, Ending
  <2>2. /\ y.opened = x.opened /\ y.closed = x.closed /\ y.localEnded = x.localEnded
        /\ y.rstSent = x.rstSent /\ y.error = x.error
    BY <2>1 DEF Agree, Fields, Ending
  <2> QED
    BY <1>4, <1>6, <2>1, <2>2 DEF Released, PeerGrows
<1>11. ASSUME NEW q, st' = [st EXCEPT ![s] = q], Released(s, q, srv'[s], nextStream)
       PROVE  AllReleased'
  <2>1. nextStream' \in Nat /\ nextStream <= nextStream'
    BY <1>1
  <2> QED
    BY <1>1, <1>2, <1>11, <2>1, OneReleased DEF AllReleased
<1>12. CASE UNCHANGED <<st, srv>>
  BY <1>1, <1>12, NoneReleased DEF AllReleased
<1>13. CASE Live(s) /\ ResetStream(s, z, "protocol")
  <2> DEFINE q == FailStream([z EXCEPT !.rstSent = TRUE], "protocol")
  <2>1. st' = [st EXCEPT ![s] = q] /\ srv' = IF z.rstSent THEN srv ELSE PeerGetsRst(srv, s)
    BY <1>13 DEF ResetStream
  <2>2. Released(s, q, srv'[s], nextStream)
    BY <1>1, <1>2, <1>4, <1>10, <1>13, <2>1, ResetReleases
  <2> HIDE DEF q
  <2> QED
    BY <1>11, <2>1, <2>2
<1>14. CASE Live(s) /\ DataHandled(s, f.end, r, full, paid)
  <2>1. CASE TooLong(r) \/ (f.end /\ ~LengthAgrees(full))
    <3> DEFINE y == IF TooLong(r) THEN r ELSE full
               q == FailStream([y EXCEPT !.rstSent = TRUE], "malformed")
    <3>1. st' = [st EXCEPT ![s] = q] /\ srv' = IF y.rstSent THEN paid ELSE PeerGetsRst(paid, s)
      <4>1. full.rstSent = r.rstSent
        BY <1>9 DEF Agree, Fields
      <4> QED
        BY <1>14, <2>1, <4>1 DEF DataHandled
    <3>2. y \in {r, full}
      OBVIOUS
    <3> HIDE DEF y
    <3>3. Released(s, q, srv'[s], nextStream)
      BY <1>1, <1>2, <1>4, <1>6, <1>10, <1>14, <3>1, <3>2, ResetReleases
    <3> HIDE DEF q
    <3> QED
      BY <1>11, <3>1, <3>3
  <2>2. CASE ~(TooLong(r) \/ (f.end /\ ~LengthAgrees(full))) /\ f.end
    <3> DEFINE q == MaybeClose(WakePull([full EXCEPT !.recvEnded = TRUE]))
    <3>1. st' = [st EXCEPT ![s] = q] /\ srv' = paid
      BY <1>14, <2>2 DEF DataHandled
    <3>2. Whole(q, paid[s], events)
      BY <1>1, <1>2, <1>5, <3>1
    <3>3. Released(s, q, srv'[s], nextStream)
      BY <1>4, <1>10, <1>14, <3>1, <3>2, EndReleases
    <3> HIDE DEF q
    <3> QED
      BY <1>11, <3>1, <3>3
  <2>3. CASE ~(TooLong(r) \/ (f.end /\ ~LengthAgrees(full))) /\ ~f.end
    BY <1>10, <1>11, <1>14, <2>3 DEF DataHandled
  <2> QED
    BY <2>1, <2>2, <2>3
<1> QED
  BY <1>3, <1>12, <1>13, <1>14

\* The other frames leave the map as it is, or take from it what the server
\* has reset.
LEMMA FrameReleases ==
  ASSUME HInv, HInv', PeerInv, MayOpen, MayOpen', AllGrow, OnFrame
  PROVE  AllReleased'
PROOF
<1>0. AllReleased
  BY DEF PeerInv, AllReleased
<1>1. StreamInv /\ nextStream \in Nat /\ {"retryable", "peerReset"} \subseteq Failures
  BY Http2Assumption DEF HInv, Scalars, Failures
<1>2. CASE OnResponseHead \/ OnTrailers
  BY <1>0, <1>2, HeadReleases
<1>3. CASE OnData
  BY <1>0, <1>3, DataReleases
<1>4. CASE OnUnknownStream \/ OnSettings
  BY <1>0, <1>1, <1>4, NoneReleased DEF OnUnknownStream, OnSettings, clientVars, AllReleased
<1>5. CASE OnRstStream
  <2> DEFINE f == Head(s2c)
             s == f.stream
  <2>1. /\ s2c # <<>> /\ f.type = "rst" /\ Live(s) /\ srv' = srv /\ nextStream' = nextStream
    BY <1>5 DEF OnRstStream, Receives, serverVars
  <2>2. PICK e \in {"retryable", "peerReset"} : st' = [st EXCEPT ![s] = FailStream(st[s], e)]
    BY <1>5 DEF OnRstStream
  <2>3. s \in Streams
    BY <1>1, <2>1, OldestFrame, FrameTypes DEF RstFrames
  <2>4. srv[s].rst
    <3>1. s2c \in Seq(Frames) /\ Len(s2c) \in Nat /\ Len(s2c) # 0
      BY <1>1, <2>1, LenProperties, EmptySeq DEF StreamInv
    <3>2. 1 \in 1..Len(s2c) /\ f = s2c[1]
      BY <3>1
    <3> QED
      BY <2>1, <3>2 DEF PeerInv
  <2>5. st[s] \in StreamType /\ st[s].opened /\ Released(s, st[s], srv[s], nextStream)
    BY <1>0, <1>1, <2>1, <2>3 DEF StreamInv, Live, AllReleased
  <2>6. Released(s, FailStream(st[s], e), srv'[s], nextStream')
    BY <1>1, <2>1, <2>4, <2>5, FailReleases
  <2>7. nextStream' \in Nat /\ nextStream <= nextStream'
    BY <1>1, <2>1
  <2> HIDE DEF s
  <2> QED
    BY <1>0, <1>1, <2>2, <2>3, <2>6, <2>7, OneReleased DEF AllReleased
<1>6. CASE OnGoaway
  <2>1. s2c # <<>> /\ Head(s2c).type = "goaway" /\ goaway' = Head(s2c).last
    BY <1>6 DEF OnGoaway, Receives
  <2>2. Head(s2c).last \in 0..MaxStreams
    BY <1>1, <2>1, OldestFrame, FrameTypes DEF GoawayFrames
  <2>3. goaway' # NoGoaway
    BY <2>1, <2>2, Http2Assumption DEF NoGoaway
  <2> QED
    BY <2>3 DEF MayOpen
<1>7. CASE OnDataOverrun \/ OnEof
  BY <1>7 DEF OnDataOverrun, OnEof, Shutdown, MayOpen
<1> QED
  BY <1>2, <1>3, <1>4, <1>5, <1>6, <1>7 DEF OnFrame

\* The server's steps change nothing of the client.
LEMMA ServerIsQuiet ==
  ASSUME Server
  PROVE  UNCHANGED <<clientVars, events>>
PROOF
<1>1. ASSUME NEW s \in Streams, SrvHeaders(s) PROVE UNCHANGED <<clientVars, events>>
  BY <1>1, ZenonT(60) DEF SrvHeaders
<1>2. ASSUME NEW s \in Streams, SrvData(s) PROVE UNCHANGED <<clientVars, events>>
  BY <1>2, ZenonT(60) DEF SrvData
<1>3. ASSUME NEW s \in Streams, SrvRogueData(s) \/ SrvRst(s)
      PROVE  UNCHANGED <<clientVars, events>>
  BY <1>3 DEF SrvRogueData, SrvRst
<1>4. ASSUME NEW s \in Streams, SrvProcess(s) \/ SrvMalformed(s) \/ SrvTrailers(s)
      PROVE  UNCHANGED <<clientVars, events>>
  BY <1>4 DEF SrvProcess, SrvMalformed, SrvTrailers
<1>5. ASSUME SrvGoaway \/ SrvSettings \/ SrvEof PROVE UNCHANGED <<clientVars, events>>
  BY <1>5 DEF SrvGoaway, SrvSettings, SrvEof
<1> QED
  BY <1>1, <1>2, <1>3, <1>4, <1>5 DEF Server

\* A connection that may open no stream never will again.
LEMMA OpensNoMore ==
  ASSUME HInv, [Next]_vars, MayOpen'
  PROVE  MayOpen
PROOF
<1>1. ASSUME Caller PROVE MayOpen
  <2>1. UNCHANGED <<fatal, goaway, events>> \/ Close
    BY <1>1 DEF Caller, Request, RequestAborted, Abort, SendLastData, LastDataWritten, Read, Pull,
                PullChunk, PullOutcome, Cancel, clientVars
  <2> QED
    BY <2>1 DEF Close, Shutdown, MayOpen, Honest
<1>2. ASSUME OnFrame PROVE MayOpen
  <2>1. CASE OnGoaway
    <3>1. s2c # <<>> /\ Head(s2c).type = "goaway" /\ goaway' = Head(s2c).last
      BY <2>1 DEF OnGoaway, Receives
    <3>2. Head(s2c).last \in 0..MaxStreams
      BY <3>1, OldestFrame, FrameTypes DEF GoawayFrames, HInv
    <3>3. goaway' # NoGoaway
      BY <3>1, <3>2, Http2Assumption DEF NoGoaway
    <3> QED
      BY <3>3 DEF MayOpen
  <2>2. CASE OnData
    BY <2>2 DEF OnData, MayOpen, Honest
  <2>3. CASE ~OnGoaway /\ ~OnData
    BY <1>2, <2>3 DEF OnFrame, OnResponseHead, OnTrailers, OnDataOverrun, OnUnknownStream,
                      OnRstStream, OnSettings, OnEof, Shutdown, clientVars, MayOpen, Honest
  <2> QED
    BY <2>1, <2>2, <2>3
<1>3. ASSUME Server PROVE MayOpen
  BY <1>3, ServerIsQuiet DEF clientVars, MayOpen, Honest
<1>4. ASSUME UNCHANGED vars PROVE MayOpen
  BY <1>4 DEF vars, clientVars, MayOpen, Honest
<1> QED
  BY <1>1, <1>2, <1>3, <1>4 DEF Next

\* A reset on the wire is one the server has made.
LEMMA ResetsTold ==
  ASSUME HInv, HInv', PeerInv, [Next]_vars, \A t \in Streams : srv[t].rst => srv'[t].rst
  PROVE  \A i \in 1..Len(s2c') : s2c'[i].type = "rst" => srv'[s2c'[i].stream].rst
PROOF
<1>1. s2c \in Seq(Frames) /\ s2c' \in Seq(Frames) /\ srv \in [Streams -> ServerType]
  BY DEF HInv, StreamInv
<1>2. \A i \in 1..Len(s2c) : s2c[i].type = "rst" => s2c[i].stream \in Streams /\ srv'[s2c[i].stream].rst
  <2> SUFFICES ASSUME NEW i \in 1..Len(s2c), s2c[i].type = "rst"
               PROVE  s2c[i].stream \in Streams /\ srv'[s2c[i].stream].rst
    OBVIOUS
  <2>1. s2c[i] \in Frames
    BY <1>1, ElementOfSeq
  <2>2. s2c[i].stream \in Streams
    BY <2>1, FrameTypes DEF RstFrames
  <2> QED
    BY <2>2 DEF PeerInv
<1>3. ASSUME s2c' = s2c PROVE \A i \in 1..Len(s2c') : s2c'[i].type = "rst" => srv'[s2c'[i].stream].rst
  BY <1>2, <1>3
<1>4. ASSUME s2c # <<>>, s2c' = Tail(s2c)
      PROVE  \A i \in 1..Len(s2c') : s2c'[i].type = "rst" => srv'[s2c'[i].stream].rst
  BY <1>1, <1>2, <1>4, FramesLeft
<1>5. ASSUME s2c' = <<>>
      PROVE  \A i \in 1..Len(s2c') : s2c'[i].type = "rst" => srv'[s2c'[i].stream].rst
  BY <1>5
<1>6. ASSUME NEW f \in Frames, s2c' = Append(s2c, f), f.type = "rst" => srv'[f.stream].rst
      PROVE  \A i \in 1..Len(s2c') : s2c'[i].type = "rst" => srv'[s2c'[i].stream].rst
  BY <1>1, <1>2, <1>6, FramesMore
<1>7. CASE Caller
  <2>1. s2c' = s2c \/ s2c' = <<>>
    BY <1>7 DEF Caller, Request, RequestAborted, Abort, SendLastData, LastDataWritten, Read, Pull,
                PullChunk, PullOutcome, Cancel, Close, Shutdown
  <2> QED
    BY <1>3, <1>5, <2>1
<1>8. CASE OnFrame
  <2>1. (s2c # <<>> /\ s2c' = Tail(s2c)) \/ s2c' = <<>>
    <3>1. CASE OnData
      BY <3>1, DataCases DEF HInv
    <3>2. CASE ~OnData
      BY <1>8, <3>2 DEF OnFrame, OnResponseHead, OnTrailers, OnDataOverrun, OnUnknownStream,
                        OnRstStream, OnGoaway, OnSettings, OnEof, Shutdown, Receives
    <3> QED
      BY <3>1, <3>2
  <2> QED
    BY <1>4, <1>5, <2>1
<1>9. CASE Server
  <2>1. ASSUME NEW s \in Streams, SrvRst(s)
        PROVE  \E f \in Frames : s2c' = Append(s2c, f) /\ (f.type = "rst" => srv'[f.stream].rst)
    <3>1. PICK refused \in BOOLEAN :
            /\ Write([type |-> "rst", stream |-> s, refused |-> refused])
            /\ srv' = [srv EXCEPT ![s].rst = TRUE]
      BY <2>1 DEF SrvRst
    <3> DEFINE f == [type |-> "rst", stream |-> s, refused |-> refused]
    <3>2. f \in Frames /\ f.stream = s /\ s2c' = Append(s2c, f)
      BY <3>1 DEF Frames, RstFrames, Write
    <3>3. srv'[s].rst
      BY <1>1, <3>1 DEF ServerType
    <3> HIDE DEF f
    <3> QED
      BY <3>2, <3>3
  <2>2. ASSUME NEW s \in Streams, SrvProcess(s) PROVE s2c' = s2c
    BY <2>2 DEF SrvProcess
  <2>3. ASSUME NEW s \in Streams, NEW declared \in Int, NEW exempt \in BOOLEAN, NEW end \in BOOLEAN,
               NEW malformed \in BOOLEAN, Write(HeadersFrame(s, declared, exempt, end, malformed))
        PROVE  \E f \in Frames : s2c' = Append(s2c, f) /\ f.type # "rst"
    <3> DEFINE f == HeadersFrame(s, declared, exempt, end, malformed)
    <3>1. f \in Frames /\ f.type # "rst" /\ s2c' = Append(s2c, f)
      BY <2>3 DEF HeadersFrame, Frames, HeaderFrames, Write
    <3> HIDE DEF f
    <3> QED
      BY <3>1
  <2>4. ASSUME NEW s \in Streams, SrvHeaders(s) \/ SrvMalformed(s) \/ SrvTrailers(s)
        PROVE  \E f \in Frames : s2c' = Append(s2c, f) /\ f.type # "rst"
    <3>1. PICK declared \in Int, exempt \in BOOLEAN, end \in BOOLEAN, malformed \in BOOLEAN :
            Write(HeadersFrame(s, declared, exempt, end, malformed))
      <4>1. NoLength \in Int /\ Bodies \subseteq Int
        BY Http2Assumption DEF NoLength
      <4> QED
        BY <2>4, <4>1 DEF SrvHeaders, SrvMalformed, SrvTrailers
    <3> QED
      BY <2>3, <3>1
  <2>5. ASSUME NEW s \in Streams, SrvData(s) \/ SrvRogueData(s)
        PROVE  \E f \in Frames : s2c' = Append(s2c, f) /\ f.type # "rst"
    <3>1. PICK len \in Nat, pad \in Nat, end \in BOOLEAN : Write(DataFrame(s, len, pad, end))
      <4>1. MaxFrame \in Nat
        BY Http2Assumption
      <4>2. CASE SrvData(s)
        <5>1. PICK len \in 0..MaxFrame, pad \in 0..1, end \in BOOLEAN : Write(DataFrame(s, len, pad, end))
          BY <4>2 DEF SrvData
        <5> QED
          BY <4>1, <5>1
      <4>3. CASE SrvRogueData(s)
        <5>1. PICK len \in 1..MaxFrame, end \in BOOLEAN : Write(DataFrame(s, len, 0, end))
          BY <4>3 DEF SrvRogueData
        <5> QED
          BY <4>1, <5>1
      <4> QED
        BY <2>5, <4>2, <4>3
    <3> DEFINE f == DataFrame(s, len, pad, end)
    <3>2. srv[s].sent \in Nat
      BY <1>1 DEF ServerType
    <3>3. f \in Frames /\ f.type # "rst" /\ s2c' = Append(s2c, f)
      BY <3>1, <3>2 DEF DataFrame, Frames, DataFrames, Write
    <3> HIDE DEF f
    <3> QED
      BY <3>3
  <2>6. ASSUME SrvGoaway \/ SrvSettings \/ SrvEof
        PROVE  \E f \in Frames : s2c' = Append(s2c, f) /\ f.type # "rst"
    <3>1. ASSUME SrvGoaway PROVE \E f \in GoawayFrames : Write(f) /\ f.type # "rst"
      BY <3>1 DEF SrvGoaway, GoawayFrames
    <3>2. ASSUME SrvSettings PROVE \E f \in SettingsFrames : Write(f) /\ f.type # "rst"
      BY <3>2 DEF SrvSettings, SettingsFrames
    <3>3. ASSUME SrvEof PROVE \E f \in EofFrames : Write(f) /\ f.type # "rst"
      BY <3>3 DEF SrvEof, EofFrames
    <3>4. GoawayFrames \subseteq Frames /\ SettingsFrames \subseteq Frames /\ EofFrames \subseteq Frames
      BY DEF Frames
    <3> QED
      BY <2>6, <3>1, <3>2, <3>3, <3>4 DEF Write
  <2> QED
    BY <1>3, <1>6, <1>9, <2>1, <2>2, <2>4, <2>5, <2>6 DEF Server
<1>10. CASE UNCHANGED vars
  BY <1>3, <1>10 DEF vars
<1> QED
  BY <1>7, <1>8, <1>9, <1>10 DEF Next

\* No step breaks the invariant.
LEMMA PeerStep ==
  ASSUME HInv, HInv', PeerInv, [Next]_vars
  PROVE  PeerInv'
PROOF
<1>1. StreamInv /\ Scalars
  BY DEF HInv
<1>2. CASE \E hasBody \in BOOLEAN : Request(hasBody)
  <2>1. PICK hasBody \in BOOLEAN : Request(hasBody)
    BY <1>2
  <2>3. AllReleased => AllReleased'
    BY <2>1, RequestReleases
  <2>4. \A t \in Streams : srv[t].rst => srv'[t].rst
    <3>1. srv' = [srv EXCEPT ![nextStream].open = TRUE, ![nextStream].clientEnded = ~hasBody]
      BY <2>1 DEF Request
    <3>2. srv \in [Streams -> ServerType]
      BY <1>1 DEF StreamInv
    <3> QED
      BY <3>1, <3>2 DEF ServerType
  <2> QED
    BY <2>3, <2>4, OpensNoMore, ResetsTold DEF PeerInv, AllReleased
<1>3. CASE ~\E hasBody \in BOOLEAN : Request(hasBody)
  <2>1. AllGrow
    <3>1. CASE UNCHANGED vars
      BY <3>1 DEF vars, serverVars, AllGrow, PeerGrows
    <3> QED
      BY <1>1, <1>3, <3>1, ClientGrows, ServerGrows DEF Next
  <2>2. \A t \in Streams : srv[t].rst => srv'[t].rst
    BY <2>1 DEF AllGrow, PeerGrows
  <2>3. ASSUME MayOpen' PROVE AllReleased'
    <3>1. MayOpen /\ AllReleased
      BY <2>3, OpensNoMore DEF PeerInv, AllReleased
    <3>2. CASE Caller
      <4>1. ~Close
        BY <2>3 DEF Close, Shutdown, MayOpen
      <4> QED
        BY <1>3, <2>1, <3>1, <3>2, <4>1, CallerReleases
    <3>3. CASE OnFrame
      BY <2>1, <2>3, <3>1, <3>3, FrameReleases
    <3>4. CASE Server \/ UNCHANGED vars
      <4>1. st' = st /\ nextStream' = nextStream
        BY <3>4, ServerIsQuiet DEF vars, clientVars
      <4>2. nextStream \in Nat
        BY <1>1, Http2Assumption DEF Scalars
      <4> QED
        BY <2>1, <3>1, <4>1, <4>2, NoneReleased DEF AllReleased
    <3> QED
      BY <3>2, <3>3, <3>4 DEF Next
  <2> QED
    BY <2>2, <2>3, ResetsTold DEF PeerInv, AllReleased
<1> QED
  BY <1>2, <1>3

\* A set with one element more.
LEMMA OneMore ==
  ASSUME NEW A \in SUBSET Streams, NEW B \in SUBSET Streams, NEW x, A \subseteq B \union {x}
  PROVE  Cardinality(A) <= Cardinality(B) + 1 /\ Cardinality(B) \in Nat
PROOF
<1>1. IsFiniteSet(Streams)
  BY Http2Assumption, FS_Interval DEF Streams
<1>2. IsFiniteSet(B) /\ Cardinality(B) \in Nat
  BY <1>1, FS_Subset, FS_CardinalityType
<1>3. IsFiniteSet(B \union {x}) /\ Cardinality(B \union {x}) <= Cardinality(B) + 1
  <2>1. /\ IsFiniteSet(B \union {x})
        /\ Cardinality(B \union {x}) = IF x \in B THEN Cardinality(B) ELSE Cardinality(B) + 1
    BY <1>2, FS_AddElement, Zenon
  <2> QED
    BY <1>2, <2>1
<1>4. Cardinality(A) <= Cardinality(B \union {x}) /\ Cardinality(A) \in Nat
  BY <1>3, FS_Subset, FS_CardinalityType
<1>5. Cardinality(B \union {x}) \in Nat
  BY <1>3, FS_CardinalityType
<1> QED
  BY <1>2, <1>3, <1>4, <1>5

\* When the client opens a stream, the server has no more open than its limit.
LEMMA LimitKept ==
  ASSUME HInv, PeerInv, Honest, NEW hasBody \in BOOLEAN, Request(hasBody)
  PROVE  Cardinality(ServerOpen') <= peerMax
PROOF
<1>1. MayOpen /\ Cardinality(LiveStreams) < peerMax /\ peerMax \in Nat
  BY Http2Assumption DEF Request, MayRequest, MayOpen, HInv, Scalars
<1>2. AllReleased
  BY <1>1 DEF PeerInv, AllReleased
<1>3. \A t \in Streams \ {nextStream} : srv'[t] = srv[t]
  BY <1>2, RequestReleases
<1>4. ASSUME NEW t \in ServerOpen', t # nextStream PROVE t \in LiveStreams
  <2>1. /\ t \in Streams /\ srv[t].open /\ ~srv[t].gotRst /\ ~srv[t].rst
        /\ ~(srv[t].ended /\ srv[t].clientEnded)
    BY <1>3, <1>4 DEF ServerOpen
  <2>2. st[t].opened /\ Released(t, st[t], srv[t], nextStream)
    BY <1>2, <2>1 DEF AllReleased, HInv, StreamInv, Good, Begun
  <2> QED
    BY <2>1, <2>2 DEF Released, LiveStreams, Live
<1>5. Cardinality(ServerOpen') <= Cardinality(LiveStreams) + 1 /\ Cardinality(LiveStreams) \in Nat
  <2> DEFINE A == ServerOpen'
             B == LiveStreams
  <2>1. A \in SUBSET Streams /\ B \in SUBSET Streams
    BY DEF ServerOpen, LiveStreams
  <2>2. A \subseteq B \union {nextStream}
    BY <1>4
  <2> HIDE DEF A, B
  <2>3. Cardinality(A) <= Cardinality(B) + 1 /\ Cardinality(B) \in Nat
    BY <2>1, <2>2, OneMore
  <2> QED
    BY <2>3 DEF A, B
<1>6. Cardinality(ServerOpen') \in Int
  <2> DEFINE A == ServerOpen'
  <2>1. A \in SUBSET Streams
    BY DEF ServerOpen
  <2>2. IsFiniteSet(Streams)
    BY Http2Assumption, FS_Interval DEF Streams
  <2> HIDE DEF A
  <2>3. Cardinality(A) \in Nat
    BY <2>1, <2>2, FS_Subset, FS_CardinalityType
  <2> QED
    BY <2>3 DEF A
<1> QED
  BY <1>1, <1>5, <1>6

\* When a stream is opened the server has no more streams open than the limit
\* the client has seen: one leaves the map only once the server can count it
\* closed too, by a reset of either side or by the end of both halves
\* (request, _maybeCloseStream, _sendRst).
THEOREM Http2WithinPeerLimit == Spec /\ Honest => WithinPeerLimit
PROOF
<1>1. Init => PeerInv
  <2> SUFFICES ASSUME Init PROVE PeerInv
    OBVIOUS
  <2>1. Len(s2c) = 0
    BY DEF Init
  <2>2. \A s \in Streams : Released(s, Unopened, Unseen, nextStream)
    BY DEF Released, Unopened, Unseen
  <2> QED
    BY <2>1, <2>2 DEF Init, PeerInv
<1>2. HInv /\ HInv' /\ PeerInv /\ [Next]_vars => PeerInv'
  BY PeerStep
<1>3. Honest /\ [Next]_vars => Honest'
  BY EventsKept DEF Honest
<1>4. HInv /\ HInv' /\ PeerInv /\ Honest /\ [Next]_vars =>
        [(\E s \in Streams : srv'[s].open /\ ~srv[s].open) => Cardinality(ServerOpen') <= peerMax]_vars
  <2> SUFFICES ASSUME HInv, PeerInv, Honest, [Next]_vars,
                      NEW s \in Streams, srv'[s].open, ~srv[s].open
               PROVE  Cardinality(ServerOpen') <= peerMax
    OBVIOUS
  <2>1. ~AllGrow /\ ~UNCHANGED vars
    BY DEF AllGrow, PeerGrows, vars, serverVars
  <2>2. \E hasBody \in BOOLEAN : Request(hasBody)
    BY <2>1, ClientGrows, ServerGrows DEF Next, HInv
  <2> QED
    BY <2>2, LimitKept
<1> QED
  BY <1>1, <1>2, <1>3, <1>4, Invariant, PTL DEF Spec, WithinPeerLimit
=============================================================================
