------------------------ MODULE ConnectionPool_proofs ------------------------
(***************************************************************************)
(* Proofs about ConnectionPool, for every set of keys and connections and  *)
(* every pair of limits.                                                   *)
(***************************************************************************)
EXTENDS ConnectionPool, FiniteSetTheorems, SequenceTheorems, TLAPS

Distinct(s) == \A i, j \in DOMAIN s : s[i] = s[j] => i = j
Isolated(lists) == \A k \in Keys : \A i \in DOMAIN lists[k] : KeyOf[lists[k][i]] = k

(***************************************************************************)
(* What the three list operations of take() and release() do to the set of *)
(* listed connections.                                                     *)
(***************************************************************************)

\* Appending (release) adds the connection and keeps the list free of duplicates.
LEMMA AppendFacts ==
  ASSUME NEW S, NEW s \in Seq(S), NEW c \in S
  PROVE  /\ Append(s, c) \in Seq(S)
         /\ Len(Append(s, c)) = Len(s) + 1
         /\ Range(Append(s, c)) = Range(s) \union {c}
         /\ Distinct(s) /\ c \notin Range(s) => Distinct(Append(s, c))
PROOF
<1>1. /\ Append(s, c) \in Seq(S)
      /\ Len(Append(s, c)) = Len(s) + 1
      /\ DOMAIN Append(s, c) = 1..(Len(s) + 1)
      /\ \A i \in 1..Len(s) : Append(s, c)[i] = s[i]
      /\ Append(s, c)[Len(s) + 1] = c
      /\ DOMAIN s = 1..Len(s)
      /\ Len(s) \in Nat
  OBVIOUS
<1>2. Range(Append(s, c)) = Range(s) \union {c}
  BY <1>1 DEF Range
<1>3. ASSUME Distinct(s), c \notin Range(s)
      PROVE  Distinct(Append(s, c))
  BY <1>1, <1>3 DEF Distinct, Range
<1> QED
  BY <1>1, <1>2, <1>3

\* Dropping the last entry (take) removes exactly that connection.
LEMMA FrontFacts ==
  ASSUME NEW S, NEW s \in Seq(S), s # <<>>
  PROVE  /\ Front(s) \in Seq(S)
         /\ Len(Front(s)) = Len(s) - 1
         /\ Last(s) \in Range(s)
         /\ Last(s) \in S
         /\ Distinct(s) => /\ Distinct(Front(s))
                           /\ Range(Front(s)) = Range(s) \ {Last(s)}
PROOF
<1>1. Len(s) \in Nat \ {0} /\ DOMAIN s = 1..Len(s)
  BY EmptySeq
<1>2. /\ Front(s) \in Seq(S)
      /\ Len(Front(s)) = Len(s) - 1
      /\ DOMAIN Front(s) = 1..(Len(s) - 1)
      /\ \A i \in 1..(Len(s) - 1) : Front(s)[i] = s[i]
  BY <1>1 DEF Front
<1>3. Last(s) \in Range(s) /\ Last(s) \in S
  BY <1>1 DEF Last, Range
<1>4. ASSUME Distinct(s)
      PROVE  Distinct(Front(s)) /\ Range(Front(s)) = Range(s) \ {Last(s)}
  <2>1. Distinct(Front(s))
    BY <1>1, <1>2, <1>4 DEF Distinct
  <2>2. \A i \in 1..Len(s) : s[i] # Last(s) <=> i \in 1..(Len(s) - 1)
    BY <1>1, <1>4 DEF Distinct, Last
  <2>3. Range(Front(s)) = Range(s) \ {Last(s)}
    BY <1>1, <1>2, <2>2 DEF Range
  <2> QED
    BY <2>1, <2>3
<1> QED
  BY <1>2, <1>3, <1>4

\* Dropping the first entry (the eviction of release) removes exactly that one.
LEMMA TailFacts ==
  ASSUME NEW S, NEW s \in Seq(S), s # <<>>
  PROVE  /\ Tail(s) \in Seq(S)
         /\ Len(Tail(s)) = Len(s) - 1
         /\ Head(s) \in Range(s)
         /\ Head(s) \in S
         /\ Distinct(s) => /\ Distinct(Tail(s))
                           /\ Range(Tail(s)) = Range(s) \ {Head(s)}
PROOF
<1>1. Len(s) \in Nat \ {0} /\ DOMAIN s = 1..Len(s)
  BY EmptySeq
<1>2. /\ Tail(s) \in Seq(S)
      /\ Len(Tail(s)) = Len(s) - 1
      /\ DOMAIN Tail(s) = 1..(Len(s) - 1)
      /\ \A i \in 1..(Len(s) - 1) : Tail(s)[i] = s[i + 1]
      /\ Head(s) = s[1]
  BY <1>1
<1>3. Head(s) \in Range(s) /\ Head(s) \in S
  BY <1>1, <1>2 DEF Range
<1>4. ASSUME Distinct(s)
      PROVE  Distinct(Tail(s)) /\ Range(Tail(s)) = Range(s) \ {Head(s)}
  <2>1. Distinct(Tail(s))
    BY <1>1, <1>2, <1>4 DEF Distinct
  <2>2. \A x : x \in Range(Tail(s)) => x \in Range(s) \ {Head(s)}
    BY <1>1, <1>2, <1>4 DEF Range, Distinct
  <2>3. ASSUME NEW x \in Range(s) \ {Head(s)}
        PROVE  x \in Range(Tail(s))
    <3>1. PICK i \in 1..Len(s) : x = s[i]
      BY <1>1 DEF Range
    <3>2. i # 1 /\ i - 1 \in 1..(Len(s) - 1) /\ (i - 1) + 1 = i
      BY <1>1, <1>2, <3>1
    <3> QED
      BY <1>2, <3>1, <3>2 DEF Range
  <2> QED
    BY <2>1, <2>2, <2>3
<1> QED
  BY <1>2, <1>3, <1>4

\* Replacing one key's list replaces exactly that list's connections, because
\* no connection is listed under two keys.
LEMMA ListedUpdate ==
  ASSUME NEW lists \in [Keys -> Seq(Conns)], Isolated(lists),
         NEW k \in Keys, NEW s \in Seq(Conns)
  PROVE  Listed([lists EXCEPT ![k] = s]) = (Listed(lists) \ Range(lists[k])) \union Range(s)
PROOF
<1> DEFINE new == [lists EXCEPT ![k] = s]
<1>1. new[k] = s /\ \A l \in Keys \ {k} : new[l] = lists[l]
  OBVIOUS
<1>2. \A l \in Keys \ {k} : Range(lists[l]) \cap Range(lists[k]) = {}
  BY DEF Isolated, Range
<1> DEFINE others == UNION {Range(lists[l]) : l \in Keys \ {k}}
<1>3. Listed(new) = others \union Range(s)
  BY <1>1 DEF Listed
<1>4. Listed(lists) \ Range(lists[k]) = others
  BY <1>2 DEF Listed
<1> QED
  BY <1>3, <1>4

\* A list replaced by one that is free of duplicates and of its key's
\* connections only keeps every list so.
LEMMA ReplaceList ==
  ASSUME NEW lists \in [Keys -> Seq(Conns)], Isolated(lists),
         \A l \in Keys : Distinct(lists[l]),
         NEW k \in Keys, NEW s \in Seq(Conns), Distinct(s),
         \A c \in Range(s) : KeyOf[c] = k
  PROVE  LET new == [lists EXCEPT ![k] = s] IN
         /\ new \in [Keys -> Seq(Conns)]
         /\ \A l \in Keys : Distinct(new[l])
         /\ Isolated(new)
         /\ Listed(new) = (Listed(lists) \ Range(lists[k])) \union Range(s)
PROOF
<1> DEFINE new == [lists EXCEPT ![k] = s]
<1>1. new \in [Keys -> Seq(Conns)] /\ new[k] = s /\ \A l \in Keys \ {k} : new[l] = lists[l]
  OBVIOUS
<1>2. \A l \in Keys : Distinct(new[l])
  BY <1>1
<1>3. Isolated(new)
  BY <1>1 DEF Isolated, Range
<1>4. Listed(new) = (Listed(lists) \ Range(lists[k])) \union Range(s)
  BY ListedUpdate
<1> QED
  BY <1>1, <1>2, <1>3, <1>4

-----------------------------------------------------------------------------
(***************************************************************************)
(* The inductive invariant.  The parts the runs check lean on each other:  *)
(* that a take removes one connection needs NoDuplicate, that it removes   *)
(* it from no other list needs KeyIsolation, and that the counter follows  *)
(* needs the set of idle connections to be finite.                         *)
(***************************************************************************)
PoolInv ==
  /\ TypeOK
  /\ Exclusive
  /\ NoDuplicate
  /\ KeyIsolation
  /\ TotalIsIdle
  /\ WithinLimits
  /\ ClosedKeepsNothing
  /\ IsFiniteSet(IdleConns)

\* An entry of key k's list is one of the idle connections, opened for k.
LEMMA ListedFacts ==
  ASSUME TypeOK, KeyIsolation, NEW k \in Keys
  PROVE  /\ Range(idle[k]) \subseteq IdleConns
         /\ \A c \in Range(idle[k]) : KeyOf[c] = k
BY DEF TypeOK, KeyIsolation, IdleConns, Listed, Range

\* The pool starts empty.
LEMMA PoolInvInit == Init => PoolInv
PROOF
<1> SUFFICES ASSUME Init PROVE PoolInv
  OBVIOUS
<1> USE DEF Init, PoolInit
<1>1. IdleConns = {}
  BY DEF IdleConns, Listed, Range
<1>2. Cardinality(IdleConns) = 0 /\ IsFiniteSet(IdleConns)
  BY <1>1, FS_EmptySet
<1>3. TypeOK
  <2>1. <<>> \in Seq(Conns)
    OBVIOUS
  <2> QED
    BY <2>1 DEF TypeOK
<1>4. Exclusive /\ TotalIsIdle /\ ClosedKeepsNothing
  BY <1>1, <1>2 DEF Exclusive, TotalIsIdle, ClosedKeepsNothing
<1>5. NoDuplicate /\ KeyIsolation /\ WithinLimits
  BY PoolAssumption DEF NoDuplicate, KeyIsolation, WithinLimits
<1> QED
  BY <1>2, <1>3, <1>4, <1>5 DEF PoolInv

\* A step that leaves the lists, the counter and the closed flag alone keeps
\* the invariant as soon as it keeps the three owners of a connection apart.
LEMMA ListsUnchanged ==
  ASSUME PoolInv, UNCHANGED <<idle, total, poolClosed>>,
         held' \subseteq Conns, discarded' \subseteq Conns, Exclusive'
  PROVE  PoolInv'
PROOF
<1>1. IdleConns' = IdleConns
  BY DEF IdleConns, Listed
<1> QED
  BY <1>1 DEF PoolInv, TypeOK, NoDuplicate, KeyIsolation, TotalIsIdle, WithinLimits, ClosedKeepsNothing

\* take(): the entry popped goes to the caller and to nobody else.
LEMMA TakeHitStep ==
  ASSUME PoolInv, NEW k \in Keys, NEW c \in Conns,
         TakeHit(k, c), held' = held \union {c}
  PROVE  PoolInv'
PROOF
<1> DEFINE s == Front(idle[k])
<1>1. /\ idle \in [Keys -> Seq(Conns)] /\ idle[k] \in Seq(Conns) /\ idle[k] # <<>>
      /\ Isolated(idle) /\ \A l \in Keys : Distinct(idle[l])
      /\ c = Last(idle[k])
  BY DEF PoolInv, TypeOK, NoDuplicate, KeyIsolation, Isolated, Distinct, TakeHit
<1>2. /\ s \in Seq(Conns) /\ Len(s) = Len(idle[k]) - 1
      /\ c \in Range(idle[k]) /\ Distinct(s) /\ Range(s) = Range(idle[k]) \ {c}
  BY <1>1, FrontFacts
<1>3. c \in IdleConns /\ Range(idle[k]) \subseteq IdleConns /\ \A x \in Range(s) : KeyOf[x] = k
  BY <1>2, ListedFacts DEF PoolInv
<1>4. idle' = [idle EXCEPT ![k] = s]
  BY DEF TakeHit
<1>5. /\ idle' \in [Keys -> Seq(Conns)]
      /\ \A l \in Keys : Distinct(idle'[l])
      /\ Isolated(idle')
      /\ Listed(idle') = (Listed(idle) \ Range(idle[k])) \union Range(s)
  <2> HIDE DEF s
  <2>1. /\ [idle EXCEPT ![k] = s] \in [Keys -> Seq(Conns)]
        /\ \A l \in Keys : Distinct([idle EXCEPT ![k] = s][l])
        /\ Isolated([idle EXCEPT ![k] = s])
        /\ Listed([idle EXCEPT ![k] = s]) = (Listed(idle) \ Range(idle[k])) \union Range(s)
    BY <1>1, <1>2, <1>3, ReplaceList
  <2> QED BY <2>1, <1>4
<1>6. IdleConns' = IdleConns \ {c}
  BY <1>2, <1>3, <1>5 DEF IdleConns
<1>7. /\ IsFiniteSet(IdleConns') /\ Cardinality(IdleConns') = Cardinality(IdleConns) - 1
      /\ Cardinality(IdleConns') \in Nat
  BY <1>3, <1>6, FS_RemoveElement, FS_CardinalityType DEF PoolInv
<1>8. TypeOK' /\ TotalIsIdle'
  BY <1>5, <1>7 DEF PoolInv, TypeOK, TotalIsIdle, TakeHit
<1>9. Exclusive' /\ ClosedKeepsNothing'
  BY <1>3, <1>6 DEF PoolInv, Exclusive, ClosedKeepsNothing, TakeHit
<1>10. NoDuplicate' /\ KeyIsolation'
  BY <1>5 DEF NoDuplicate, KeyIsolation, Distinct, Isolated
<1>11. WithinLimits'
  <2>1. \A l \in Keys : Len(idle'[l]) <= MaxPerKey
    BY <1>1, <1>2, <1>4, PoolAssumption DEF PoolInv, WithinLimits
  <2>2. total' <= MaxTotal
    BY PoolAssumption DEF PoolInv, WithinLimits, TypeOK, TakeHit
  <2> QED BY <2>1, <2>2 DEF WithinLimits
<1> QED
  BY <1>7, <1>8, <1>9, <1>10, <1>11 DEF PoolInv

\* release() with room: the connection moves from its caller to the end of its
\* key's list, and the two limits still hold.
LEMMA ReleaseKeepStep ==
  ASSUME PoolInv, NEW c \in held, ~poolClosed,
         ReleaseKeep(KeyOf[c], c), held' = held \ {c}
  PROVE  PoolInv'
PROOF
<1> DEFINE k == KeyOf[c]
           s == Append(idle[k], c)
<1>1. /\ c \in Conns /\ k \in Keys
      /\ idle \in [Keys -> Seq(Conns)] /\ idle[k] \in Seq(Conns)
      /\ Isolated(idle) /\ \A l \in Keys : Distinct(idle[l])
      /\ c \notin IdleConns
  BY PoolAssumption DEF PoolInv, TypeOK, Exclusive, NoDuplicate, KeyIsolation, Isolated, Distinct
<1>2. Range(idle[k]) \subseteq IdleConns /\ \A x \in Range(idle[k]) : KeyOf[x] = k
  BY <1>1, ListedFacts DEF PoolInv
<1>3. /\ s \in Seq(Conns) /\ Len(s) = Len(idle[k]) + 1
      /\ Range(s) = Range(idle[k]) \union {c} /\ Distinct(s)
  BY <1>1, <1>2, AppendFacts
<1>4. idle' = [idle EXCEPT ![k] = s] /\ total' = total + 1
  BY DEF ReleaseKeep
<1>5. /\ idle' \in [Keys -> Seq(Conns)]
      /\ \A l \in Keys : Distinct(idle'[l])
      /\ Isolated(idle')
      /\ Listed(idle') = (Listed(idle) \ Range(idle[k])) \union Range(s)
  <2>1. \A x \in Range(s) : KeyOf[x] = k
    BY <1>2, <1>3
  <2> HIDE DEF s, k
  <2>2. /\ [idle EXCEPT ![k] = s] \in [Keys -> Seq(Conns)]
        /\ \A l \in Keys : Distinct([idle EXCEPT ![k] = s][l])
        /\ Isolated([idle EXCEPT ![k] = s])
        /\ Listed([idle EXCEPT ![k] = s]) = (Listed(idle) \ Range(idle[k])) \union Range(s)
    BY <1>1, <1>3, <2>1, ReplaceList
  <2> QED BY <2>2, <1>4
<1>6. IdleConns' = IdleConns \union {c}
  BY <1>2, <1>3, <1>5 DEF IdleConns
<1>7. /\ IsFiniteSet(IdleConns') /\ Cardinality(IdleConns') = Cardinality(IdleConns) + 1
      /\ Cardinality(IdleConns) \in Nat
  BY <1>1, <1>6, FS_AddElement, FS_CardinalityType DEF PoolInv
<1>8. TypeOK' /\ TotalIsIdle'
  BY <1>5, <1>7 DEF PoolInv, TypeOK, TotalIsIdle, ReleaseKeep
<1>9. Exclusive' /\ ClosedKeepsNothing'
  BY <1>6 DEF PoolInv, Exclusive, ClosedKeepsNothing, ReleaseKeep
<1>10. NoDuplicate' /\ KeyIsolation'
  BY <1>5 DEF NoDuplicate, KeyIsolation, Distinct, Isolated
<1>11. WithinLimits'
  <2>1. Len(idle[k]) < MaxPerKey /\ total < MaxTotal
    BY <1>1, PoolAssumption DEF PoolInv, TypeOK, ReleaseKeep, AtCapacity
  <2>2. \A l \in Keys : Len(idle'[l]) <= MaxPerKey
    <3>1. Len(s) <= MaxPerKey
      BY <1>1, <1>3, <2>1, PoolAssumption
    <3>2. idle'[k] = s /\ \A l \in Keys \ {k} : idle'[l] = idle[l]
      BY <1>1, <1>4
    <3> QED BY <3>1, <3>2 DEF PoolInv, WithinLimits
  <2>3. total' <= MaxTotal
    BY <1>4, <2>1, PoolAssumption DEF PoolInv, TypeOK
  <2> QED BY <2>2, <2>3 DEF WithinLimits
<1> QED
  BY <1>7, <1>8, <1>9, <1>10, <1>11 DEF PoolInv

\* release() at a limit: the oldest entry of the key is closed, the newest one
\* takes its place, and the number of idle connections does not change.
LEMMA ReleaseEvictStep ==
  ASSUME PoolInv, NEW c \in held, ~poolClosed,
         ReleaseEvict(KeyOf[c], c), held' = held \ {c}
  PROVE  PoolInv'
PROOF
<1> DEFINE k == KeyOf[c]
           victim == Head(idle[k])
           t == Tail(idle[k])
           s == Append(t, c)
<1>1. /\ c \in Conns /\ k \in Keys
      /\ idle \in [Keys -> Seq(Conns)] /\ idle[k] \in Seq(Conns) /\ idle[k] # <<>>
      /\ Isolated(idle) /\ \A l \in Keys : Distinct(idle[l])
      /\ c \notin IdleConns
  BY PoolAssumption
  DEF PoolInv, TypeOK, Exclusive, NoDuplicate, KeyIsolation, Isolated, Distinct, ReleaseEvict
<1>2. Range(idle[k]) \subseteq IdleConns /\ \A x \in Range(idle[k]) : KeyOf[x] = k
  BY <1>1, ListedFacts DEF PoolInv
<1>3. /\ t \in Seq(Conns) /\ Len(t) = Len(idle[k]) - 1
      /\ victim \in Range(idle[k]) /\ victim \in Conns
      /\ Distinct(t) /\ Range(t) = Range(idle[k]) \ {victim}
  BY <1>1, TailFacts
<1>4. /\ s \in Seq(Conns) /\ Len(s) = Len(idle[k])
      /\ Range(s) = (Range(idle[k]) \ {victim}) \union {c} /\ Distinct(s)
  <2>1. c \notin Range(t)
    BY <1>1, <1>2, <1>3
  <2>2. Len(idle[k]) \in Nat
    BY <1>1
  <2> HIDE DEF t, victim
  <2> QED BY <1>1, <1>3, <2>1, <2>2, AppendFacts
<1>5. /\ idle' = [idle EXCEPT ![k] = s] /\ discarded' = discarded \union {victim}
      /\ UNCHANGED <<total, poolClosed>>
  BY DEF ReleaseEvict
<1>6. /\ idle' \in [Keys -> Seq(Conns)]
      /\ \A l \in Keys : Distinct(idle'[l])
      /\ Isolated(idle')
      /\ Listed(idle') = (Listed(idle) \ Range(idle[k])) \union Range(s)
  <2>1. \A x \in Range(s) : KeyOf[x] = k
    BY <1>2, <1>4
  <2> HIDE DEF s, k
  <2>2. /\ [idle EXCEPT ![k] = s] \in [Keys -> Seq(Conns)]
        /\ \A l \in Keys : Distinct([idle EXCEPT ![k] = s][l])
        /\ Isolated([idle EXCEPT ![k] = s])
        /\ Listed([idle EXCEPT ![k] = s]) = (Listed(idle) \ Range(idle[k])) \union Range(s)
    BY <1>1, <1>4, <2>1, ReplaceList
  <2> QED BY <2>2, <1>5
<1> HIDE DEF s, t, victim, k
<1>7. IdleConns' = (IdleConns \ {victim}) \union {c} /\ victim \in IdleConns
  BY <1>2, <1>3, <1>4, <1>6 DEF IdleConns
<1>8. IsFiniteSet(IdleConns') /\ Cardinality(IdleConns') = Cardinality(IdleConns)
  <2>1. /\ IsFiniteSet(IdleConns \ {victim})
        /\ Cardinality(IdleConns \ {victim}) = Cardinality(IdleConns) - 1
        /\ Cardinality(IdleConns) \in Nat
    BY <1>7, FS_RemoveElement, FS_CardinalityType DEF PoolInv
  <2>2. /\ IsFiniteSet((IdleConns \ {victim}) \union {c})
        /\ Cardinality((IdleConns \ {victim}) \union {c}) = Cardinality(IdleConns \ {victim}) + 1
    BY <1>1, <2>1, FS_AddElement
  <2> QED BY <1>7, <2>1, <2>2
<1>9. TypeOK' /\ TotalIsIdle'
  BY <1>3, <1>5, <1>6, <1>8 DEF PoolInv, TypeOK, TotalIsIdle
<1>10. Exclusive' /\ ClosedKeepsNothing'
  BY <1>1, <1>5, <1>7 DEF PoolInv, Exclusive, ClosedKeepsNothing
<1>11. NoDuplicate' /\ KeyIsolation'
  BY <1>6 DEF NoDuplicate, KeyIsolation, Distinct, Isolated
<1>12. WithinLimits'
  <2>1. idle'[k] = s /\ \A l \in Keys \ {k} : idle'[l] = idle[l]
    BY <1>1, <1>5
  <2> QED BY <1>1, <1>4, <1>5, <2>1 DEF PoolInv, WithinLimits
<1> QED
  BY <1>8, <1>9, <1>10, <1>11, <1>12 DEF PoolInv

\* closeAll(): everything idle is closed and the lists are emptied.
LEMMA CloseAllStep ==
  ASSUME PoolInv, CloseAll
  PROVE  PoolInv'
PROOF
<1> USE DEF CloseAll, CloseAllConns
<1>1. IdleConns' = {}
  BY DEF IdleConns, Listed, Range
<1>2. Cardinality(IdleConns') = 0 /\ IsFiniteSet(IdleConns')
  BY <1>1, FS_EmptySet
<1>3. IdleConns \subseteq Conns
  BY DEF PoolInv, TypeOK, IdleConns, Listed, Range
<1>4. TypeOK'
  <2>1. <<>> \in Seq(Conns)
    OBVIOUS
  <2> QED BY <1>3, <2>1 DEF PoolInv, TypeOK
<1>5. Exclusive' /\ TotalIsIdle' /\ ClosedKeepsNothing'
  BY <1>1, <1>2 DEF PoolInv, Exclusive, TotalIsIdle, ClosedKeepsNothing
<1>6. NoDuplicate' /\ KeyIsolation' /\ WithinLimits'
  BY PoolAssumption DEF NoDuplicate, KeyIsolation, WithinLimits
<1> QED
  BY <1>2, <1>4, <1>5, <1>6 DEF PoolInv

\* Every operation keeps the invariant.
LEMMA PoolInvNext == PoolInv /\ [Next]_vars => PoolInv'
PROOF
<1> SUFFICES ASSUME PoolInv, [Next]_vars PROVE PoolInv'
  OBVIOUS
<1>1. ASSUME NEW c \in Conns, Open(c) PROVE PoolInv'
  <2>1. Exclusive'
    BY <1>1 DEF Open, PoolInv, Exclusive, poolVars, IdleConns, Listed
  <2> QED
    BY <1>1, <2>1, ListsUnchanged DEF Open, PoolInv, TypeOK, poolVars
<1>2. ASSUME NEW c \in held, DiscardConn(c), held' = held \ {c} PROVE PoolInv'
  <2>1. Exclusive'
    BY <1>2 DEF DiscardConn, PoolInv, Exclusive, IdleConns, Listed
  <2> QED
    BY <1>2, <2>1, ListsUnchanged DEF DiscardConn, PoolInv, TypeOK
<1>3. ASSUME NEW c \in Conns, NEW eligible \in BOOLEAN, Release(c, eligible) PROVE PoolInv'
  <2>1. c \in held /\ held' = held \ {c}
    BY <1>3 DEF Release
  <2>2. CASE DiscardConn(c)
    BY <1>2, <2>1, <2>2
  <2>3. CASE ~poolClosed /\ ReleaseKeep(KeyOf[c], c)
    BY <2>1, <2>3, ReleaseKeepStep
  <2>4. CASE ~poolClosed /\ ReleaseEvict(KeyOf[c], c)
    BY <2>1, <2>4, ReleaseEvictStep
  <2> QED
    BY <1>3, <2>2, <2>3, <2>4 DEF Release, ReleaseConn, ReleaseRefuse
<1>4. ASSUME NEW k \in Keys, Take(k) PROVE PoolInv'
  <2>1. CASE \E c \in Conns : TakeHit(k, c) /\ held' = held \union {c}
    BY <2>1, TakeHitStep
  <2>2. CASE TakeMiss(k) /\ UNCHANGED held
    <3>1. Exclusive'
      BY <2>2 DEF TakeMiss, PoolInv, Exclusive, poolVars, IdleConns, Listed
    <3> QED
      BY <2>2, <3>1, ListsUnchanged DEF TakeMiss, PoolInv, TypeOK, poolVars
  <2> QED
    BY <1>4, <2>1, <2>2 DEF Take
<1>5. CASE CloseAll
  BY <1>5, CloseAllStep
<1>6. CASE UNCHANGED vars
  <2>1. Exclusive'
    BY <1>6 DEF vars, PoolInv, Exclusive, IdleConns, Listed
  <2> QED
    BY <1>6, <2>1, ListsUnchanged DEF vars, PoolInv, TypeOK
<1>7. ASSUME NEW c \in Conns, Discard(c) PROVE PoolInv'
  BY <1>2, <1>7 DEF Discard
<1> QED
  BY <1>1, <1>3, <1>4, <1>5, <1>6, <1>7 DEF Next

-----------------------------------------------------------------------------
(***************************************************************************)
(* What the pool's callers rely on.                                        *)
(***************************************************************************)
\* The connections the pool or a caller has or had.
Known == IdleConns \union held \union discarded

\* A hit of take() is an idle connection of its key.
LEMMA TakeHitFacts ==
  ASSUME PoolInv, NEW k \in Keys, NEW c, TakeHit(k, c)
  PROVE  c \in Conns /\ c \in IdleConns /\ KeyOf[c] = k
PROOF
<1>1. idle[k] \in Seq(Conns) /\ idle[k] # <<>> /\ c = Last(idle[k])
  BY DEF PoolInv, TypeOK, TakeHit
<1>2. c \in Range(idle[k]) /\ c \in Conns
  BY <1>1, FrontFacts
<1> QED
  BY <1>2, ListedFacts DEF PoolInv

\* Only openConnection() makes a connection known, and what has been discarded stays so.
LEMMA NothingNew ==
  ASSUME PoolInv, Next, \A c \in Conns : ~Open(c)
  PROVE  Known' \subseteq Known /\ discarded \subseteq discarded'
PROOF
<1>1. ASSUME UNCHANGED idle PROVE IdleConns' = IdleConns
  BY <1>1 DEF IdleConns, Listed
<1>2. ASSUME NEW k \in Keys, NEW s \in Seq(Conns), idle' = [idle EXCEPT ![k] = s]
      PROVE  IdleConns' \subseteq IdleConns \union Range(s)
  <2>1. /\ [idle EXCEPT ![k] = s] \in [Keys -> Seq(Conns)]
        /\ Listed([idle EXCEPT ![k] = s]) = (Listed(idle) \ Range(idle[k])) \union Range(s)
    BY ListedUpdate DEF PoolInv, TypeOK, KeyIsolation, Isolated
  <2> QED
    BY <1>2, <2>1 DEF IdleConns
<1>3. ASSUME NEW c \in Conns, NEW eligible \in BOOLEAN, Release(c, eligible)
      PROVE  Known' \subseteq Known /\ discarded \subseteq discarded'
  <2>1. KeyOf[c] \in Keys /\ idle[KeyOf[c]] \in Seq(Conns) /\ c \in held /\ held' = held \ {c}
    BY <1>3, PoolAssumption DEF PoolInv, TypeOK, Release
  <2>2. Range(idle[KeyOf[c]]) \subseteq IdleConns
    BY <2>1, ListedFacts DEF PoolInv
  <2>3. CASE DiscardConn(c)
    BY <1>1, <2>1, <2>3 DEF DiscardConn, Known
  <2>4. CASE ReleaseKeep(KeyOf[c], c)
    <3>1. /\ Append(idle[KeyOf[c]], c) \in Seq(Conns)
          /\ Range(Append(idle[KeyOf[c]], c)) = Range(idle[KeyOf[c]]) \union {c}
      BY <2>1, AppendFacts
    <3>2. IdleConns' \subseteq IdleConns \union {c}
      BY <1>2, <2>1, <2>2, <2>4, <3>1 DEF ReleaseKeep
    <3> QED
      BY <2>1, <2>4, <3>2 DEF ReleaseKeep, Known
  <2>5. CASE ReleaseEvict(KeyOf[c], c)
    <3> DEFINE l == idle[KeyOf[c]]
               t == Tail(l)
    <3>1. /\ t \in Seq(Conns) /\ Head(l) \in Range(l) /\ Range(t) \subseteq Range(l)
      <4>1. l # <<>> /\ Distinct(l)
        BY <2>1, <2>5 DEF ReleaseEvict, PoolInv, NoDuplicate, Distinct
      <4> HIDE DEF l
      <4> QED
        BY <2>1, <4>1, TailFacts DEF l
    <3>2. /\ Append(t, c) \in Seq(Conns)
          /\ Range(Append(t, c)) = Range(t) \union {c}
      <4> HIDE DEF t, l
      <4> QED BY <3>1, AppendFacts
    <3>3. idle' = [idle EXCEPT ![KeyOf[c]] = Append(t, c)] /\ discarded' = discarded \union {Head(l)}
      BY <2>5 DEF ReleaseEvict
    <3>4. IdleConns' \subseteq IdleConns \union {c}
      BY <1>2, <2>1, <2>2, <3>1, <3>2, <3>3
    <3> QED
      BY <2>1, <2>2, <3>1, <3>3, <3>4 DEF Known
  <2> QED
    BY <1>3, <2>3, <2>4, <2>5 DEF Release, ReleaseConn, ReleaseRefuse
<1>4. ASSUME NEW k \in Keys, Take(k)
      PROVE  Known' \subseteq Known /\ discarded \subseteq discarded'
  <2>1. ASSUME NEW c \in Conns, TakeHit(k, c), held' = held \union {c}
        PROVE  Known' \subseteq Known /\ discarded \subseteq discarded'
    <3>1. /\ Front(idle[k]) \in Seq(Conns)
          /\ Range(Front(idle[k])) \subseteq Range(idle[k])
      <4>1. idle[k] \in Seq(Conns) /\ idle[k] # <<>> /\ Distinct(idle[k])
        BY <2>1 DEF TakeHit, PoolInv, TypeOK, NoDuplicate, Distinct
      <4> QED
        BY <4>1, FrontFacts
    <3>2. Range(idle[k]) \subseteq IdleConns
      BY ListedFacts DEF PoolInv
    <3>3. IdleConns' \subseteq IdleConns
      BY <1>2, <2>1, <3>1, <3>2 DEF TakeHit
    <3> QED
      BY <2>1, <3>3, TakeHitFacts DEF TakeHit, Known
  <2> QED
    BY <1>1, <1>4, <2>1 DEF Take, TakeMiss, poolVars, Known
<1>5. ASSUME CloseAll
      PROVE  Known' \subseteq Known /\ discarded \subseteq discarded'
  <2>1. IdleConns' = {}
    BY <1>5 DEF CloseAll, CloseAllConns, IdleConns, Listed, Range
  <2> QED
    BY <1>5, <2>1 DEF CloseAll, CloseAllConns, Known
<1>6. ASSUME NEW c \in Conns, Discard(c)
      PROVE  Known' \subseteq Known /\ discarded \subseteq discarded'
  BY <1>1, <1>6 DEF Discard, DiscardConn, Known
<1> QED
  BY <1>3, <1>4, <1>5, <1>6 DEF Next

-----------------------------------------------------------------------------
(***************************************************************************)
(* The theorems.                                                           *)
(***************************************************************************)

\* The inductive invariant holds in every reachable state of the pool.
LEMMA PoolInvHolds == Spec => []PoolInv
PROOF
<1>1. Init => PoolInv
  BY PoolInvInit
<1>2. PoolInv /\ [Next]_vars => PoolInv'
  BY PoolInvNext
<1> QED
  BY <1>1, <1>2, PTL DEF Spec

\* The pool's state has its type: in particular the counter total never goes
\* below zero (take decrements it, release increments it).
THEOREM PoolTypeOK == Spec => []TypeOK
PROOF
<1>1. PoolInv => TypeOK
  BY DEF PoolInv
<1> QED
  BY <1>1, PoolInvHolds, PTL

\* Two requests never hold the same connection, nobody is handed one that has
\* been closed or was opened for another key (take, release, discard, closeAll).
THEOREM PoolSafeToReuse == Spec => []SafeToReuse
PROOF
<1>1. PoolInv => SafeToReuse
  BY DEF PoolInv, SafeToReuse
<1> QED
  BY <1>1, PoolInvHolds, PTL

\* The counter is the number of idle connections, both limits hold for every
\* value of the limits, zero included, and after closeAll() the pool retains
\* nothing, ever again (release, closeAll).
THEOREM PoolLimitsKept == Spec => []LimitsKept
PROOF
<1>1. PoolInv => LimitsKept
  BY DEF PoolInv, LimitsKept
<1> QED
  BY <1>1, PoolInvHolds, PTL

\* No step drops a connection out of the lists without giving it to a caller
\* or closing it (take, release, closeAll).
THEOREM PoolNoneForgotten == Spec => NoneForgotten
PROOF
<1> DEFINE Kept == \A c \in IdleConns \ IdleConns' : c \in held' \union discarded'
<1>1. ASSUME PoolInv, Next PROVE Kept
  <2>1. ASSUME NEW k \in Keys, NEW s \in Seq(Conns), idle' = [idle EXCEPT ![k] = s]
        PROVE  IdleConns \ IdleConns' \subseteq Range(idle[k]) \ Range(s)
    <3>1. /\ [idle EXCEPT ![k] = s] \in [Keys -> Seq(Conns)]
          /\ Listed([idle EXCEPT ![k] = s]) = (Listed(idle) \ Range(idle[k])) \union Range(s)
      BY <1>1, ListedUpdate DEF PoolInv, TypeOK, KeyIsolation, Isolated
    <3> QED
      BY <2>1, <3>1 DEF IdleConns
  <2>2. ASSUME UNCHANGED idle PROVE Kept
    BY <2>2 DEF IdleConns, Listed
  <2>3. ASSUME NEW c \in Conns, NEW eligible \in BOOLEAN, Release(c, eligible) PROVE Kept
    <3>1. /\ KeyOf[c] \in Keys /\ idle[KeyOf[c]] \in Seq(Conns)
          /\ Distinct(idle[KeyOf[c]])
      BY <1>1, PoolAssumption DEF PoolInv, TypeOK, NoDuplicate, Distinct
    <3>2. CASE UNCHANGED idle
      BY <2>2, <3>2
    <3>3. CASE ReleaseKeep(KeyOf[c], c)
      <4>1. /\ Append(idle[KeyOf[c]], c) \in Seq(Conns)
            /\ Range(Append(idle[KeyOf[c]], c)) = Range(idle[KeyOf[c]]) \union {c}
        BY <3>1, AppendFacts
      <4> QED
        BY <2>1, <3>1, <3>3, <4>1 DEF ReleaseKeep
    <3>4. CASE ReleaseEvict(KeyOf[c], c)
      <4> DEFINE l == idle[KeyOf[c]]
                 t == Tail(l)
      <4>1. /\ t \in Seq(Conns) /\ Range(t) = Range(l) \ {Head(l)}
        BY <3>1, <3>4, TailFacts DEF ReleaseEvict
      <4>2. /\ Append(t, c) \in Seq(Conns)
            /\ Range(Append(t, c)) = (Range(l) \ {Head(l)}) \union {c}
        <5> HIDE DEF t, l
        <5> QED BY <4>1, AppendFacts
      <4>3. idle' = [idle EXCEPT ![KeyOf[c]] = Append(t, c)] /\ Head(l) \in discarded'
        BY <3>4 DEF ReleaseEvict
      <4> QED
        BY <2>1, <3>1, <4>2, <4>3
    <3> QED
      BY <2>3, <3>2, <3>3, <3>4 DEF Release, ReleaseConn, ReleaseRefuse, DiscardConn
  <2>4. ASSUME NEW k \in Keys, Take(k) PROVE Kept
    <3>1. ASSUME NEW c \in Conns, TakeHit(k, c), held' = held \union {c} PROVE Kept
      <4>1. /\ Front(idle[k]) \in Seq(Conns)
            /\ Range(Front(idle[k])) = Range(idle[k]) \ {Last(idle[k])}
        <5>1. idle[k] \in Seq(Conns) /\ idle[k] # <<>> /\ Distinct(idle[k])
          BY <1>1, <3>1 DEF TakeHit, PoolInv, TypeOK, NoDuplicate, Distinct
        <5> QED
          BY <5>1, FrontFacts
      <4> QED
        BY <2>1, <3>1, <4>1 DEF TakeHit
    <3> QED
      BY <2>2, <2>4, <3>1 DEF Take, TakeMiss, poolVars
  <2>5. CASE CloseAll
    BY <2>5 DEF CloseAll, CloseAllConns
  <2>6. ASSUME NEW c \in Conns, Open(c) \/ Discard(c) PROVE Kept
    BY <2>2, <2>6 DEF Open, Discard, DiscardConn, poolVars
  <2> QED
    BY <1>1, <2>3, <2>4, <2>5, <2>6 DEF Next
<1>2. PoolInv /\ [Next]_vars => [Kept]_vars
  BY <1>1
<1> QED
  BY <1>2, PoolInvHolds, PTL DEF Spec, NoneForgotten
=============================================================================
