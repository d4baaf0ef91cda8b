----------------------- MODULE ClientExchange_proofs -----------------------
(***************************************************************************)
(* Proofs about ClientExchange, for any number of calls, keys and          *)
(* connections, any limits of the pool and any number of hops.             *)
(*                                                                         *)
(* Three invariants, each with the events it needs to be without: the      *)
(* registry of shared connections (no hypothesis), the server's actions    *)
(* (no "cut"), and the use of the pool (no "refused", and no "retryFails"  *)
(* for what is said of forgotten connections).                             *)
(***************************************************************************)
EXTENDS ClientExchange, WellFoundedInduction, TLAPS

\* The pool with what is proved about it.
P == INSTANCE ConnectionPool_proofs

-----------------------------------------------------------------------------
(***************************************************************************)
(* The operations of the pool that ClientExchange calls are those that the *)
(* theorems of ConnectionPool are about.                                   *)
(***************************************************************************)
\* The assumption of those theorems.
LEMMA PoolParameters == P!PoolAssumption
PROOF
BY ExchangeAssumption DEF P!PoolAssumption

\* The lists, operation by operation.
LEMMA SamePool ==
  /\ Pool!IdleConns = P!IdleConns
  /\ \A k, c : Pool!TakeHit(k, c) <=> P!TakeHit(k, c)
  /\ \A k : Pool!TakeMiss(k) <=> P!TakeMiss(k)
  /\ \A c : Pool!DiscardConn(c) <=> P!DiscardConn(c)
  /\ \A k, c, e : Pool!ReleaseConn(k, c, e) <=> P!ReleaseConn(k, c, e)
  /\ Pool!CloseAllConns <=> P!CloseAllConns
  /\ Pool!Init <=> P!Init
PROOF
<1>1. Pool!IdleConns = P!IdleConns
  BY DEF Pool!IdleConns, P!IdleConns, Pool!Listed, P!Listed, Pool!Range, P!Range
<1>2. \A k, c : Pool!TakeHit(k, c) <=> P!TakeHit(k, c)
  BY DEF Pool!TakeHit, P!TakeHit, Pool!Front, P!Front, Pool!Last, P!Last
<1>3. \A k : Pool!TakeMiss(k) <=> P!TakeMiss(k)
  BY DEF Pool!TakeMiss, P!TakeMiss, Pool!poolVars, P!poolVars
<1>4. \A c : Pool!DiscardConn(c) <=> P!DiscardConn(c)
  BY DEF Pool!DiscardConn, P!DiscardConn
<1>5. \A k, c, e : Pool!ReleaseConn(k, c, e) <=> P!ReleaseConn(k, c, e)
  <2>1. \A k : Pool!AtCapacity(k) <=> P!AtCapacity(k)
    BY DEF Pool!AtCapacity, P!AtCapacity
  <2>2. \A k, c : Pool!ReleaseKeep(k, c) <=> P!ReleaseKeep(k, c)
    BY <2>1 DEF Pool!ReleaseKeep, P!ReleaseKeep
  <2>3. \A k, c : Pool!ReleaseEvict(k, c) <=> P!ReleaseEvict(k, c)
    BY <2>1 DEF Pool!ReleaseEvict, P!ReleaseEvict
  <2>4. \A k, c : Pool!ReleaseRefuse(k, c) <=> P!ReleaseRefuse(k, c)
    BY <1>4, <2>1 DEF Pool!ReleaseRefuse, P!ReleaseRefuse
  <2> QED
    BY <1>4, <2>2, <2>3, <2>4 DEF Pool!ReleaseConn, P!ReleaseConn
<1>6. Pool!CloseAllConns <=> P!CloseAllConns
  BY <1>1 DEF Pool!CloseAllConns, P!CloseAllConns
<1>7. Pool!Init <=> P!Init
  BY DEF Pool!Init, P!Init, Pool!PoolInit, P!PoolInit
<1> QED
  BY <1>1, <1>2, <1>3, <1>4, <1>5, <1>6, <1>7

\* Their steps are the same.
LEMMA SameNext == (Pool!Next <=> P!Next) /\ Pool!vars = P!vars
PROOF
<1>1. \A c, e : Pool!Release(c, e) <=> P!Release(c, e)
  BY SamePool DEF Pool!Release, P!Release
<1>2. \A c : (Pool!Open(c) <=> P!Open(c)) /\ (Pool!Discard(c) <=> P!Discard(c))
  BY SamePool DEF Pool!Open, P!Open, Pool!Discard, P!Discard, Pool!poolVars, P!poolVars
<1>3. \A k : Pool!Take(k) <=> P!Take(k)
  BY SamePool DEF Pool!Take, P!Take
<1>4. Pool!CloseAll <=> P!CloseAll
  BY SamePool DEF Pool!CloseAll, P!CloseAll
<1> QED
  BY <1>1, <1>2, <1>3, <1>4 DEF Pool!Next, P!Next, Pool!vars, P!vars

\* openConnection() returns one of the fresh connections.
LEMMA OpensFresh ==
  ASSUME NEW f \in Calls, NEW c, Opens(f, c)
  PROVE  /\ c \in Conns /\ KeyOf[c] = CallKey[f] /\ h2[c] = "none"
         /\ c \notin held \union discarded \union Pool!IdleConns
PROOF
<1> DEFINE S == Fresh(CallKey[f])
           R == OpToRel(<, Nat)
<1>1. S # {} /\ c = Min(S)
  BY DEF Opens
<1>2. S \subseteq Nat
  BY ExchangeAssumption DEF Fresh
<1>3. PICK m \in S : \A x \in S : <<x, m>> \notin R
  <2> HIDE DEF S
  <2>1. IsWellFoundedOn(R, Nat)
    BY NatLessThanWellFounded
  <2> HIDE DEF R
  <2> QED
    BY <1>1, <1>2, <2>1, WFMin
<1>4. \A x \in S : m <= x
  <2> HIDE DEF S
  <2>1. \A x \in S : ~(x < m)
    BY <1>2, <1>3 DEF OpToRel
  <2>2. m \in Nat /\ \A x \in S : x \in Nat
    BY <1>2
  <2> QED
    BY <2>1, <2>2
<1>5. Min(S) \in S
  BY <1>4 DEF Min
<1> QED
  BY <1>1, <1>5 DEF Fresh

-----------------------------------------------------------------------------
(***************************************************************************)
(* The registry of shared connections: what is registered under a key is a *)
(* live connection that was opened for it.                                 *)
(***************************************************************************)
RegistryTypeOK ==
  /\ h2 \in [Conns -> {"none", "live", "goaway", "dead"}]
  /\ h2map \in [Keys -> Conns \union {NoConn}]
  /\ h2conns \subseteq Conns
KeyedRight == \A k \in Keys : h2map[k] # NoConn => KeyOf[h2map[k]] = k
Registry == RegistryTypeOK /\ RegistrySound /\ KeyedRight

\* Only four steps touch the registry.
LEMMA RegistrySteps ==
  ASSUME [Next]_vars
  PROVE  \/ UNCHANGED h2Vars
         \/ \E f \in Calls : OpenedHttp2(f)
         \/ \E c \in Conns : Goaway(c) \/ Http2Dies(c)
         \/ Close
PROOF
<1>1. ASSUME NEW f \in Calls, Step(f), ~OpenedHttp2(f) PROVE UNCHANGED h2Vars
  BY <1>1 DEF Step, Fetch, DispatchShared, Dispatch, TakeOrOpen, OpenedHttp1, OpenFails,
     ServerActs, HeadWithBody, HeadWithoutBody, CodingRefused, RetryFresh, Reopened,
     HeadFails, BodySettles, Http2Head, Http2Fails, Http2Retry, Http2BodySettles, Return,
     Redirect, h2Vars
<1> QED
  BY <1>1 DEF Next, vars

\* Every step keeps the registry right.
LEMMA RegistryStep == ASSUME Registry, [Next]_vars PROVE Registry'
PROOF
<1>1. CASE UNCHANGED h2Vars
  BY <1>1 DEF h2Vars, Registry, RegistryTypeOK, RegistrySound, KeyedRight, CanDispatch
<1>2. ASSUME NEW f \in Calls, OpenedHttp2(f) PROVE Registry'
  <2>1. PICK c \in Conns :
          /\ Opens(f, c)
          /\ h2' = [h2 EXCEPT ![c] = "live"]
          /\ h2conns' = h2conns \union {c}
          /\ h2map' = [h2map EXCEPT ![CallKey[f]] = c]
    BY <1>2 DEF OpenedHttp2
  <2>2. CallKey[f] \in Keys /\ KeyOf[c] = CallKey[f] /\ c # NoConn
    BY <2>1, ExchangeAssumption, OpensFresh
  <2>3. RegistryTypeOK'
    BY <2>1, <2>2 DEF Registry, RegistryTypeOK
  <2>4. \A d \in Conns : h2[d] = "live" => h2'[d] = "live"
    BY <2>1 DEF Registry, RegistryTypeOK
  <2>5. h2'[c] = "live"
    BY <2>1 DEF Registry, RegistryTypeOK
  <2>6. \A k \in Keys : h2map'[k] = IF k = CallKey[f] THEN c ELSE h2map[k]
    BY <2>1, <2>2 DEF Registry, RegistryTypeOK
  <2>7. \A k \in Keys : h2map[k] \in Conns \union {NoConn}
    BY DEF Registry, RegistryTypeOK
  <2>8. RegistrySound'
    <3>1. \A k \in Keys : h2map'[k] # NoConn => CanDispatch(h2map[k])' /\ h2map'[k] \in h2conns'
      BY <2>1, <2>2, <2>4, <2>5, <2>6, <2>7
         DEF Registry, RegistryTypeOK, RegistrySound, CanDispatch
    <3>2. \A d \in Conns \ {c} : h2'[d] = h2[d]
      BY <2>1 DEF Registry, RegistryTypeOK
    <3>3. \A d \in h2conns' : h2'[d] \in {"live", "goaway"}
      BY <2>1, <2>5, <3>2 DEF Registry, RegistryTypeOK, RegistrySound
    <3>4. \A d \in Conns : h2'[d] = "live" => d \in h2conns'
      BY <2>1, <2>5, <3>2 DEF Registry, RegistrySound
    <3> QED
      BY <3>1, <3>3, <3>4 DEF RegistrySound
  <2>9. KeyedRight'
    BY <2>2, <2>6 DEF Registry, KeyedRight
  <2> QED
    BY <2>3, <2>8, <2>9 DEF Registry
<1>3. ASSUME NEW c \in Conns, Unregister(c), NEW s \in {"goaway", "dead"},
             h2' = [h2 EXCEPT ![c] = s]
      PROVE  Registry'
  <2>1. /\ h2conns' = h2conns \ {c}
        /\ h2map' = [h2map EXCEPT ![KeyOf[c]] = IF h2map[KeyOf[c]] = c THEN NoConn ELSE h2map[KeyOf[c]]]
    BY <1>3 DEF Unregister, Forget
  <2>2. KeyOf[c] \in Keys
    BY ExchangeAssumption
  <2>3. \A k \in Keys : h2map'[k] = h2map[k] \/ h2map'[k] = NoConn
    BY <2>1 DEF Registry, RegistryTypeOK
  <2>4. \A k \in Keys : h2map'[k] = c => c = NoConn
    BY <2>1, <2>2, <2>3 DEF Registry, RegistryTypeOK, KeyedRight
  <2>5. \A d \in Conns \ {c} : h2'[d] = h2[d]
    BY <1>3 DEF Registry, RegistryTypeOK
  <2>6. RegistryTypeOK'
    BY <1>3, <2>1, <2>2 DEF Registry, RegistryTypeOK
  <2>7. \A k \in Keys : h2map[k] \in Conns \union {NoConn}
    BY DEF Registry, RegistryTypeOK
  <2>8. RegistrySound'
    <3>1. ASSUME NEW k \in Keys, h2map'[k] # NoConn
          PROVE  h2'[h2map'[k]] = "live" /\ h2map'[k] \in h2conns'
      <4>1. h2map'[k] = h2map[k] /\ h2map[k] \in Conns \ {c}
        BY <2>3, <2>4, <2>7, <3>1
      <4>2. h2[h2map[k]] = "live" /\ h2map[k] \in h2conns
        BY <3>1, <4>1 DEF Registry, RegistrySound, CanDispatch
      <4> QED
        BY <2>1, <2>5, <4>1, <4>2
    <3>2. \A d \in h2conns' : h2'[d] \in {"live", "goaway"}
      BY <2>1, <2>5 DEF Registry, RegistryTypeOK, RegistrySound
    <3>3. \A d \in Conns : h2'[d] = "live" => d \in h2conns'
      <4>1. h2'[c] # "live"
        BY <1>3 DEF Registry, RegistryTypeOK
      <4> QED
        BY <2>1, <2>5, <4>1 DEF Registry, RegistrySound
    <3> QED
      BY <3>1, <3>2, <3>3 DEF RegistrySound, CanDispatch
  <2>9. KeyedRight'
    BY <2>3 DEF Registry, KeyedRight
  <2> QED
    BY <2>6, <2>8, <2>9 DEF Registry
<1>4. ASSUME NEW c \in Conns, Goaway(c) \/ Http2Dies(c) PROVE Registry'
  BY <1>3, <1>4 DEF Goaway, Http2Dies
<1>5. CASE Close
  BY <1>5 DEF Close, Registry, RegistryTypeOK, RegistrySound, KeyedRight
<1> QED
  BY <1>1, <1>2, <1>4, <1>5, RegistrySteps

\* The registry is right in every state, whatever may happen.
LEMMA RegistryHolds == Spec => []Registry
PROOF
<1>1. Init => Registry
  BY ExchangeAssumption DEF Init, Registry, RegistryTypeOK, RegistrySound, KeyedRight
<1>2. Registry /\ [Next]_vars => Registry'
  BY RegistryStep
<1> QED
  BY <1>1, <1>2, PTL DEF Spec

(***************************************************************************)
(* A live connection leaves the map only for another one or because the    *)
(* client closed: the end of the loser of a race, or of a connection that  *)
(* was replaced, does not unregister the winner (registerHttp2's onClose). *)
(***************************************************************************)
THEOREM ClientLiveStaysShared == Spec => LiveStaysShared
PROOF
<1> DEFINE Stays == \A k \in Keys : (CanDispatch(h2map[k]) /\ h2map'[k] = NoConn)
                                      => h2'[h2map[k]] # "live"
<1>1. ASSUME Registry, [Next]_vars PROVE Stays
  <2> SUFFICES ASSUME NEW k \in Keys, CanDispatch(h2map[k]), h2map'[k] = NoConn
               PROVE  h2'[h2map[k]] # "live"
    OBVIOUS
  <2>1. /\ h2map[k] # NoConn /\ h2map[k] \in Conns /\ h2map[k] \in h2conns
        /\ KeyOf[h2map[k]] = k
    BY <1>1 DEF CanDispatch, Registry, RegistryTypeOK, RegistrySound, KeyedRight
  <2>2. ~UNCHANGED h2Vars
    BY <2>1 DEF h2Vars
  <2>3. ASSUME NEW f \in Calls, OpenedHttp2(f) PROVE FALSE
    BY <1>1, <2>1, <2>3, ExchangeAssumption DEF OpenedHttp2, Registry, RegistryTypeOK
  <2>4. ASSUME NEW c \in Conns, Goaway(c) \/ Http2Dies(c) PROVE h2'[h2map[k]] # "live"
    <3>1. Unregister(c) /\ (h2' = [h2 EXCEPT ![c] = "goaway"] \/ h2' = [h2 EXCEPT ![c] = "dead"])
      BY <2>4 DEF Goaway, Http2Dies
    <3>2. h2map' = [h2map EXCEPT ![KeyOf[c]] = IF h2map[KeyOf[c]] = c THEN NoConn ELSE h2map[KeyOf[c]]]
      BY <3>1 DEF Unregister, Forget
    <3>3. h2map[k] = c
      BY <1>1, <2>1, <3>2 DEF Registry, RegistryTypeOK
    <3> QED
      BY <1>1, <3>1, <3>3 DEF Registry, RegistryTypeOK
  <2>5. CASE Close
    BY <2>1, <2>5 DEF Close
  <2> QED
    BY <1>1, <2>2, <2>3, <2>4, <2>5, RegistrySteps
<1>2. Registry /\ [Next]_vars => [Stays]_vars
  BY <1>1
<1> QED
  BY <1>2, RegistryHolds, PTL DEF Spec, LiveStaysShared

-----------------------------------------------------------------------------
(***************************************************************************)
(* What the server has acted on and answered.  A call that awaits a head   *)
(* has had no byte of an answer; one that has yet to send its request has  *)
(* not been acted on, unless it is re-sending it, once, because the        *)
(* connection of the pool it was sent on has ended in silence.             *)
(***************************************************************************)
Allowed(f) == IF Retried(f) THEN 2 ELSE 1
Served(f) ==
  /\ acted[f] \in Nat /\ acted[f] <= Allowed(f)
  /\ answered[f] \in {0, 1}
  /\ At(f, {"idle", "started", "opening", "sent", "reopening", "shared", "first"}) => answered[f] = 0
  /\ At(f, {"idle", "started", "opening"}) => acted[f] = 0
  /\ At(f, {"sent", "shared", "first"}) /\ ~call[f].seen => acted[f] <= Allowed(f) - 1
  /\ At(f, {"sent"}) => call[f].conn # NoConn
  /\ At(f, {"shared", "first"}) => call[f].pooled = NoConn
  /\ At(f, {"reopening"}) => /\ call[f].pooled = call[f].conn /\ call[f].conn # NoConn
                             /\ call[f].conn \in discarded
CallFields == {"at", "conn", "pooled", "seen", "hops"}
ServedInv ==
  /\ DOMAIN call = Calls /\ DOMAIN acted = Calls /\ DOMAIN answered = Calls
  /\ \A f \in Calls : DOMAIN call[f] = CallFields /\ Served(f)

\* What has been discarded stays so.
LEMMA DiscardedStays == ASSUME [Next]_vars PROVE discarded \subseteq discarded'
PROOF
<1>1. UNCHANGED poolVars => UNCHANGED discarded
  BY DEF poolVars
<1>2. \A c : Pool!DiscardConn(c) => discarded \subseteq discarded'
  BY DEF Pool!DiscardConn
<1>3. \A f, e : GiveBack(f, e) => discarded \subseteq discarded'
  BY <1>2 DEF GiveBack, Pool!ReleaseConn, Pool!ReleaseKeep, Pool!ReleaseEvict, Pool!ReleaseRefuse
<1>4. \A f : Throw(f) => discarded \subseteq discarded'
  BY <1>2 DEF Throw
<1>5. \A f : TakeOrOpen(f) => UNCHANGED discarded
  BY <1>1 DEF TakeOrOpen, Pool!TakeHit, Pool!TakeMiss, Pool!poolVars
<1>6. ASSUME NEW f \in Calls, Step(f) PROVE discarded \subseteq discarded'
  <2>1. CASE Fetch(f) \/ DispatchShared(f) \/ Dispatch(f) \/ OpenedHttp1(f) \/ OpenedHttp2(f)
             \/ OpenFails(f) \/ ServerActs(f) \/ HeadWithBody(f) \/ Reopened(f)
    BY <1>1, <1>5, <2>1 DEF Fetch, DispatchShared, Dispatch, OpenedHttp1, OpenedHttp2,
       OpenFails, ServerActs, HeadWithBody, Reopened
  <2>2. CASE HeadWithoutBody(f) \/ CodingRefused(f) \/ RetryFresh(f) \/ HeadFails(f) \/ BodySettles(f)
    BY <1>2, <1>3, <1>4, <2>2 DEF HeadWithoutBody, CodingRefused, RetryFresh, HeadFails, BodySettles
  <2>3. CASE Http2Head(f) \/ Http2Fails(f) \/ Http2Retry(f) \/ Http2BodySettles(f) \/ Return(f)
    BY <1>1, <1>5, <2>3 DEF Http2Head, Http2Fails, Http2Retry, Http2BodySettles, Return
  <2>4. CASE Redirect(f)
    BY <1>1, <1>3, <2>4 DEF Redirect
  <2> QED
    BY <1>6, <2>1, <2>2, <2>3, <2>4 DEF Step
<1>7. ASSUME NEW c \in Conns, Goaway(c) \/ Http2Dies(c) PROVE discarded \subseteq discarded'
  BY <1>1, <1>7 DEF Goaway, Http2Dies
<1>8. Close => discarded \subseteq discarded'
  BY DEF Close, Pool!CloseAllConns
<1> QED
  BY <1>1, <1>6, <1>7, <1>8 DEF Next, vars

\* A call that does not move keeps its promise.
LEMMA ServedRests ==
  ASSUME NEW g \in Calls, Served(g), discarded \subseteq discarded',
         call'[g] = call[g], acted'[g] = acted[g], answered'[g] = answered[g]
  PROVE  Served(g)'
PROOF
BY DEF Served, Allowed, Retried, At

\* A call that moves on and keeps its promise; the others do not move.
LEMMA ServedMoves ==
  ASSUME ServedInv, NEW f \in Calls, NEW r, call' = [call EXCEPT ![f] = r],
         DOMAIN r = CallFields, discarded \subseteq discarded',
         DOMAIN acted' = Calls, DOMAIN answered' = Calls,
         \A g \in Calls \ {f} : acted'[g] = acted[g] /\ answered'[g] = answered[g],
         Served(f)'
  PROVE  ServedInv'
PROOF
<1>1. DOMAIN call' = Calls /\ call'[f] = r /\ \A g \in Calls \ {f} : call'[g] = call[g]
  BY DEF ServedInv
<1>2. \A g \in Calls \ {f} : Served(g)' /\ DOMAIN call'[g] = CallFields
  BY <1>1, ServedRests DEF ServedInv
<1> QED
  BY <1>1, <1>2 DEF ServedInv

\* A call that goes somewhere without a new connection.
LEMMA ServedGoes ==
  ASSUME ServedInv, NEW f \in Calls, NEW place, Goto(f, place), discarded \subseteq discarded',
         UNCHANGED served \/ (\E any \in BOOLEAN : Answered(f, any) /\ answered[f] = 0),
         place \notin {"idle", "sent", "shared", "first"},
         place \in {"started", "opening"} => acted[f] = 0 /\ UNCHANGED served /\ answered[f] = 0,
         place = "reopening" =>
           /\ answered'[f] = 0
           /\ call[f].pooled = call[f].conn /\ call[f].conn # NoConn /\ call[f].conn \in discarded'
  PROVE  ServedInv'
PROOF
<1> DEFINE r == [call[f] EXCEPT !.at = place]
<1>1. /\ DOMAIN call = Calls /\ DOMAIN acted = Calls /\ DOMAIN answered = Calls
      /\ DOMAIN call[f] = CallFields /\ Served(f)
  BY DEF ServedInv
<1>2. call' = [call EXCEPT ![f] = r]
  BY DEF Goto
<1>3. /\ DOMAIN r = CallFields /\ r.at = place
      /\ r.conn = call[f].conn /\ r.pooled = call[f].pooled /\ r.seen = call[f].seen
  BY <1>1 DEF CallFields
<1>4. call'[f] = r
  BY <1>1, <1>2
<1> HIDE DEF r
<1>5. /\ acted' = acted /\ DOMAIN answered' = Calls
      /\ \A g \in Calls \ {f} : answered'[g] = answered[g]
      /\ answered'[f] = answered[f] \/ answered'[f] \in {0, 1}
  BY <1>1 DEF served, Answered
<1>6. Served(f)'
  <2>1. acted'[f] = acted[f] /\ Retried(f)' = Retried(f)
    BY <1>3, <1>4, <1>5 DEF Retried
  <2>2. answered'[f] \in {0, 1}
    BY <1>1, <1>5 DEF Served
  <2>3. place \in {"started", "opening", "reopening"} => answered'[f] = 0
    BY <1>5 DEF served
  <2> QED
    BY <1>1, <1>3, <1>4, <2>1, <2>2, <2>3 DEF Served, Allowed, At
<1> QED
  BY <1>1, <1>2, <1>3, <1>5, <1>6, ServedMoves

\* A call that goes somewhere with another connection, or with none.
LEMMA ServedSends ==
  ASSUME ServedInv, NEW f \in Calls, NEW place, NEW c, NEW pooled, Send(f, place, c, pooled),
         UNCHANGED served, discarded \subseteq discarded', answered[f] = 0,
         place \in {"opening", "sent", "shared", "first"},
         \/ acted[f] = 0
         \/ place = "sent" /\ acted[f] <= 1 /\ pooled \notin {NoConn, c},
         place = "sent" => c # NoConn,
         place \in {"shared", "first"} => pooled = NoConn
  PROVE  ServedInv'
PROOF
<1> DEFINE r == [call[f] EXCEPT !.at = place, !.conn = c, !.pooled = pooled, !.seen = FALSE]
<1>1. /\ DOMAIN call = Calls /\ DOMAIN acted = Calls /\ DOMAIN answered = Calls
      /\ DOMAIN call[f] = CallFields /\ Served(f)
  BY DEF ServedInv
<1>2. call' = [call EXCEPT ![f] = r]
  BY DEF Send
<1>3. DOMAIN r = CallFields /\ r.at = place /\ r.conn = c /\ r.pooled = pooled /\ ~r.seen
  BY <1>1 DEF CallFields
<1>4. call'[f] = r /\ acted' = acted /\ answered' = answered
  BY <1>1, <1>2 DEF served
<1> HIDE DEF r
<1>5. Served(f)'
  <2>1. Retried(f)' <=> pooled \notin {NoConn, c}
    BY <1>3, <1>4 DEF Retried
  <2>2. acted[f] \in Nat
    BY <1>1 DEF Served
  <2> QED
    BY <1>3, <1>4, <2>1, <2>2 DEF Served, Allowed, At
<1> QED
  BY <1>1, <1>2, <1>3, <1>4, <1>5, ServedMoves

\* The steps of one call.
LEMMA ServedStep ==
  ASSUME "cut" \notin Events, ServedInv, NEW f \in Calls, Step(f), discarded \subseteq discarded'
  PROVE  ServedInv'
PROOF
<1>1. /\ DOMAIN call = Calls /\ DOMAIN call[f] = CallFields /\ Served(f)
      /\ DOMAIN acted = Calls /\ DOMAIN answered = Calls
  BY DEF ServedInv
<1>2. UNCHANGED <<call, served>> => ServedInv'
  BY ServedRests DEF ServedInv, served
<1>3. \A c \in Conns : c # NoConn
  BY ExchangeAssumption
<1>4. CASE Fetch(f)
  BY <1>1, <1>4, ServedGoes DEF Fetch, Served, At
<1>5. CASE Dispatch(f) \/ Http2Retry(f)
  <2>1. acted[f] = 0 /\ answered[f] = 0 /\ TakeOrOpen(f)
    BY <1>1, <1>5 DEF Dispatch, Http2Retry, Served, Allowed, Retried, At
  <2>2. UNCHANGED served
    BY <2>1 DEF TakeOrOpen
  <2>3. CASE Goto(f, "failed")
    BY <2>2, <2>3, ServedGoes
  <2>4. ASSUME NEW c \in Conns, Send(f, "sent", c, c) PROVE ServedInv'
    BY <1>3, <2>1, <2>2, <2>4, ServedSends
  <2>5. CASE Send(f, "opening", NoConn, NoConn)
    BY <2>1, <2>2, <2>5, ServedSends
  <2> QED
    BY <2>1, <2>3, <2>4, <2>5 DEF TakeOrOpen
<1>6. CASE DispatchShared(f)
  BY <1>1, <1>6, ServedSends DEF DispatchShared, Served, At
<1>7. CASE OpenedHttp1(f) \/ OpenedHttp2(f)
  <2>1. acted[f] = 0 /\ answered[f] = 0 /\ UNCHANGED served
    BY <1>1, <1>7 DEF OpenedHttp1, OpenedHttp2, Served, At
  <2>2. PICK c \in Conns : Send(f, "sent", c, NoConn) \/ Send(f, "first", c, NoConn)
    BY <1>7 DEF OpenedHttp1, OpenedHttp2
  <2> QED
    BY <1>3, <2>1, <2>2, ServedSends
<1>8. CASE Reopened(f)
  <2>1. PICK c \in Conns : Opens(f, c) /\ Send(f, "sent", c, call[f].pooled)
    BY <1>8 DEF Reopened
  <2>2. /\ At(f, {"reopening"}) /\ UNCHANGED served
        /\ call[f].pooled = call[f].conn /\ call[f].conn # NoConn /\ call[f].conn \in discarded
        /\ answered[f] = 0
    BY <1>1, <1>8 DEF Reopened, Served, At
  <2>3. acted[f] <= 1
    BY <1>1, <2>2 DEF Served, Allowed, Retried
  <2>4. c \notin discarded
    BY <2>1, OpensFresh
  <2> QED
    BY <1>3, <2>1, <2>2, <2>3, <2>4, ServedSends
<1>9. CASE OpenFails(f) \/ Http2Fails(f) \/ Return(f)
  BY <1>9, ServedGoes DEF OpenFails, Http2Fails, Return
<1>10. CASE HeadWithBody(f) \/ HeadWithoutBody(f) \/ CodingRefused(f) \/ HeadFails(f) \/ Http2Head(f)
  <2>1. answered[f] = 0
    BY <1>1, <1>10 DEF HeadWithBody, HeadWithoutBody, CodingRefused, HeadFails, Http2Head, Served, At
  <2>2. Goto(f, "head") \/ Goto(f, "failed")
    BY <1>10 DEF HeadWithBody, HeadWithoutBody, CodingRefused, HeadFails, Http2Head, Throw
  <2>3. \E any \in BOOLEAN : Answered(f, any)
    <3>1. \A e \in Endings(f) : (e \in Heard) \in BOOLEAN
      OBVIOUS
    <3> QED
      BY <1>10, <3>1 DEF HeadWithBody, HeadWithoutBody, CodingRefused, HeadFails, Http2Head
  <2> QED
    BY <2>1, <2>2, <2>3, ServedGoes
<1>11. CASE RetryFresh(f)
  <2>1. PICK ending \in Endings(f) :
          /\ At(f, {"sent"}) /\ call[f].conn = call[f].pooled
          /\ ServerNeverSawIt(ending)
          /\ Pool!DiscardConn(call[f].conn)
          /\ Goto(f, "reopening")
          /\ Answered(f, ending \in Heard)
    BY <1>11 DEF RetryFresh
  <2>2. ending \notin Heard
    BY <2>1 DEF Endings, ServerNeverSawIt, Heard
  <2>3. answered[f] = 0 /\ call[f].conn # NoConn /\ call[f].conn \in discarded'
    BY <1>1, <2>1 DEF Served, At, Pool!DiscardConn
  <2>4. answered'[f] = 0 /\ \E any \in BOOLEAN : Answered(f, any)
    BY <1>1, <2>1, <2>2, <2>3 DEF Answered
  <2> QED
    BY <2>1, <2>3, <2>4, ServedGoes
<1>12. CASE BodySettles(f) \/ Http2BodySettles(f)
  BY <1>2, <1>12 DEF BodySettles, Http2BodySettles
<1>13. CASE ServerActs(f)
  <2> DEFINE r == [call[f] EXCEPT !.seen = TRUE]
  <2>1. /\ call' = [call EXCEPT ![f] = r]
        /\ acted' = [acted EXCEPT ![f] = acted[f] + 1]
        /\ answered' = answered
        /\ ~call[f].seen /\ At(f, {"sent", "shared", "first"})
    BY <1>13 DEF ServerActs
  <2>2. DOMAIN r = CallFields /\ r.at = call[f].at /\ r.conn = call[f].conn /\ r.pooled = call[f].pooled /\ r.seen
    BY <1>1 DEF CallFields
  <2> HIDE DEF r
  <2>3. call'[f] = r /\ acted'[f] = acted[f] + 1 /\ Retried(f)' = Retried(f)
    BY <1>1, <2>1, <2>2 DEF Retried
  <2>4. Served(f)'
    BY <1>1, <2>1, <2>2, <2>3 DEF Served, Allowed, At
  <2> QED
    BY <1>1, <2>1, <2>2, <2>4, ServedMoves
<1>14. CASE Redirect(f)
  <2> DEFINE r == [call[f] EXCEPT !.at = "started", !.hops = call[f].hops + 1]
  <2>1. /\ call' = [call EXCEPT ![f] = r]
        /\ acted' = [acted EXCEPT ![f] = 0] /\ answered' = [answered EXCEPT ![f] = 0]
    BY <1>14 DEF Redirect
  <2>2. DOMAIN r = CallFields /\ r.at = "started"
    BY <1>1 DEF CallFields
  <2> HIDE DEF r
  <2>3. call'[f] = r /\ acted'[f] = 0 /\ answered'[f] = 0
    BY <1>1, <2>1
  <2>4. Served(f)'
    BY <2>2, <2>3 DEF Served, Allowed, At
  <2> QED
    BY <1>1, <2>1, <2>2, <2>4, ServedMoves
<1> QED
  BY <1>4, <1>5, <1>6, <1>7, <1>8, <1>9, <1>10, <1>11, <1>12, <1>13, <1>14 DEF Step

(***************************************************************************)
(* A request that the server has begun to answer is never sent again, and  *)
(* any other once at most, when a connection taken from the pool has ended *)
(* in silence; unless a connection is cut right after a record header or   *)
(* an interim response ("cut": serverNeverSawIt takes it for a silent      *)
(* one).  That a silent end says nothing of what the server has done is    *)
(* part of the model: it may have acted.                                   *)
(***************************************************************************)
THEOREM ClientResentOnlyInSilence == "cut" \notin Events => (Spec => []ResentOnlyInSilence)
PROOF
<1> SUFFICES ASSUME "cut" \notin Events PROVE Spec => []ResentOnlyInSilence
  OBVIOUS
<1>1. Init => ServedInv
  BY DEF Init, ServedInv, Served, Allowed, At, Idle, CallFields
<1>2. ASSUME ServedInv, [Next]_vars PROVE ServedInv'
  <2>1. discarded \subseteq discarded'
    BY <1>2, DiscardedStays
  <2>2. ASSUME NEW gone, FailStreams(gone), UNCHANGED served PROVE ServedInv'
    <3>1. /\ DOMAIN call' = Calls
          /\ \A f \in Calls : call'[f] = call[f] \/ call'[f] = [call[f] EXCEPT !.at = "failed"]
      BY <2>2 DEF FailStreams
    <3>2. ASSUME NEW f \in Calls, call'[f] = [call[f] EXCEPT !.at = "failed"]
          PROVE  Served(f)' /\ DOMAIN call'[f] = CallFields
      <4>1. /\ DOMAIN call'[f] = CallFields /\ call'[f].at = "failed"
            /\ call'[f].conn = call[f].conn /\ call'[f].pooled = call[f].pooled
        BY <1>2, <3>2 DEF ServedInv, CallFields
      <4>2. Retried(f)' = Retried(f) /\ acted'[f] = acted[f] /\ answered'[f] = answered[f]
        BY <2>2, <4>1 DEF Retried, served
      <4> QED
        BY <1>2, <4>1, <4>2 DEF ServedInv, Served, Allowed, At
    <3>3. \A f \in Calls : Served(f)' /\ DOMAIN call'[f] = CallFields
      BY <1>2, <2>1, <2>2, <3>1, <3>2, ServedRests DEF ServedInv, served
    <3> QED
      BY <1>2, <2>2, <3>1, <3>3 DEF ServedInv, served
  <2>3. ASSUME UNCHANGED <<call, served>> PROVE ServedInv'
    BY <1>2, <2>1, <2>3, ServedRests DEF ServedInv, served
  <2>4. ASSUME NEW c \in Conns, Goaway(c) \/ Http2Dies(c) PROVE ServedInv'
    BY <2>2, <2>3, <2>4 DEF Goaway, Http2Dies
  <2>5. CASE Close
    BY <2>2, <2>5 DEF Close
  <2>6. CASE UNCHANGED vars
    BY <2>3, <2>6 DEF vars
  <2>7. ASSUME NEW f \in Calls, Step(f) PROVE ServedInv'
    BY <1>2, <2>1, <2>7, ServedStep
  <2> QED
    BY <1>2, <2>4, <2>5, <2>6, <2>7 DEF Next
<1>3. ServedInv => ResentOnlyInSilence
  BY DEF ServedInv, Served, Allowed, ResentOnlyInSilence
<1> QED
  BY <1>1, <1>2, <1>3, PTL DEF Spec

-----------------------------------------------------------------------------
(***************************************************************************)
(* The use of the pool.  A call that awaits a head holds its connection,   *)
(* opened for its key; so does a body that has not settled, unless its     *)
(* coding was refused and the connection discarded; and no connection that *)
(* speaks HTTP/2 is ever in the pool's hands.                              *)
(***************************************************************************)
CallRecord == [at : Places, conn : Conns \union {NoConn}, pooled : Conns \union {NoConn},
               seen : BOOLEAN, hops : Nat]
CallsTyped == call \in [Calls -> CallRecord] /\ inflight \subseteq Calls

CallOK(f) ==
  LET c == call[f].conn
      p == call[f].pooled IN
  /\ At(f, {"sent"}) =>
       c \in held /\ KeyOf[c] = CallKey[f] /\ (p = NoConn \/ p = c \/ p \in discarded)
  /\ At(f, {"reopening"}) => p \in discarded
  /\ At(f, {"shared", "first"}) => c \in Conns /\ h2[c] # "none"
  /\ f \in inflight =>
       /\ At(f, {"head", "returned", "failed"}) /\ c \in Conns
       /\ h2[c] = "none" => /\ KeyOf[c] = CallKey[f]
                            /\ c \in held \/ (At(f, {"failed"}) /\ c \in discarded)

Http2NotPooled == \A c \in Conns : h2[c] # "none" => c \notin P!Known

UseInv ==
  /\ P!PoolInv
  /\ CallsTyped
  /\ \A f \in Calls : CallOK(f)
  /\ Http2NotPooled
  /\ NeverShared
  /\ "retryFails" \notin Events => NothingForgotten

\* What a step of the client does to the pool, seen from a call.
PoolKept ==
  /\ P!Next \/ UNCHANGED P!vars
  /\ P!PoolInv'
  /\ P!Known' \subseteq P!Known
  /\ discarded \subseteq discarded'

\* What the pool's invariant says of the sets of connections.
LEMMA PoolSets ==
  ASSUME P!PoolInv
  PROVE  /\ held \subseteq Conns /\ discarded \subseteq Conns /\ held \cap discarded = {}
         /\ P!IdleConns \cap (held \union discarded) = {}
         /\ P!Known = P!IdleConns \union held \union discarded
         /\ NoConn \notin held \union discarded
PROOF
<1>1. held \subseteq Conns /\ discarded \subseteq Conns
  BY DEF P!PoolInv, P!TypeOK
<1>2. /\ held \cap discarded = {}
      /\ P!IdleConns \cap (held \union discarded) = {}
  BY DEF P!PoolInv, P!Exclusive
<1>3. NoConn \notin Conns
  BY ExchangeAssumption
<1> QED
  BY <1>1, <1>2, <1>3 DEF P!Known

\* A step of the pool that opens nothing.
LEMMA PoolSteps ==
  ASSUME P!PoolInv, P!Next, held' \subseteq held \union P!IdleConns
  PROVE  PoolKept
PROOF
<1>1. P!PoolInv'
  BY PoolParameters, P!PoolInvNext
<1>2. \A c \in Conns : ~P!Open(c)
  BY DEF P!Open
<1>3. P!Known' \subseteq P!Known /\ discarded \subseteq discarded'
  BY <1>2, PoolParameters, P!NothingNew
<1> QED
  BY <1>1, <1>3 DEF PoolKept

\* A step that leaves the pool alone.
LEMMA PoolAlone == ASSUME P!PoolInv, UNCHANGED poolVars PROVE PoolKept
PROOF
<1>1. UNCHANGED P!vars
  BY DEF poolVars, P!vars
<1>2. P!PoolInv'
  BY <1>1, PoolParameters, P!PoolInvNext
<1>3. P!Known' = P!Known
  BY DEF poolVars, P!Known, P!IdleConns, P!Listed
<1> QED
  BY <1>1, <1>2, <1>3 DEF PoolKept, poolVars

\* take() hands out an idle connection of the call's key.
LEMMA Taken ==
  ASSUME P!PoolInv, NEW f \in Calls, NEW c \in Conns,
         Pool!TakeHit(CallKey[f], c), held' = held \union {c}
  PROVE  PoolKept /\ c \in P!IdleConns /\ KeyOf[c] = CallKey[f]
PROOF
<1>1. CallKey[f] \in Keys
  BY ExchangeAssumption
<1>2. P!TakeHit(CallKey[f], c)
  BY SamePool
<1>3. c \in P!IdleConns /\ KeyOf[c] = CallKey[f]
  BY <1>1, <1>2, PoolParameters, P!TakeHitFacts
<1>4. P!Next
  BY <1>1, <1>2 DEF P!Next, P!Take
<1> QED
  BY <1>3, <1>4, PoolSteps

\* release() of a connection the call holds.
LEMMA GivenBack ==
  ASSUME P!PoolInv, NEW f \in Calls, NEW eligible \in BOOLEAN, GiveBack(f, eligible),
         call[f].conn \in held, KeyOf[call[f].conn] = CallKey[f]
  PROVE  PoolKept
PROOF
<1>1. call[f].conn \in Conns
  BY PoolSets
<1>2. P!Release(call[f].conn, eligible)
  BY SamePool DEF GiveBack, P!Release
<1>3. P!Next
  BY <1>1, <1>2 DEF P!Next
<1>4. held' \subseteq held
  BY DEF GiveBack
<1> QED
  BY <1>3, <1>4, PoolSteps

\* discard() of a connection the call holds, or has discarded before.
LEMMA Discarded ==
  ASSUME P!PoolInv, NEW c \in held \union discarded, Pool!DiscardConn(c), held' = held \ {c}
  PROVE  PoolKept
PROOF
<1>1. CASE c \in held
  <2>1. P!Next
    BY <1>1, SamePool, PoolSets DEF P!Next, P!Discard
  <2> QED
    BY <2>1, PoolSteps
<1>2. CASE c \in discarded
  <2>1. held' = held
    BY <1>2, PoolSets
  <2>2. UNCHANGED poolVars
    BY <1>2, <2>1 DEF Pool!DiscardConn, poolVars
  <2> QED
    BY <2>2, PoolAlone
<1> QED
  BY <1>1, <1>2

(***************************************************************************)
(* A step of one call disturbs no other: what it lets go of was its own,   *)
(* and what it newly uses nobody else had.                                 *)
(***************************************************************************)
LEMMA OneCall ==
  ASSUME Registry, UseInv, NEW f \in Calls, NEW r \in CallRecord,
         call' = [call EXCEPT ![f] = r],
         inflight' = inflight \/ inflight' = inflight \union {f} \/ inflight' = inflight \ {f},
         P!PoolInv', discarded \subseteq discarded', Http2NotPooled',
         \A c \in Conns : h2'[c] = h2[c] \/ (h2[c] = "none" /\ h2'[c] # "none"),
         held \ held' \subseteq Uses(f),
         \A c \in Uses(f)' : c \in Uses(f) \/ c \notin held \union discarded \/ h2'[c] # "none",
         "retryFails" \notin Events => \A c \in held' : c \in Uses(f)' \/ c \in held \ Uses(f),
         CallOK(f)'
  PROVE  UseInv'
PROOF
<1>1. /\ call \in [Calls -> CallRecord] /\ inflight \subseteq Calls
      /\ \A g \in Calls : CallOK(g)
      /\ NeverShared
  BY DEF UseInv, CallsTyped
<1>2. \A g \in Calls \ {f} : call'[g] = call[g] /\ (g \in inflight' <=> g \in inflight)
  BY <1>1
<1>3. CallsTyped'
  BY <1>1 DEF CallsTyped
<1>4. \A g \in Calls \ {f} : Uses(g)' = Uses(g)
  BY <1>2 DEF Uses, At
<1>5. held \subseteq Conns /\ discarded \subseteq Conns /\ held \cap discarded = {}
  BY PoolSets DEF UseInv
<1>6. \A c \in held : h2[c] = "none"
  BY <1>5 DEF UseInv, Http2NotPooled, P!Known
<1>7. \A g \in Calls : \A c \in Uses(g) : c \in Conns /\ (h2[c] = "none" => c \in held \union discarded)
  BY <1>1, <1>5 DEF Uses, CallOK
<1>8. ASSUME NEW g \in Calls \ {f} PROVE CallOK(g)'
  <2>1. CallOK(g) /\ call'[g] = call[g] /\ (g \in inflight' <=> g \in inflight)
    BY <1>1, <1>2
  <2>2. ASSUME call[g].conn \in Uses(g), call[g].conn \in held PROVE call[g].conn \in held'
    <3>1. call[g].conn \notin Uses(f)
      BY <1>1, <1>6, <2>2 DEF NeverShared
    <3> QED
      BY <2>2, <3>1
  <2>3. At(g, {"sent"}) \/ g \in inflight => call[g].conn \in Uses(g)
    BY DEF Uses
  <2>4. CASE At(g, {"sent"}) \/ At(g, {"reopening"}) \/ At(g, {"shared", "first"})
    <3>1. g \notin inflight
      BY <2>1, <2>4 DEF CallOK, At
    <3> QED
      BY <2>1, <2>2, <2>3, <2>4, <3>1 DEF CallOK, At
  <2>5. CASE ~(At(g, {"sent"}) \/ At(g, {"reopening"}) \/ At(g, {"shared", "first"}))
    <3>1. CASE g \notin inflight
      BY <2>1, <2>5, <3>1 DEF CallOK, At
    <3>2. CASE g \in inflight
      <4>1. call[g].conn \in Conns /\ (h2'[call[g].conn] = "none" => h2[call[g].conn] = "none")
        BY <2>1, <3>2 DEF CallOK
      <4> QED
        BY <2>1, <2>2, <2>3, <2>5, <3>2, <4>1 DEF CallOK, At
    <3> QED
      BY <3>1, <3>2
  <2> QED
    BY <2>4, <2>5
<1>9. NeverShared'
  <2>1. ASSUME NEW g \in Calls \ {f}, NEW c \in Uses(f)' \cap Uses(g)', h2'[c] = "none" PROVE FALSE
    <3>1. c \in Uses(g) /\ c \in Conns
      BY <1>4, <1>7
    <3>2. h2[c] = "none"
      BY <2>1, <3>1
    <3>3. c \in held \union discarded
      BY <1>7, <3>1, <3>2
    <3>4. c \notin Uses(f)
      BY <1>1, <3>1, <3>2 DEF NeverShared
    <3> QED
      BY <2>1, <3>3, <3>4
  <2>2. ASSUME NEW g \in Calls \ {f}, NEW k \in Calls \ {f}, g # k,
               NEW c \in Uses(g)' \cap Uses(k)', h2'[c] = "none"
        PROVE  FALSE
    <3>1. c \in Uses(g) \cap Uses(k) /\ c \in Conns
      BY <1>4, <1>7
    <3>2. h2[c] = "none"
      BY <2>2, <3>1
    <3> QED
      BY <1>1, <2>2, <3>1, <3>2 DEF NeverShared
  <2>3. ASSUME NEW g \in Calls, NEW k \in Calls, g # k, NEW c \in Uses(g)' \cap Uses(k)', h2'[c] = "none"
        PROVE  FALSE
    BY <2>1, <2>2, <2>3
  <2> QED
    BY <2>3 DEF NeverShared
<1>10. ASSUME "retryFails" \notin Events PROVE NothingForgotten'
  <2>1. ASSUME NEW c \in held' PROVE \E g \in Calls : c \in Uses(g)'
    <3>1. CASE c \in Uses(f)'
      BY <3>1
    <3>2. CASE c \in held \ Uses(f)
      BY <1>4, <1>10, <3>2 DEF UseInv, NothingForgotten
    <3> QED
      BY <1>10, <3>1, <3>2
  <2> QED
    BY <2>1 DEF NothingForgotten
<1> QED
  BY <1>3, <1>8, <1>9, <1>10 DEF UseInv

\* A step that leaves the pool and the shared connections alone.
LEMMA Quiet ==
  ASSUME Registry, UseInv, NEW f \in Calls, NEW r \in CallRecord,
         call' = [call EXCEPT ![f] = r],
         inflight' = inflight \/ inflight' = inflight \union {f} \/ inflight' = inflight \ {f},
         UNCHANGED poolVars, UNCHANGED h2,
         \A c \in Uses(f)' : c \in Uses(f) \/ h2[c] # "none",
         \A c \in Uses(f) : c \in Uses(f)' \/ c \notin held,
         CallOK(f)'
  PROVE  UseInv' /\ PoolKept
PROOF
<1>1. PoolKept
  BY PoolAlone DEF UseInv
<1>2. held' = held
  BY DEF poolVars
<1>3. Http2NotPooled'
  BY <1>1 DEF UseInv, Http2NotPooled, PoolKept
<1> QED
  BY <1>1, <1>2, <1>3, OneCall DEF PoolKept

\* A step that uses the pool and leaves the shared connections alone.
LEMMA Pooled ==
  ASSUME Registry, UseInv, NEW f \in Calls, NEW r \in CallRecord,
         call' = [call EXCEPT ![f] = r],
         inflight' = inflight \/ inflight' = inflight \union {f} \/ inflight' = inflight \ {f},
         PoolKept, UNCHANGED h2,
         held \ held' \subseteq Uses(f),
         \A c \in Uses(f)' : c \in Uses(f) \/ c \notin held \union discarded,
         "retryFails" \notin Events => \A c \in held' : c \in Uses(f)' \/ c \in held \ Uses(f),
         CallOK(f)'
  PROVE  UseInv'
PROOF
<1>1. Http2NotPooled'
  BY DEF UseInv, Http2NotPooled, PoolKept
<1> QED
  BY <1>1, OneCall DEF PoolKept

\* Streams that fail with their connection are no business of the pool's.
LEMMA StreamsFail ==
  ASSUME Registry, UseInv, PoolKept, NEW gone, FailStreams(gone),
         \A c \in gone : c \in Conns /\ h2[c] # "none", UNCHANGED held,
         \A c \in Conns : h2'[c] = "none" <=> h2[c] = "none"
  PROVE  UseInv'
PROOF
<1>1. /\ call \in [Calls -> CallRecord] /\ inflight \subseteq Calls
      /\ \A g \in Calls : CallOK(g)
      /\ NeverShared
  BY DEF UseInv, CallsTyped
<1>2. /\ DOMAIN call' = Calls
      /\ \A g \in Calls : \/ call'[g] = call[g]
                          \/ At(g, {"shared", "first"}) /\ call'[g] = [call[g] EXCEPT !.at = "failed"]
  BY DEF FailStreams
<1>3. \A g \in Calls : /\ call'[g] \in CallRecord /\ call'[g].conn = call[g].conn
                       /\ call'[g] = call[g] \/ (At(g, {"shared", "first"}) /\ call'[g].at = "failed")
  BY <1>1, <1>2 DEF CallRecord, Places
<1>4. CallsTyped'
  <2>1. call' = [g \in Calls |-> call'[g]]
    BY DEF FailStreams
  <2> QED
    BY <1>1, <1>3, <2>1 DEF CallsTyped, FailStreams
<1>5. \A g \in Calls : g \in inflight' <=> g \in inflight /\ call[g].conn \notin gone
  BY <1>1 DEF FailStreams
<1>6. \A g \in Calls : At(g, {"shared", "first"}) => g \notin inflight
  BY <1>1 DEF CallOK, At
<1>7. \A g \in Calls : CallOK(g)'
  <2>1. ASSUME NEW g \in Calls, call'[g] = call[g] PROVE CallOK(g)'
    BY <1>1, <1>5, <2>1 DEF CallOK, At, PoolKept
  <2>2. ASSUME NEW g \in Calls, At(g, {"shared", "first"}), call'[g].at = "failed" PROVE CallOK(g)'
    BY <1>5, <1>6, <2>2 DEF CallOK, At
  <2> QED
    BY <1>3, <2>1, <2>2
<1>8. \A g \in Calls : Uses(g)' \subseteq Uses(g) /\ \A c \in Uses(g) : h2[c] = "none" => c \in Uses(g)'
  <2>1. ASSUME NEW g \in Calls, call'[g] = call[g]
        PROVE  Uses(g)' \subseteq Uses(g) /\ \A c \in Uses(g) : h2[c] = "none" => c \in Uses(g)'
    BY <1>5, <2>1 DEF Uses, At
  <2>2. ASSUME NEW g \in Calls, At(g, {"shared", "first"}), call'[g].at = "failed"
        PROVE  Uses(g)' = {} /\ Uses(g) = {}
    BY <1>5, <1>6, <2>2 DEF Uses, At
  <2> QED
    BY <1>3, <2>1, <2>2
<1>9. \A g \in Calls : Uses(g) \subseteq Conns
  BY <1>1, PoolSets DEF UseInv, Uses, CallOK
<1>10. NeverShared'
  <2>1. ASSUME NEW g \in Calls, NEW k \in Calls, g # k, NEW c \in Uses(g)' \cap Uses(k)', h2'[c] = "none"
        PROVE  FALSE
    <3>1. c \in Uses(g) \cap Uses(k) /\ c \in Conns /\ h2[c] = "none"
      BY <1>8, <1>9, <2>1
    <3> QED
      BY <1>1, <2>1, <3>1 DEF NeverShared
  <2> QED
    BY <2>1 DEF NeverShared
<1>11. Http2NotPooled'
  BY DEF UseInv, Http2NotPooled, PoolKept
<1>12. ASSUME "retryFails" \notin Events PROVE NothingForgotten'
  <2>1. \A c \in held : h2[c] = "none"
    BY PoolSets DEF UseInv, Http2NotPooled
  <2> QED
    BY <1>8, <1>12, <2>1 DEF UseInv, NothingForgotten
<1> QED
  BY <1>4, <1>7, <1>10, <1>11, <1>12 DEF UseInv, PoolKept

\* A call that sends its request moves to `place` with the connection it sends it on.
LEMMA SendFacts ==
  ASSUME CallsTyped, NEW f \in Calls, NEW place \in Places, NEW c \in Conns \union {NoConn},
         NEW pooled \in Conns \union {NoConn}, Send(f, place, c, pooled)
  PROVE  \E r \in CallRecord :
           /\ call' = [call EXCEPT ![f] = r] /\ call'[f] = r
           /\ r.at = place /\ r.conn = c /\ r.pooled = pooled
PROOF
<1> DEFINE r == [call[f] EXCEPT !.at = place, !.conn = c, !.pooled = pooled, !.seen = FALSE]
<1>1. call \in [Calls -> CallRecord]
  BY DEF CallsTyped
<1>2. r \in CallRecord /\ r.at = place /\ r.conn = c /\ r.pooled = pooled
  BY <1>1 DEF CallRecord
<1>3. call' = [call EXCEPT ![f] = r]
  BY DEF Send
<1> HIDE DEF r
<1>4. call'[f] = r
  BY <1>1, <1>3
<1> QED
  BY <1>2, <1>3, <1>4

\* A call that goes elsewhere keeps its connection.
LEMMA GotoFacts ==
  ASSUME CallsTyped, NEW f \in Calls, NEW place \in Places, Goto(f, place)
  PROVE  \E r \in CallRecord :
           /\ call' = [call EXCEPT ![f] = r] /\ call'[f] = r
           /\ r.at = place /\ r.conn = call[f].conn /\ r.pooled = call[f].pooled
PROOF
<1> DEFINE r == [call[f] EXCEPT !.at = place]
<1>1. call \in [Calls -> CallRecord]
  BY DEF CallsTyped
<1>2. r \in CallRecord /\ r.at = place /\ r.conn = call[f].conn /\ r.pooled = call[f].pooled
  BY <1>1 DEF CallRecord
<1>3. call' = [call EXCEPT ![f] = r]
  BY DEF Goto
<1> HIDE DEF r
<1>4. call'[f] = r
  BY <1>1, <1>3
<1> QED
  BY <1>2, <1>3, <1>4

\* What the invariant says of one call.
LEMMA CallFacts ==
  ASSUME UseInv, NEW f \in Calls
  PROVE  /\ CallsTyped /\ CallOK(f) /\ call[f] \in CallRecord
         /\ At(f, {"idle", "started", "opening", "sent", "reopening", "shared", "first"})
              => f \notin inflight
         /\ At(f, {"idle", "started", "opening", "reopening", "shared", "first"}) => Uses(f) = {}
         /\ At(f, {"sent"}) => /\ Uses(f) = {call[f].conn}
                               /\ call[f].conn \in held /\ call[f].conn \in Conns
                               /\ h2[call[f].conn] = "none" /\ KeyOf[call[f].conn] = CallKey[f]
PROOF
<1>1. CallsTyped /\ CallOK(f) /\ call[f] \in CallRecord
  BY DEF UseInv, CallsTyped
<1>2. At(f, {"idle", "started", "opening", "sent", "reopening", "shared", "first"}) => f \notin inflight
  BY <1>1 DEF CallOK, At
<1>3. At(f, {"idle", "started", "opening", "reopening", "shared", "first"}) => Uses(f) = {}
  BY <1>2 DEF Uses, At
<1>4. At(f, {"sent"}) => /\ Uses(f) = {call[f].conn} /\ call[f].conn \in held
                         /\ KeyOf[call[f].conn] = CallKey[f]
  BY <1>1 DEF Uses, CallOK
<1>5. \A c \in held : c \in Conns /\ h2[c] = "none"
  BY PoolSets DEF UseInv, Http2NotPooled
<1> QED
  BY <1>1, <1>2, <1>3, <1>4, <1>5

\* A fresh HTTP/1.1 connection carries the request of the call that opened it.
LEMMA OpensAndSends ==
  ASSUME Registry, UseInv, NEW f \in Calls, NEW c \in Conns, Opens(f, c),
         held' = held \union {c}, UNCHANGED <<idle, total, poolClosed, discarded, inflight, h2>>,
         NEW pooled \in Conns \union {NoConn}, pooled = NoConn \/ pooled \in discarded,
         Send(f, "sent", c, pooled), At(f, {"opening", "reopening"})
  PROVE  UseInv' /\ P!Next
PROOF
<1>1. /\ KeyOf[c] = CallKey[f] /\ h2[c] = "none"
      /\ c \notin held \union discarded \union P!IdleConns
  BY OpensFresh, SamePool
<1>2. P!Open(c)
  BY <1>1 DEF P!Open, P!poolVars
<1>3. P!Next
  BY <1>2 DEF P!Next
<1>4. P!PoolInv'
  BY <1>3, PoolParameters, P!PoolInvNext DEF UseInv
<1>5. P!Known' = P!Known \union {c}
  BY DEF P!Known, P!IdleConns, P!Listed
<1>6. Http2NotPooled'
  BY <1>1, <1>5 DEF UseInv, Http2NotPooled
<1>7. f \notin inflight /\ Uses(f) = {} /\ CallsTyped
  BY CallFacts DEF At
<1>8. PICK r \in CallRecord :
        /\ call' = [call EXCEPT ![f] = r] /\ call'[f] = r
        /\ r.at = "sent" /\ r.conn = c /\ r.pooled = pooled
  BY <1>7, SendFacts DEF Places
<1>9. CallOK(f)' /\ Uses(f)' = {c}
  BY <1>1, <1>7, <1>8 DEF CallOK, Uses, At
<1>10. UseInv'
  BY <1>1, <1>4, <1>6, <1>7, <1>8, <1>9, OneCall
<1> QED
  BY <1>3, <1>10

\* A call that holds nothing takes a pooled connection, or goes to open one.
LEMMA UseTakeOrOpen ==
  ASSUME Registry, UseInv, NEW f \in Calls, At(f, {"started", "shared"}), TakeOrOpen(f)
  PROVE  UseInv' /\ PoolKept
PROOF
<1>1. f \notin inflight /\ Uses(f) = {} /\ CallsTyped /\ NoConn \in Conns \union {NoConn}
  BY CallFacts DEF At
<1>2. ASSUME Goto(f, "failed"), UNCHANGED poolVars PROVE UseInv' /\ PoolKept
  <2>1. PICK r \in CallRecord : call' = [call EXCEPT ![f] = r] /\ call'[f] = r /\ r.at = "failed"
    BY <1>1, <1>2, GotoFacts DEF Places
  <2>2. UNCHANGED <<inflight, h2>>
    BY DEF TakeOrOpen, h2Vars
  <2>3. CallOK(f)' /\ Uses(f)' = {}
    BY <1>1, <2>1, <2>2 DEF CallOK, Uses, At
  <2> QED
    BY <1>1, <1>2, <2>1, <2>2, <2>3, Quiet
<1>3. ASSUME NEW c \in Conns, Pool!TakeHit(CallKey[f], c), held' = held \union {c}, Send(f, "sent", c, c)
      PROVE  UseInv' /\ PoolKept
  <2>1. PoolKept /\ c \in P!IdleConns /\ KeyOf[c] = CallKey[f]
    BY <1>3, Taken DEF UseInv
  <2>2. c \notin held \union discarded
    BY <2>1, PoolSets DEF UseInv
  <2>3. PICK r \in CallRecord :
          /\ call' = [call EXCEPT ![f] = r] /\ call'[f] = r
          /\ r.at = "sent" /\ r.conn = c /\ r.pooled = c
    BY <1>1, <1>3, SendFacts DEF Places
  <2>4. UNCHANGED <<inflight, h2>>
    BY DEF TakeOrOpen, h2Vars
  <2>5. CallOK(f)' /\ Uses(f)' = {c}
    BY <1>1, <1>3, <2>1, <2>3, <2>4 DEF CallOK, Uses, At
  <2>6. UseInv'
    BY <1>1, <1>3, <2>1, <2>2, <2>3, <2>4, <2>5, Pooled
  <2> QED
    BY <2>1, <2>6
<1>4. ASSUME Pool!TakeMiss(CallKey[f]), Send(f, "opening", NoConn, NoConn), UNCHANGED held
      PROVE  UseInv' /\ PoolKept
  <2>1. PICK r \in CallRecord : call' = [call EXCEPT ![f] = r] /\ call'[f] = r /\ r.at = "opening"
    BY <1>1, <1>4, SendFacts DEF Places
  <2>2. UNCHANGED <<inflight, h2>> /\ UNCHANGED poolVars
    BY <1>4 DEF TakeOrOpen, h2Vars, Pool!TakeMiss, Pool!poolVars, poolVars
  <2>3. CallOK(f)' /\ Uses(f)' = {}
    BY <1>1, <2>1, <2>2 DEF CallOK, Uses, At
  <2> QED
    BY <1>1, <2>1, <2>2, <2>3, Quiet
<1> QED
  BY <1>2, <1>3, <1>4 DEF TakeOrOpen

\* A call that waits for something else than a head over HTTP/1.1 and moves on
\* without touching the pool.
LEMMA UseQuietStep ==
  ASSUME Registry, UseInv, NEW f \in Calls,
         \/ Fetch(f) \/ OpenFails(f) \/ HeadWithBody(f) \/ Http2Head(f) \/ Http2Fails(f)
         \/ Return(f) \/ DispatchShared(f) \/ ServerActs(f) \/ Http2BodySettles(f)
  PROVE  UseInv' /\ PoolKept
PROOF
<1>1. /\ CallsTyped /\ CallOK(f) /\ call[f] \in CallRecord
      /\ call \in [Calls -> CallRecord] /\ inflight \subseteq Calls
  BY CallFacts DEF CallsTyped
<1>2. ASSUME NEW place \in {"started", "failed"}, Goto(f, place), inflight' = inflight,
             UNCHANGED poolVars, UNCHANGED h2, At(f, {"idle", "opening", "reopening", "shared", "first"})
      PROVE  UseInv' /\ PoolKept
  <2>1. PICK r \in CallRecord : call' = [call EXCEPT ![f] = r] /\ call'[f] = r /\ r.at = place
    BY <1>1, <1>2, GotoFacts DEF Places
  <2>2. f \notin inflight /\ Uses(f) = {}
    BY <1>2, CallFacts DEF At
  <2>3. CallOK(f)' /\ Uses(f)' = {}
    BY <1>2, <2>1, <2>2 DEF CallOK, Uses, At
  <2> QED
    BY <1>2, <2>1, <2>2, <2>3, Quiet
<1>3. CASE Fetch(f)
  BY <1>2, <1>3 DEF Fetch, At, h2Vars
<1>4. CASE OpenFails(f)
  BY <1>2, <1>4 DEF OpenFails, At, h2Vars
<1>5. CASE HeadWithBody(f)
  <2>1. PICK r \in CallRecord :
          call' = [call EXCEPT ![f] = r] /\ call'[f] = r /\ r.at = "head" /\ r.conn = call[f].conn
    BY <1>1, <1>5, GotoFacts DEF HeadWithBody, Places
  <2>2. /\ inflight' = inflight \union {f} /\ UNCHANGED poolVars /\ UNCHANGED h2 /\ UNCHANGED held
        /\ Uses(f) = {call[f].conn} /\ call[f].conn \in held /\ call[f].conn \in Conns
        /\ KeyOf[call[f].conn] = CallKey[f]
    BY <1>5, CallFacts DEF HeadWithBody, h2Vars, poolVars
  <2>3. CallOK(f)' /\ Uses(f)' = {call[f].conn}
    BY <2>1, <2>2 DEF CallOK, Uses, At
  <2> QED
    BY <2>1, <2>2, <2>3, Quiet
<1>6. ASSUME NEW place \in {"head", "failed"}, Goto(f, place), At(f, {"shared", "first"}),
             inflight' = inflight \/ inflight' = inflight \union {f},
             UNCHANGED poolVars, UNCHANGED h2
      PROVE  UseInv' /\ PoolKept
  <2>1. PICK r \in CallRecord :
          call' = [call EXCEPT ![f] = r] /\ call'[f] = r /\ r.at = place /\ r.conn = call[f].conn
    BY <1>1, <1>6, GotoFacts DEF Places
  <2>2. f \notin inflight /\ Uses(f) = {} /\ call[f].conn \in Conns /\ h2[call[f].conn] # "none"
    BY <1>1, <1>6, CallFacts DEF CallOK, At
  <2>3. CallOK(f)' /\ \A c \in Uses(f)' : h2[c] # "none"
    BY <1>6, <2>1, <2>2 DEF CallOK, Uses, At
  <2> QED
    BY <1>6, <2>1, <2>2, <2>3, Quiet
<1>7. CASE Http2Head(f) \/ Http2Fails(f)
  <2>1. \E place \in {"head", "failed"} : Goto(f, place)
    BY <1>7 DEF Http2Head, Http2Fails
  <2> QED
    BY <1>6, <1>7, <2>1 DEF Http2Head, Http2Fails, h2Vars
<1>8. CASE Return(f)
  <2>1. PICK r \in CallRecord :
          call' = [call EXCEPT ![f] = r] /\ call'[f] = r /\ r.at = "returned" /\ r.conn = call[f].conn
    BY <1>1, <1>8, GotoFacts DEF Return, Places
  <2>2. /\ inflight' = inflight /\ UNCHANGED poolVars /\ UNCHANGED h2
        /\ UNCHANGED <<held, discarded>> /\ call[f].at = "head"
    BY <1>8 DEF Return, At, h2Vars, poolVars
  <2>3. CallOK(f)' /\ Uses(f)' = Uses(f)
    BY <1>1, <2>1, <2>2 DEF CallOK, Uses, At
  <2> QED
    BY <2>1, <2>2, <2>3, Quiet
<1>9. CASE DispatchShared(f)
  <2> DEFINE c == h2map[CallKey[f]]
  <2>1. c \in Conns /\ h2[c] = "live"
    BY <1>9, ExchangeAssumption DEF DispatchShared, CanDispatch, Registry, RegistryTypeOK
  <2>2. /\ Send(f, "shared", c, NoConn) /\ At(f, {"started"})
        /\ UNCHANGED poolVars /\ UNCHANGED h2 /\ inflight' = inflight
    BY <1>9 DEF DispatchShared, h2Vars
  <2> HIDE DEF c
  <2>3. PICK r \in CallRecord :
          call' = [call EXCEPT ![f] = r] /\ call'[f] = r /\ r.at = "shared" /\ r.conn = c
    BY <1>1, <2>1, <2>2, SendFacts DEF Places
  <2>4. f \notin inflight /\ Uses(f) = {}
    BY <2>2, CallFacts DEF At
  <2>5. CallOK(f)' /\ Uses(f)' = {}
    BY <2>1, <2>2, <2>3, <2>4 DEF CallOK, Uses, At
  <2> QED
    BY <2>2, <2>3, <2>4, <2>5, Quiet
<1>10. CASE ServerActs(f)
  <2> DEFINE r == [call[f] EXCEPT !.seen = TRUE]
  <2>1. /\ r \in CallRecord /\ r.at = call[f].at /\ r.conn = call[f].conn
        /\ r.pooled = call[f].pooled
    BY <1>1 DEF CallRecord
  <2>2. /\ call' = [call EXCEPT ![f] = r]
        /\ UNCHANGED poolVars /\ UNCHANGED h2 /\ inflight' = inflight
        /\ UNCHANGED <<held, discarded>>
    BY <1>10 DEF ServerActs, h2Vars, poolVars
  <2> HIDE DEF r
  <2>3. call'[f] = r
    BY <1>1, <2>2
  <2>4. CallOK(f)' /\ Uses(f)' = Uses(f)
    BY <1>1, <2>1, <2>2, <2>3 DEF CallOK, Uses, At
  <2> QED
    BY <2>1, <2>2, <2>4, Quiet
<1>11. CASE Http2BodySettles(f)
  <2>1. /\ call' = call /\ UNCHANGED poolVars /\ UNCHANGED h2 /\ UNCHANGED held
        /\ inflight' = inflight \ {f} /\ f \in inflight /\ h2[call[f].conn] # "none"
    BY <1>11 DEF Http2BodySettles, h2Vars, poolVars
  <2>2. ~At(f, {"sent", "reopening", "shared", "first"}) /\ Uses(f) = {call[f].conn}
    BY <1>1, <2>1 DEF CallOK, Uses, At
  <2>3. CallOK(f)' /\ Uses(f)' = {}
    BY <2>1, <2>2 DEF CallOK, Uses, At
  <2>4. call[f].conn \notin held
    BY <2>1, PoolSets DEF UseInv, Http2NotPooled
  <2>5. call' = [call EXCEPT ![f] = call[f]]
    BY <1>1, <2>1
  <2> QED
    BY <1>1, <2>1, <2>2, <2>3, <2>4, <2>5, Quiet
<1> QED
  BY <1>3, <1>4, <1>5, <1>7, <1>8, <1>9, <1>10, <1>11

\* The catch clauses discard what the call holds, or what it has discarded before.
LEMMA UseThrow ==
  ASSUME Registry, UseInv, NEW f \in Calls, At(f, {"sent"}), Throw(f)
  PROVE  /\ PoolKept
         /\ held \ held' \subseteq {call[f].conn}
         /\ call[f].conn \in held' \/ call[f].conn \in discarded'
         /\ ~Retried(f) => held' = held \ {call[f].conn}
PROOF
<1> DEFINE d == Discards(f)
<1>1. /\ CallOK(f) /\ call[f].conn \in held
  BY CallFacts
<1>2. /\ NoConn \notin discarded /\ held \cap discarded = {}
  BY PoolSets DEF UseInv
<1>3. /\ d = call[f].conn \/ d \in discarded
      /\ ~Retried(f) => d = call[f].conn
  BY <1>1, <1>2 DEF Discards, Retried, CallOK
<1>4. Pool!DiscardConn(d) /\ held' = held \ {d}
  BY DEF Throw
<1> HIDE DEF d
<1>5. PoolKept
  BY <1>1, <1>3, <1>4, Discarded DEF UseInv
<1>6. discarded' = discarded \union {d}
  BY <1>4 DEF Pool!DiscardConn
<1> QED
  BY <1>1, <1>2, <1>3, <1>4, <1>5, <1>6

\* A call that awaits the head of a response over HTTP/1.1 gets one, or does not.
LEMMA UseSentStep ==
  ASSUME Registry, UseInv, NEW f \in Calls,
         HeadWithoutBody(f) \/ CodingRefused(f) \/ RetryFresh(f) \/ HeadFails(f)
  PROVE  UseInv' /\ PoolKept
PROOF
<1> DEFINE c == call[f].conn
<1>1. /\ CallsTyped /\ CallOK(f) /\ f \notin inflight /\ Uses(f) = {c}
      /\ c \in held /\ c \in Conns /\ h2[c] = "none" /\ KeyOf[c] = CallKey[f]
  <2>1. At(f, {"sent"})
    BY DEF HeadWithoutBody, CodingRefused, RetryFresh, HeadFails
  <2> QED
    BY <2>1, CallFacts DEF At
<1>2. UNCHANGED h2
  BY DEF HeadWithoutBody, CodingRefused, RetryFresh, HeadFails, h2Vars
<1>3. CASE HeadWithoutBody(f)
  <2>1. PICK eligible \in BOOLEAN : GiveBack(f, eligible)
    BY <1>3 DEF HeadWithoutBody
  <2>2. PoolKept /\ held' = held \ {c}
    BY <1>1, <2>1, GivenBack DEF UseInv, GiveBack
  <2>3. PICK r \in CallRecord : call' = [call EXCEPT ![f] = r] /\ call'[f] = r /\ r.at = "head"
    BY <1>1, <1>3, GotoFacts DEF HeadWithoutBody, Places
  <2>4. inflight' = inflight
    BY <1>3 DEF HeadWithoutBody
  <2>5. CallOK(f)' /\ Uses(f)' = {}
    BY <1>1, <2>3, <2>4 DEF CallOK, Uses, At
  <2> HIDE DEF c
  <2> QED
    BY <1>1, <1>2, <2>2, <2>3, <2>4, <2>5, Pooled
<1>4. CASE CodingRefused(f)
  <2>1. Throw(f) /\ At(f, {"sent"}) /\ Goto(f, "failed") /\ inflight' = inflight \union {f}
    BY <1>4 DEF CodingRefused, Throw
  <2>2. PICK r \in CallRecord :
          call' = [call EXCEPT ![f] = r] /\ call'[f] = r /\ r.at = "failed" /\ r.conn = c
    BY <1>1, <2>1, GotoFacts DEF Places
  <2>3. /\ PoolKept /\ held \ held' \subseteq {c} /\ held' \subseteq held
        /\ c \in held' \/ c \in discarded'
    BY <2>1, UseThrow DEF Throw
  <2>4. CallOK(f)' /\ Uses(f)' = {c}
    BY <1>1, <1>2, <2>1, <2>2, <2>3 DEF CallOK, Uses, At
  <2> HIDE DEF c
  <2>5. held \ held' \subseteq Uses(f) /\ \A d \in held' : d \in Uses(f)' \/ d \in held \ Uses(f)
    BY <1>1, <2>3, <2>4
  <2>6. \A d \in Uses(f)' : d \in Uses(f)
    BY <1>1, <2>4
  <2>7. UseInv'
    BY <1>2, <2>1, <2>2, <2>3, <2>4, <2>5, <2>6, Pooled
  <2> QED
    BY <2>3, <2>7
<1>5. CASE RetryFresh(f)
  <2>1. /\ call[f].pooled = c /\ Pool!DiscardConn(c) /\ held' = held \ {c}
        /\ Goto(f, "reopening") /\ inflight' = inflight
    BY <1>5 DEF RetryFresh
  <2>2. PICK r \in CallRecord :
          /\ call' = [call EXCEPT ![f] = r] /\ call'[f] = r
          /\ r.at = "reopening" /\ r.pooled = c
    BY <1>1, <2>1, GotoFacts DEF Places
  <2>3. PoolKept /\ c \in discarded'
    BY <1>1, <2>1, Discarded DEF UseInv, Pool!DiscardConn
  <2>4. CallOK(f)' /\ Uses(f)' = {}
    BY <1>1, <2>1, <2>2, <2>3 DEF CallOK, Uses, At
  <2> HIDE DEF c
  <2> QED
    BY <1>1, <1>2, <2>1, <2>2, <2>3, <2>4, Pooled
<1>6. CASE HeadFails(f)
  <2>1. /\ Throw(f) /\ At(f, {"sent"}) /\ Goto(f, "failed") /\ inflight' = inflight
        /\ Retried(f) => "retryFails" \in Events
    BY <1>6 DEF HeadFails, Throw
  <2>2. PICK r \in CallRecord : call' = [call EXCEPT ![f] = r] /\ call'[f] = r /\ r.at = "failed"
    BY <1>1, <2>1, GotoFacts DEF Places
  <2>3. PoolKept /\ held \ held' \subseteq {c} /\ (~Retried(f) => held' = held \ {c})
    BY <2>1, UseThrow
  <2>4. CallOK(f)' /\ Uses(f)' = {}
    BY <1>1, <2>1, <2>2 DEF CallOK, Uses, At
  <2> HIDE DEF c
  <2>5. "retryFails" \notin Events => held' = held \ {c}
    BY <2>1, <2>3
  <2> QED
    BY <1>1, <1>2, <2>1, <2>2, <2>3, <2>4, <2>5, Pooled
<1> QED
  BY <1>3, <1>4, <1>5, <1>6

\* A body that settles gives its connection back, once.
LEMMA UseBodySettles ==
  ASSUME "refused" \notin Events, Registry, UseInv, NEW f \in Calls, BodySettles(f)
  PROVE  UseInv' /\ PoolKept
PROOF
<1> DEFINE c == call[f].conn
<1>1. PICK eligible \in BOOLEAN :
        /\ f \in inflight /\ h2[c] = "none" /\ GiveBack(f, eligible)
        /\ eligible => ~At(f, {"failed"})
        /\ inflight' = inflight \ {f} /\ call' = call /\ UNCHANGED h2
  BY DEF BodySettles, h2Vars
<1>2. /\ CallOK(f) /\ call[f] \in CallRecord /\ call \in [Calls -> CallRecord]
  BY CallFacts DEF CallsTyped
<1>3. /\ At(f, {"head", "returned", "failed"}) /\ c \in Conns /\ KeyOf[c] = CallKey[f]
      /\ c \in held \/ (At(f, {"failed"}) /\ c \in discarded)
      /\ Uses(f) = {c}
  BY <1>1, <1>2 DEF CallOK, Uses
<1>4. PoolKept
  <2>1. CASE c \in held
    BY <1>1, <1>3, <2>1, GivenBack DEF UseInv
  <2>2. CASE c \in discarded /\ ~eligible
    <3>1. Pool!DiscardConn(c) /\ held' = held \ {c}
      BY <1>1, <2>2 DEF GiveBack, Pool!ReleaseConn
    <3> QED
      BY <2>2, <3>1, Discarded DEF UseInv
  <2> QED
    BY <1>1, <1>3, <2>1, <2>2
<1>5. CallOK(f)' /\ Uses(f)' = {}
  BY <1>1, <1>3 DEF CallOK, Uses, At
<1>6. held' = held \ {c}
  BY <1>1 DEF GiveBack
<1>7. call' = [call EXCEPT ![f] = call[f]]
  BY <1>1, <1>2
<1> HIDE DEF c
<1>8. UseInv'
  BY <1>1, <1>2, <1>3, <1>4, <1>5, <1>6, <1>7, Pooled
<1> QED
  BY <1>4, <1>8

\* The body of a redirect is cancelled: its connection is closed, not reused.
LEMMA UseRedirect ==
  ASSUME Registry, UseInv, NEW f \in Calls, Redirect(f)
  PROVE  UseInv' /\ PoolKept
PROOF
<1> DEFINE c == call[f].conn
           r == [call[f] EXCEPT !.at = "started", !.hops = call[f].hops + 1]
<1>1. /\ CallOK(f) /\ call[f] \in CallRecord /\ call \in [Calls -> CallRecord]
  BY CallFacts DEF CallsTyped
<1>2. r \in CallRecord /\ r.at = "started"
  <2>1. call[f].hops \in Nat /\ call[f].hops + 1 \in Nat /\ "started" \in Places
    BY <1>1 DEF CallRecord, Places
  <2>2. r \in CallRecord
    BY <1>1, <2>1 DEF CallRecord
  <2>3. DOMAIN call[f] = {"at", "conn", "pooled", "seen", "hops"}
    BY <1>1 DEF CallRecord
  <2> QED
    BY <2>2, <2>3
<1>3. /\ call' = [call EXCEPT ![f] = r] /\ inflight' = inflight \ {f} /\ UNCHANGED h2
      /\ At(f, {"head"})
  BY DEF Redirect, h2Vars
<1> HIDE DEF r
<1>4. call'[f] = r
  BY <1>1, <1>3
<1>5. CallOK(f)' /\ Uses(f)' = {}
  BY <1>2, <1>3, <1>4 DEF CallOK, Uses, At
<1>6. Uses(f) = IF f \in inflight THEN {c} ELSE {}
  BY <1>3 DEF Uses, At
<1>7. CASE f \in inflight /\ h2[c] = "none"
  <2>1. GiveBack(f, FALSE) /\ c \in held /\ KeyOf[c] = CallKey[f]
    BY <1>1, <1>3, <1>7 DEF Redirect, CallOK, At
  <2>2. PoolKept /\ held' = held \ {c}
    BY <2>1, GivenBack DEF UseInv, GiveBack
  <2> HIDE DEF c
  <2> QED
    BY <1>2, <1>3, <1>5, <1>6, <1>7, <2>2, Pooled
<1>8. CASE ~(f \in inflight /\ h2[c] = "none")
  <2>1. UNCHANGED poolVars
    BY <1>8 DEF Redirect
  <2>2. \A d \in Uses(f) : d \notin held
    BY <1>6, <1>8, PoolSets DEF UseInv, Http2NotPooled
  <2> HIDE DEF c
  <2> QED
    BY <1>2, <1>3, <1>5, <2>1, <2>2, Quiet
<1> QED
  BY <1>7, <1>8

\* The first stream of a connection that chose HTTP/2: the pool never sees it.
LEMMA UseOpenedHttp2 ==
  ASSUME Registry, UseInv, NEW f \in Calls, OpenedHttp2(f)
  PROVE  UseInv' /\ PoolKept
PROOF
<1>1. PICK c \in Conns :
        /\ At(f, {"opening"}) /\ Opens(f, c) /\ h2' = [h2 EXCEPT ![c] = "live"]
        /\ Send(f, "first", c, NoConn)
        /\ UNCHANGED poolVars /\ UNCHANGED held /\ inflight' = inflight
  BY DEF OpenedHttp2, poolVars
<1>2. h2[c] = "none" /\ c \notin P!Known
  BY <1>1, OpensFresh, SamePool DEF P!Known
<1>3. /\ h2'[c] = "live" /\ \A d \in Conns \ {c} : h2'[d] = h2[d]
  BY <1>1 DEF Registry, RegistryTypeOK
<1>4. PoolKept
  BY <1>1, PoolAlone DEF UseInv
<1>5. Http2NotPooled'
  BY <1>2, <1>3, <1>4 DEF UseInv, Http2NotPooled, PoolKept
<1>6. f \notin inflight /\ Uses(f) = {} /\ CallsTyped
  BY <1>1, CallFacts DEF At
<1>7. PICK r \in CallRecord :
        call' = [call EXCEPT ![f] = r] /\ call'[f] = r /\ r.at = "first" /\ r.conn = c
  BY <1>1, <1>6, SendFacts DEF Places
<1>8. CallOK(f)' /\ Uses(f)' = {}
  BY <1>1, <1>3, <1>6, <1>7 DEF CallOK, Uses, At
<1>9. \A d \in Conns : h2'[d] = h2[d] \/ (h2[d] = "none" /\ h2'[d] # "none")
  BY <1>2, <1>3
<1>10. UseInv'
  BY <1>1, <1>4, <1>5, <1>6, <1>7, <1>8, <1>9, OneCall DEF PoolKept
<1> QED
  BY <1>4, <1>10

\* Every step keeps the invariant, and is a step of the pool or none of its business.
LEMMA UseStep ==
  ASSUME "refused" \notin Events, Registry, UseInv, [Next]_vars
  PROVE  UseInv' /\ (P!Next \/ UNCHANGED P!vars)
PROOF
<1>1. ASSUME NEW f \in Calls, Step(f) PROVE UseInv' /\ (P!Next \/ UNCHANGED P!vars)
  <2>1. CASE \/ Fetch(f) \/ OpenFails(f) \/ HeadWithBody(f) \/ Http2Head(f) \/ Http2Fails(f)
             \/ Return(f) \/ DispatchShared(f) \/ ServerActs(f) \/ Http2BodySettles(f)
    BY <2>1, UseQuietStep DEF PoolKept
  <2>2. CASE HeadWithoutBody(f) \/ CodingRefused(f) \/ RetryFresh(f) \/ HeadFails(f)
    BY <2>2, UseSentStep DEF PoolKept
  <2>3. CASE Dispatch(f) \/ Http2Retry(f)
    <3>1. TakeOrOpen(f) /\ At(f, {"started", "shared"})
      BY <2>3 DEF Dispatch, Http2Retry, At
    <3> QED
      BY <3>1, UseTakeOrOpen DEF PoolKept
  <2>4. CASE OpenedHttp1(f)
    BY <2>4, OpensAndSends DEF OpenedHttp1, At, h2Vars
  <2>5. CASE Reopened(f)
    <3>1. CallOK(f) /\ call[f].pooled \in Conns \union {NoConn} /\ At(f, {"reopening"})
      BY <2>5, CallFacts DEF Reopened, CallRecord
    <3>2. call[f].pooled \in discarded
      BY <3>1 DEF CallOK
    <3> QED
      BY <2>5, <3>1, <3>2, OpensAndSends DEF Reopened, At, h2Vars
  <2>6. CASE OpenedHttp2(f)
    BY <2>6, UseOpenedHttp2 DEF PoolKept
  <2>7. CASE BodySettles(f)
    BY <2>7, UseBodySettles DEF PoolKept
  <2>8. CASE Redirect(f)
    BY <2>8, UseRedirect DEF PoolKept
  <2> QED
    BY <1>1, <2>1, <2>2, <2>3, <2>4, <2>5, <2>6, <2>7, <2>8 DEF Step
<1>2. ASSUME NEW c \in Conns, Goaway(c) PROVE UseInv' /\ (P!Next \/ UNCHANGED P!vars)
  <2>1. /\ UNCHANGED poolVars /\ UNCHANGED held /\ call' = call /\ inflight' = inflight
        /\ h2[c] = "live" /\ h2' = [h2 EXCEPT ![c] = "goaway"]
    BY <1>2 DEF Goaway, poolVars
  <2>2. FailStreams({})
    BY <2>1 DEF FailStreams, UseInv, CallsTyped
  <2>3. \A d \in Conns : h2'[d] = "none" <=> h2[d] = "none"
    BY <2>1 DEF Registry, RegistryTypeOK
  <2>4. PoolKept
    BY <2>1, PoolAlone DEF UseInv
  <2> QED
    BY <2>1, <2>2, <2>3, <2>4, StreamsFail DEF PoolKept
<1>3. ASSUME NEW c \in Conns, Http2Dies(c) PROVE UseInv' /\ (P!Next \/ UNCHANGED P!vars)
  <2>1. /\ UNCHANGED poolVars /\ UNCHANGED held /\ FailStreams({c})
        /\ h2[c] \in {"live", "goaway"} /\ h2' = [h2 EXCEPT ![c] = "dead"]
    BY <1>3 DEF Http2Dies, poolVars
  <2>2. \A d \in Conns : h2'[d] = "none" <=> h2[d] = "none"
    BY <2>1 DEF Registry, RegistryTypeOK
  <2>3. PoolKept
    BY <2>1, PoolAlone DEF UseInv
  <2> QED
    BY <2>1, <2>2, <2>3, StreamsFail DEF PoolKept
<1>4. CASE Close
  <2>1. Pool!CloseAllConns /\ UNCHANGED held /\ FailStreams(h2conns)
    BY <1>4 DEF Close
  <2>2. P!Next
    BY <2>1, SamePool DEF P!Next, P!CloseAll
  <2>3. PoolKept
    BY <2>1, <2>2, PoolSteps DEF UseInv
  <2>4. \A c \in h2conns : c \in Conns /\ h2[c] # "none"
    BY DEF Registry, RegistryTypeOK, RegistrySound
  <2>5. \A d \in Conns : h2'[d] = "none" <=> h2[d] = "none"
    BY <1>4, <2>4 DEF Close
  <2> QED
    BY <2>1, <2>3, <2>4, <2>5, StreamsFail DEF PoolKept
<1>5. CASE UNCHANGED vars
  <2>1. /\ UNCHANGED poolVars /\ UNCHANGED held /\ call' = call /\ inflight' = inflight /\ h2' = h2
    BY <1>5 DEF vars, poolVars, h2Vars
  <2>2. FailStreams({})
    BY <2>1 DEF FailStreams, UseInv, CallsTyped
  <2>3. PoolKept
    BY <2>1, PoolAlone DEF UseInv
  <2> QED
    BY <2>1, <2>2, <2>3, StreamsFail DEF PoolKept
<1> QED
  BY <1>1, <1>2, <1>3, <1>4, <1>5 DEF Next

\* Nobody has called the client yet.
LEMMA UseInit == Init => P!Init /\ UseInv
PROOF
<1> SUFFICES ASSUME Init PROVE P!Init /\ UseInv
  OBVIOUS
<1>1. P!Init
  BY SamePool DEF Init
<1>2. P!PoolInv
  BY <1>1, PoolParameters, P!PoolInvInit
<1>3. CallsTyped
  BY DEF Init, CallsTyped, CallRecord, Idle, Places
<1>4. \A f \in Calls : CallOK(f) /\ Uses(f) = {}
  BY DEF Init, CallOK, Uses, At, Idle
<1>5. Http2NotPooled
  BY DEF Init, Http2NotPooled
<1>6. held = {}
  BY <1>1 DEF P!Init
<1>7. NeverShared /\ NothingForgotten
  BY <1>4, <1>6 DEF NeverShared, NothingForgotten
<1> QED
  BY <1>1, <1>2, <1>3, <1>4, <1>5, <1>7 DEF UseInv

\* The invariant holds in every state of a client none of whose bodies is "refused".
LEMMA UseHolds == "refused" \notin Events => (Spec => [](Registry /\ UseInv))
PROOF
<1> SUFFICES ASSUME "refused" \notin Events PROVE Spec => [](Registry /\ UseInv)
  OBVIOUS
<1>1. Init => UseInv
  BY UseInit
<1>2. Registry /\ UseInv /\ [Next]_vars => UseInv'
  BY UseStep
<1> QED
  BY <1>1, <1>2, RegistryHolds, PTL DEF Spec

(***************************************************************************)
(* The client is a caller the theorems of ConnectionPool are about, on     *)
(* every path of exchange(), openFreshAndSend() and sendAndReceive(): it   *)
(* releases and discards only what it holds, under the key it was opened   *)
(* for, once.  The exception is "refused" (decodeResponseBody throws after *)
(* `completed` was wired to the pool, and the body ends all the same).     *)
(***************************************************************************)
THEOREM ClientPoolContract == "refused" \notin Events => (Spec => PoolContract)
PROOF
<1> SUFFICES ASSUME "refused" \notin Events PROVE Spec => PoolContract
  OBVIOUS
<1>1. Init => Pool!Init
  BY DEF Init
<1>2. Registry /\ UseInv /\ [Next]_vars => [Pool!Next]_(Pool!vars)
  <2>1. UNCHANGED P!vars => UNCHANGED Pool!vars
    BY DEF P!vars, Pool!vars
  <2> QED
    BY <2>1, UseStep, SameNext
<1> QED
  BY <1>1, <1>2, UseHolds, PTL DEF Spec, PoolContract, Pool!Spec

(***************************************************************************)
(* Every connection is accounted for: no two requests share one over       *)
(* HTTP/1.1, one that was taken or opened is in use by a call, what is     *)
(* registered under a key may be dispatched to and is tracked, what is     *)
(* tracked is open, and what may be dispatched to is tracked.  Nothing is  *)
(* said of who tracks a connection that the peer is retiring.  The         *)
(* exceptions are "refused", and the failure of a retry ("retryFails": the *)
(* connection it opened is never discarded).                               *)
(***************************************************************************)
THEOREM ClientAccounted == {"refused", "retryFails"} \cap Events = {} => (Spec => []Accounted)
PROOF
<1> SUFFICES ASSUME "refused" \notin Events, "retryFails" \notin Events PROVE Spec => []Accounted
  OBVIOUS
<1>1. Registry /\ UseInv => Accounted
  BY DEF Registry, UseInv, Accounted
<1> QED
  BY <1>1, UseHolds, PTL
=============================================================================
