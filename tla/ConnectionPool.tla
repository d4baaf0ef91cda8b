--------------------------- MODULE ConnectionPool ---------------------------
(***************************************************************************)
(* The keep-alive pool of src/pool.js: idle HTTP/1.1 connections, kept per *)
(* pool key, most recently used at the end of each key's list.             *)
(*                                                                         *)
(* The pool's callers are the environment of this module: they open a      *)
(* connection for a key, hold it while a request uses it, and then either  *)
(* release it (asserting that it may be reused or not) or discard it.  A   *)
(* connection handed to discard() has had its close() called and is never  *)
(* seen again.  ClientExchange composes this module with the real callers. *)
(*                                                                         *)
(* The `stats` counters are left out: nothing in the program reads them.   *)
(***************************************************************************)
EXTENDS Naturals, Sequences, SequencesExt, FiniteSets

CONSTANTS Keys,        \* pool keys, see poolKey()
          Conns,       \* identities of connection objects
          KeyOf,       \* the key each connection is opened for
          MaxPerKey,   \* options.maxPerKey
          MaxTotal     \* options.maxTotal

ASSUME PoolAssumption ==
  /\ KeyOf \in [Conns -> Keys]
  /\ MaxPerKey \in Nat
  /\ MaxTotal \in Nat

VARIABLES idle,        \* this._idle: an absent Map entry is the empty list
          total,       \* this._total
          poolClosed,  \* this._closed
          discarded,   \* connections discard() has called close() on
          held         \* connections a caller has in its hands

poolVars == <<idle, total, poolClosed, discarded>>
vars == <<idle, total, poolClosed, discarded, held>>

-----------------------------------------------------------------------------
Listed(lists) == UNION {Range(lists[k]) : k \in Keys}
IdleConns == Listed(idle)

PoolInit ==
  /\ idle = [k \in Keys |-> <<>>]
  /\ total = 0
  /\ poolClosed = FALSE
  /\ discarded = {}

(***************************************************************************)
(* The pool's operations, on the pool's own state.                         *)
(***************************************************************************)

\* Mutant: the wrong end is taken off the list.
TakeHitShifted(k, c) ==
  /\ ~poolClosed
  /\ idle[k] # <<>>
  /\ c = Last(idle[k])
  /\ idle' = [idle EXCEPT ![k] = Tail(@)]
  /\ total' = total - 1
  /\ UNCHANGED <<poolClosed, discarded>>

\* A hit of take(key): the most recently released entry leaves the list.
TakeHit(k, c) ==
  /\ ~poolClosed
  /\ idle[k] # <<>>
  /\ c = Last(idle[k])
  /\ idle' = [idle EXCEPT ![k] = Front(@)]
  /\ total' = total - 1
  /\ UNCHANGED <<poolClosed, discarded>>

\* A miss of take(key) changes nothing the program reads back.
TakeMiss(k) ==
  /\ ~poolClosed
  /\ idle[k] = <<>>
  /\ UNCHANGED poolVars

\* discard(conn): close() is called at once; its outcome is swallowed.
DiscardConn(c) ==
  /\ discarded' = discarded \union {c}
  /\ UNCHANGED <<idle, total, poolClosed>>

\* Mutant: an off-by-one at both limits.
OverCapacity(k) == Len(idle[k]) > MaxPerKey \/ total > MaxTotal
AtCapacity(k) == Len(idle[k]) >= MaxPerKey \/ total >= MaxTotal


\* release() of a connection that is kept because there is room for it.
ReleaseKeep(k, c) ==
  /\ ~AtCapacity(k)
  /\ idle' = [idle EXCEPT ![k] = Append(@, c)]
  /\ total' = total + 1
  /\ UNCHANGED <<poolClosed, discarded>>

\* Mutant: the evicted entry is not closed.
ReleaseEvictUnclosed(k, c) ==
  /\ AtCapacity(k)
  /\ idle[k] # <<>>
  /\ idle' = [idle EXCEPT ![k] = Append(Tail(@), c)]
  /\ UNCHANGED <<total, poolClosed, discarded>>

\* release() at a limit: this key's oldest entry makes room for the newest.
ReleaseEvict(k, c) ==
  /\ AtCapacity(k)
  /\ idle[k] # <<>>
  /\ idle' = [idle EXCEPT ![k] = Append(Tail(@), c)]
  /\ discarded' = discarded \union {Head(idle[k])}
  /\ UNCHANGED <<total, poolClosed>>

\* release() at a limit with nothing of this key to evict.
ReleaseRefuse(k, c) ==
  /\ AtCapacity(k)
  /\ idle[k] = <<>>
  /\ DiscardConn(c)

ReleaseConn(k, c, eligible) ==
  IF poolClosed \/ ~eligible
  THEN DiscardConn(c)
  ELSE ReleaseKeep(k, c) \/ ReleaseEvict(k, c) \/ ReleaseRefuse(k, c)

\* closeAll().
CloseAllConns ==
  /\ poolClosed' = TRUE
  /\ discarded' = discarded \union IdleConns
  /\ idle' = [k \in Keys |-> <<>>]
  /\ total' = 0

-----------------------------------------------------------------------------
(***************************************************************************)
(* The callers.                                                            *)
(***************************************************************************)

\* openConnection() hands a caller a connection object not seen before.
Open(c) ==
  /\ c \notin held \union discarded \union IdleConns
  /\ held' = held \union {c}
  /\ UNCHANGED poolVars

Take(k) ==
  \/ \E c \in Conns : TakeHit(k, c) /\ held' = held \union {c}
  \/ TakeMiss(k) /\ UNCHANGED held

Release(c, eligible) ==
  /\ c \in held
  /\ ReleaseConn(KeyOf[c], c, eligible)
  /\ held' = held \ {c}

Discard(c) ==
  /\ c \in held
  /\ DiscardConn(c)
  /\ held' = held \ {c}

CloseAll == CloseAllConns /\ UNCHANGED held

Init == PoolInit /\ held = {}

Next ==
  \/ \E c \in Conns, eligible \in BOOLEAN : Release(c, eligible)
  \/ \E c \in Conns : Open(c) \/ Discard(c)
  \/ \E k \in Keys : Take(k)
  \/ CloseAll

Spec == Init /\ [][Next]_vars

-----------------------------------------------------------------------------
TypeOK ==
  /\ idle \in [Keys -> Seq(Conns)]
  /\ total \in Nat
  /\ poolClosed \in BOOLEAN
  /\ discarded \subseteq Conns
  /\ held \subseteq Conns

\* Nobody is handed a connection that another request is still using, or one
\* that has been closed: what is idle is neither held nor discarded, and what
\* is held has not been discarded (take, release, discard).
Exclusive ==
  /\ IdleConns \cap held = {}
  /\ IdleConns \cap discarded = {}
  /\ held \cap discarded = {}

\* No connection is listed twice in one key's list, so two takes never return
\* the same socket (release pushes, take pops).
NoDuplicate ==
  \A k \in Keys : \A i, j \in DOMAIN idle[k] : idle[k][i] = idle[k][j] => i = j

\* A connection is only ever reused under the key it was opened for: the key
\* folds the proxy, the trust policy and the TLS options in, so crossing keys
\* would reuse a socket verified under another policy (poolKey, take).
KeyIsolation == \A k \in Keys : \A i \in DOMAIN idle[k] : KeyOf[idle[k][i]] = k

\* _total is the number of idle connections: the maxTotal test compares a
\* counter that four methods maintain, not the lists themselves.
TotalIsIdle == total = Cardinality(IdleConns)

\* What take hands out is nobody else's, open, and of the key it was opened for.
SafeToReuse == Exclusive /\ NoDuplicate /\ KeyIsolation

\* The limits hold for each key and over all keys (release).
WithinLimits ==
  /\ \A k \in Keys : Len(idle[k]) <= MaxPerKey
  /\ total <= MaxTotal

\* Once closeAll() has run nothing is retained, whatever releases arrive after
\* it from requests that were still in flight (closeAll, release).
ClosedKeepsNothing == poolClosed => IdleConns = {}

\* What the pool retains is what it counts, within its limits and its life.
LimitsKept == TotalIsIdle /\ WithinLimits /\ ClosedKeepsNothing

\* A connection that leaves the lists went to a caller or was closed: none is
\* dropped with its socket open (take, release, closeAll).
NoneForgotten ==
  [][\A c \in IdleConns \ IdleConns' : c \in held' \union discarded']_vars
=============================================================================
