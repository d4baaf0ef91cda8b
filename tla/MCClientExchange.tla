-------------------------- MODULE MCClientExchange --------------------------
(***************************************************************************)
(* Two calls that compete for one key and one call for another, over a     *)
(* pool of one connection in all, with enough connections that a call can  *)
(* retry on a second one.  The two rivals are interchangeable.             *)
(***************************************************************************)
EXTENDS ClientExchange, TLC

CONSTANTS f1, f2, f3, ka, kb

MCCallKey == [f \in Calls |-> IF f = f3 THEN kb ELSE ka]
MCKeyOf == [c \in Conns |-> IF c > 10 THEN kb ELSE ka]
Rivals == Permutations({f1, f2})
=============================================================================
