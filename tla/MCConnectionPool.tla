-------------------------- MODULE MCConnectionPool --------------------------
(***************************************************************************)
(* A small pool: three connections for the first of three keys and one for *)
(* each other key, so that the per-key limit, the total limit, eviction    *)
(* and refusal are all reached, each without the other.                    *)
(***************************************************************************)
EXTENDS ConnectionPool

CONSTANTS ka, kb, kc, c1, c2, c3, c4, c5

MCKeyOf == (c1 :> ka) @@ (c2 :> ka) @@ (c3 :> ka) @@ (c4 :> kb) @@ (c5 :> kc)
=============================================================================
