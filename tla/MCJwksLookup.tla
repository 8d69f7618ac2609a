----------------------------- MODULE MCJwksLookup -----------------------------
(* Values for the model checker: two lookups, and a rotation that replaces *)
(* kid "a" by kid "c".                                                     *)
EXTENDS JwksLookup, TLC

CONSTANTS v1, v2, g1, g2, r1, r2, i1, i2, i3

MCKids      == [v \in 0 .. LastVersion |-> IF v = 0 THEN {"a", "b"} ELSE {"b", "c"}]
MCStoreOf   == [i \in Caches |-> i]
MCGetOf     == v1 :> g1 @@ v2 :> g2
MCRefreshOf == v1 :> r1 @@ v2 :> r2
=============================================================================
