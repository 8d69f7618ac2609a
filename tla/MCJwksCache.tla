----------------------------- MODULE MCJwksCache -----------------------------
(***************************************************************************)
(* Values for the model checker.  Version 1 withdraws a kid, and publishes *)
(* other keys under the kid it keeps.                                      *)
(***************************************************************************)
EXTENDS JwksCache, TLC

CONSTANTS c1, c2, c3, i1, i2, s1

MCKids == [v \in 0 .. LastVersion |-> IF v = 0 THEN {"a", "b"} ELSE {"b"}]

(* Both instances over one adapter, as two workers over one KV namespace. *)
MCStoreOf == [i \in Caches |-> s1]

(* Calls, and instances over the same adapter, are interchangeable. *)
MCSymmetry == Permutations(Calls) \cup Permutations(Caches)
=============================================================================
