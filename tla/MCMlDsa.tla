------------------------------- MODULE MCMlDsa -------------------------------
(* Values for the model checker: two key pairs of one algorithm and one of *)
(* another; tokens and lists of keys with one defect each.                 *)
EXTENDS MlDsa

CONSTANTS s1, s2, c1, c2, c3

Pair(alg, s) == [alg |-> alg, seed |-> s]
Jwk(kid, p)  == [kty |-> "AKP", alg |-> p.alg, kid |-> kid, pub |-> p]
Private(s)   == [kty |-> "AKP", alg |-> "ML-DSA-65", priv |-> s]

Token(kid, p) ==
  [wellFormed |-> TRUE, alg |-> "ML-DSA-65", kid |-> kid, signer |-> p, whole |-> TRUE]

Mine   == Jwk("a", Pair("ML-DSA-65", s1))
Broken == [Mine EXCEPT !.pub = None]
Listed ==
  {<<k, Mine>> : k \in {Broken, Jwk("b", Pair("ML-DSA-65", s2)),
                               Jwk(None, Pair("ML-DSA-65", s2)),
                               Jwk(None, Pair("ML-DSA-44", s1)),
                               [Mine EXCEPT !.kty = "other"]}}

Good == Token("a", Pair("ML-DSA-65", s1))
Received ==
  {[Good EXCEPT !.kid = None], [Good EXCEPT !.kid = "b"], Token("a", None),
   [Token("a", None) EXCEPT !.whole = FALSE],
   [Token("a", None) EXCEPT !.wellFormed = FALSE],
   [Token("a", None) EXCEPT !.alg = "other"]}

MCAsks ==
  {[op |-> "generate", alg |-> "ML-DSA-65", pem |-> p] : p \in BOOLEAN}
    \cup {[op |-> "sign", alg |-> "ML-DSA-65", key |-> k] :
            k \in {Private(s1), Private(None), Private(Undecodable),
                   [Private(s1) EXCEPT !.alg = None],
                   [Private(s1) EXCEPT !.alg = "ML-DSA-44"],
                   [Private(s1) EXCEPT !.kty = "pem"]}}
    \cup {[op |-> "verify", token |-> t, keys |-> ks] : t \in {Good}, ks \in Listed}
    \cup {[op |-> "verify", token |-> t, keys |-> <<Mine>>] : t \in Received}
=============================================================================
