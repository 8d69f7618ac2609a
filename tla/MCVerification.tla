--------------------------- MODULE MCVerification ---------------------------
(***************************************************************************)
(* Requests and key sets for the model checker.  A key pair is named by    *)
(* its kind and a number.                                                  *)
(***************************************************************************)
EXTENDS Verification

MCMaterials == Kinds \X {"pair", "other", "text"}

(* One algorithm and its kinds per verification path. *)
Algs     == {"RS256", "EdDSA", "ES256K", "ML-DSA-65"}
KeyKinds == {"RSA", "Ed25519", "Ed448", "secp256k1", "AKP"}

Declared(kind) == IF kind = "AKP" THEN "ML-DSA-65" ELSE None
Key(kind, kid, n) ==
  [kind |-> kind, kid |-> kid, alg |-> Declared(kind), weak |-> FALSE,
   material |-> IF n = 0 THEN None ELSE <<kind, <<"pair", "other">>[n]>>]

(* Per kind: a key, another one, one that does not decode, one without kid; *)
(* then keys that declare another alg, a key under two kids, a weak key and *)
(* a non-object.                                                            *)
MCKeys ==
  UNION {{Key(d, "a", 1), Key(d, "b", 2), Key(d, "b", 0), Key(d, None, 1)} : d \in KeyKinds}
    \cup {[Key("RSA", "a", 1) EXCEPT !.alg = "EdDSA"],
          [Key("Ed25519", "a", 1) EXCEPT !.alg = "Ed25519"],
          [Key("secp256k1", "a", 1) EXCEPT !.alg = "RS256"],
          Key("secp256k1", "b", 1), Key("AKP", "b", 1),
          [Key("RSA", "a", 1) EXCEPT !.weak = TRUE],
          [kind |-> "junk", kid |-> None, alg |-> None, material |-> None, weak |-> FALSE]}

MCKeySets ==
  {<<>>} \cup {<<k>> : k \in MCKeys} \cup {<<k, l>> : k \in MCKeys, l \in MCKeys}

Plain ==
  [form |-> "ok", alg |-> "RS256", kid |-> None, signer |-> None,
   exp |-> 1, nbf |-> None, lacks |-> {}]

SignersOf(alg) ==
  {None} \cup {<<d, "pair">> : d \in
    CASE alg = "RS256"     -> {"RSA"}
      [] alg = "EdDSA"     -> {"Ed25519", "Ed448"}
      [] alg = "ES256K"    -> {"secp256k1"}
      [] alg = "ML-DSA-65" -> {"AKP"}
      [] alg = "HS256"     -> {"oct"}
      [] OTHER             -> {}}

Signed(alg) == {[Plain EXCEPT !.alg = alg, !.signer = s] : s \in SignersOf(alg)}

Ask ==
  [op |-> "verify", bearer |-> TRUE, token |-> Plain, secret |-> None,
   publicKey |-> None, pem |-> FALSE, adhoc |-> None, jwksUri |-> FALSE,
   requires |-> {}, emptyAudiences |-> FALSE, onError |-> FALSE]

(* Every key set, supplied or published, with good and forged tokens. *)
Routings ==
  {[Ask EXCEPT !.token = [t EXCEPT !.kid = k], !.adhoc = s, !.jwksUri = (s = None)] :
     t \in UNION {Signed(alg) : alg \in Algs}, k \in {None, "a"},
     s \in MCKeySets \cup {None}}

(* Every combination of claims and requirements, with a key that signed    *)
(* the token or a token that nobody signed.                                *)
Claims ==
  {r \in {[Ask EXCEPT !.token = [t EXCEPT !.exp = e, !.nbf = b, !.lacks = l],
                      !.publicKey = k, !.requires = q, !.emptyAudiences = m] :
            t \in UNION {Signed(alg) : alg \in Algs},
            e \in {0, 1, 2, None, NotANumber}, b \in {1, None, NotANumber},
            l \in {{}, {"scope"}, {"iss"}, {"aud", "scope"}},
            k \in {Key(d, None, 1) : d \in KeyKinds},
            q \in {{}, {"scope"}, {"iss", "aud", "scope"}}, m \in BOOLEAN} :
     r.token.signer \in {None, r.publicKey.material}}

(* PEM keys, cut and malformed tokens, unknown algorithms. *)
Oddities ==
  {r \in {[Ask EXCEPT !.op = o, !.token = [t EXCEPT !.form = f],
                      !.publicKey = k, !.pem = p, !.adhoc = s, !.jwksUri = TRUE] :
            o \in {"verify", "check"}, f \in {"ok", "cut", "header", "rest"}, p \in BOOLEAN,
            t \in UNION {Signed(alg) : alg \in Hmac \cup Algs \cup {"none"}},
            k \in {None, Key("AKP", None, 1)} \cup
                  {[Key(d, None, n) EXCEPT !.alg = None] : d \in KeyKinds, n \in 0 .. 2},
            s \in {None, <<Key("RSA", None, 1)>>}} :
     /\ r.token.form # "ok" => r.token.signer = None
     /\ r.pem /\ r.publicKey # None => r.publicKey.alg = None}

(* The middleware and the handler, mostly with shared secrets. *)
Served ==
  {[Ask EXCEPT !.op = o, !.bearer = b, !.secret = s, !.onError = e, !.requires = {"scope"},
               !.token = [t EXCEPT !.exp = x, !.lacks = l], !.adhoc = a, !.jwksUri = j] :
     o \in {"check", "middleware", "handler"}, b \in BOOLEAN, e \in BOOLEAN, j \in BOOLEAN,
     s \in {None, <<"oct", "pair">>, <<"oct", "other">>},
     t \in Signed("HS256") \cup Signed("RS256"), x \in {1, None},
     l \in {{}, {"scope"}}, a \in {None, <<Key("RSA", None, 1)>>}}

MCRequests == {Ask} \cup (Claims \cup (Oddities \cup (Served \cup Routings)))
=============================================================================
