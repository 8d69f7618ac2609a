----------------------------- MODULE MCLifecycle -----------------------------
(***************************************************************************)
(* Plans for the model checker, beside the requests of MCVerification; and *)
(* the encodings of Base64 on short inputs.                                *)
(***************************************************************************)
EXTENDS Lifecycle, MCVerification

B == INSTANCE Base64

(* Sequences of the first, the last and two middle values; and texts of    *)
(* digits, of the padding and of characters outside the alphabet.          *)
Short(S, n) == UNION {[1 .. k -> S] : k \in 0 .. n}

ASSUME Base64Checked ==
  /\ \A b \in Short({0, 127, 128, 255}, 4) :
       /\ B!base64ToBytes(B!bytesToBase64(b)) = b
       /\ B!base64UrlToBytes(B!bytesToBase64Url(b)) = b
  /\ \A t \in Short({0, 63, B!Pad, B!Dash}, 4) :
       B!base64ToBytes(t) # B!Invalid => Len(B!base64ToBytes(t)) <= 3

SignIdentifiers ==
  {"RS256", "RSA-PSS", "PS256", "ES256", "EdDSA", "Ed25519", "Ed448", "ES256K", "X448",
   "ML-DSA-65", "HS256", "A128KW"}

One ==
  [identifier |-> "RS256", format |-> "jwk", keySize |-> None, node |-> TRUE,
   use |-> "sign", as |-> "RS256", given |-> TRUE, named |-> FALSE, exp |-> 2,
   session |-> None, way |-> "verify", expected |-> None]

(* Moduli on either side of the least of OpenSSL and of jose. *)
Moduli == {256, 1024, 2048}

(* Every pair under every algorithm; adhoc keys are JWKs. *)
Signing ==
  {p \in {[One EXCEPT !.identifier = i, !.format = f, !.node = n, !.as = a,
                      !.named = k, !.exp = e, !.way = w] :
            i \in Identifiers, f \in {"jwk", "pem"}, n \in BOOLEAN, a \in SignIdentifiers,
            k \in BOOLEAN, e \in {1, 2, None},
            w \in {"verify", "adhoc", "published", "secret"}} :
     p.format = "pem" => p.way \in {"verify", "secret"}}

(* RSA pairs of each size under every algorithm. *)
Sized ==
  {[One EXCEPT !.identifier = i, !.format = f, !.node = n, !.keySize = z, !.as = a, !.way = w] :
     i \in Rsa, f \in {"jwk", "pem"}, n \in BOOLEAN, z \in Moduli, a \in SignIdentifiers,
     w \in {"verify", "published"}}

Creating ==
  {[One EXCEPT !.use = "create", !.identifier = i, !.format = f, !.as = a, !.given = g,
               !.exp = e, !.session = s, !.way = w] :
     i \in Identifiers, f \in {"jwk", "pem"}, a \in SignIdentifiers, g \in BOOLEAN,
     e \in {None, 2}, s \in {None, 0, 1}, w \in {"verify", "secret"}}

Encryption ==
  {p \in {[One EXCEPT !.use = "encrypt", !.identifier = i, !.format = f, !.keySize = z,
                      !.as = a, !.expected = x] :
            i \in Identifiers, f \in {"jwk", "pem"}, z \in {None, 64, 128} \cup Moduli,
            a \in {"A128KW", "A256KW", "RSA-OAEP", "RSA-OAEP-256", "RSA1_5"} \cup Ecdh,
            x \in {None, "A128KW", "A256KW", "RSA-OAEP", "RSA-OAEP-256"} \cup Ecdh} :
     /\ p.keySize \in {64, 128} => p.identifier \in Symmetric
     /\ p.keySize \in Moduli => p.identifier \in Rsa \cup Symmetric}

MCPlans == (Signing \cup Sized) \cup (Encryption \cup Creating)
=============================================================================
