------------------------------ MODULE Lifecycle ------------------------------
(***************************************************************************)
(* The life of a key pair: getKeyPair makes it, signJwtWithPrivateKey or   *)
(* createSignedJwt signs a token with its private half, and a verification *)
(* as in Verification is asked for with the public half; or encryptJwe and *)
(* decryptJwe use it.  The clock advances while a signature is awaited and *)
(* until the token is verified.                                            *)
(*                                                                         *)
(* One identifier stands for those that differ in lengths alone.  A pair   *)
(* is text in the format "pem"; for a symmetric key the text is a string   *)
(* of hexadecimal digits.  The material <<kind, "text">> is the text of    *)
(* the private half when it is taken for a secret.                         *)
(***************************************************************************)
EXTENDS Verification

CONSTANTS Plans   \* what callers do with one pair, see PlanType

Rsa         == {"RS256", "PS256", "RSA-PSS", "RSA-OAEP", "RSA-OAEP-256", "RSA1_5"}
Symmetric   == {"HS256", "A128KW", "A256KW"}
Portable    == {"ES256K", "Ed448", "X448"}
Ecdh        == {"ECDH-ES", "ECDH-ES+A128KW"}
Jose        == Rsa \cup Ecdh \cup {"ES256", "EdDSA", "Ed25519", "X25519"}
Identifiers == Jose \cup Portable \cup Symmetric \cup {"ML-DSA-65", "none"}

(* No longer keys are asked for: OpenSSL uses no larger modulus. *)
MaxKeySize == 16384

PlanType ==
  [identifier : Identifiers, format : {"jwk", "pem"}, keySize : (0 .. MaxKeySize) \cup {None},
   node : BOOLEAN,                             \* isNodeJs()
   use : {"sign", "create", "encrypt"},
   as : Identifiers,                           \* the algorithm of that use
   given : BOOLEAN,                            \* signinOptions has the key
   named : BOOLEAN,                            \* altOpts.keyId is the kid
   exp : Nat \cup {None, NotANumber},          \* of the payload
   session : Nat \cup {None},                  \* sessionDuration * 60
   way : {"verify", "adhoc", "published", "secret"},
   expected : Identifiers \cup {None}]         \* expectedAlg

VARIABLES
  plan,     \* what is done, fixed; None for a verification of another token
  stage,    \* how far it is
  pair,     \* what getKeyPair returned, or None
  signed    \* the token while it is made, or None

lvars == <<plan, stage, pair, signed>>

Kid == "generated"

PairType ==
  [kind : Kinds, text : BOOLEAN, label : Labels, size : Nat]

ASSUME LifecycleAssumption ==
  /\ Plans \subseteq PlanType
  /\ Kid \in Kids
  /\ Kinds \X {"pair", "text"} \subseteq Materials
  /\ None \notin PlanType \cup PairType \cup TokenType

Failures == {"notGenerated", "notSigned", "notEncrypted", "notDecrypted"}
Stages   ==
  {"direct", "planned", "generated", "signing", "signed", "verifying", "encrypted",
   "decrypted"} \cup Failures

LifecycleTypeOK ==
  /\ plan \in PlanType \cup {None}
  /\ stage \in Stages
  /\ pair \in PairType \cup {None}
  /\ signed \in TokenType \cup {None}
  /\ stage \in {"direct", "verifying"} => VerificationTypeOK

LInit ==
  /\ pair = None /\ signed = None
  /\ \/ plan = None /\ stage = "direct" /\ Init
     \/ /\ plan \in Plans /\ stage = "planned"
        /\ now = 0 /\ began = 0 /\ request = None /\ phase = "called" /\ keys = <<>>
        /\ outcome = None /\ response = None /\ continued = FALSE

At(s)   == stage = s /\ UNCHANGED <<vars, plan>>
Reach(s) == stage' = s /\ UNCHANGED <<pair, signed>>

text     == plan.format = "pem"
Material == <<pair.kind, "pair">>

-----------------------------------------------------------------------------
(* getKeyPair *)

normalizedJwtAlg(alg) == IF alg \in {"Ed25519", "Ed448"} THEN "EdDSA" ELSE alg

(* Mutant: the size is taken for a number of bytes. *)
getSymmetricKeySizeInBytes(id, keySize) == IF keySize \in Nat \ {0} THEN keySize ELSE 32

getSymmetricKeySize(id, keySize) ==
  IF keySize \in Nat \ {0}
  THEN IF keySize \div 8 > 16 THEN keySize \div 8 ELSE 16
  ELSE 32

(* Mutant: the X448 key has the label of its identifier. *)
LabelOfIdentifier(id) == normalizedJwtAlg(id)

(* createKeyMetadata, and the labels of the portable keys *)
LabelOf(id) == IF id = "X448" THEN "ECDH-ES" ELSE normalizedJwtAlg(id)

(* keySize || 2048 *)
modulusLength(keySize) == IF keySize \in Nat \ {0} THEN keySize ELSE 2048

(* The size counts the bytes of a secret and the bits of a modulus. *)
Got(kind) ==
  /\ stage' = "generated"
  /\ pair' = [kind |-> kind, text |-> text, label |-> LabelOf(plan.identifier),
              size |-> CASE kind = "oct" -> getSymmetricKeySize(plan.identifier, plan.keySize)
                         [] kind = "RSA" -> modulusLength(plan.keySize)
                         [] OTHER        -> 0]
  /\ UNCHANGED signed

JoseKind(id) ==
  CASE id \in Rsa                  -> "RSA"
    [] id \in Ecdh \cup {"ES256"}  -> "P-256"
    [] id \in {"EdDSA", "Ed25519"} -> "Ed25519"
    [] id = "X25519"               -> "X25519"

(* The modulus jose generates and uses, and the one OpenSSL does. *)
JoseModulus == 2048
NodeModulus == 512

(* getNodeKeyGenerationConfig makes the kinds jose makes. *)
NodeKind(id) == JoseKind(id)

PortableKind(id) == IF id = "ES256K" THEN "secp256k1" ELSE id

GetMlDsaPair ==
  /\ At("planned") /\ plan.identifier = "ML-DSA-65"
  /\ \/ ~text /\ Got("AKP")
     \/ (text \/ ImportMayFail) /\ Reach("notGenerated")

GetPortablePair ==
  /\ At("planned") /\ plan.identifier \in Portable
  /\ IF text /\ ~plan.node THEN Reach("notGenerated") ELSE Got(PortableKind(plan.identifier))

GetSymmetricPair ==
  At("planned") /\ plan.identifier \in Symmetric /\ Got("oct")

LongEnough(least) == plan.identifier \in Rsa => modulusLength(plan.keySize) >= least

(* What jose does not generate is asked of node:crypto. *)
GetJosePair ==
  /\ At("planned") /\ plan.identifier \in Jose
  /\ \/ LongEnough(JoseModulus) /\ Got(JoseKind(plan.identifier))
     \/ IF plan.node /\ LongEnough(NodeModulus)
        THEN Got(NodeKind(plan.identifier)) ELSE Reach("notGenerated")

GetNoPair ==
  /\ At("planned")
  /\ plan.identifier \notin Jose \cup Portable \cup Symmetric \cup {"ML-DSA-65"}
  /\ Reach("notGenerated")

-----------------------------------------------------------------------------
(* Signing *)

Unsigned(exp) ==
  [form |-> "ok", alg |-> "none", kid |-> IF plan.named THEN Kid ELSE None,
   signer |-> None, exp |-> exp, nbf |-> None, lacks |-> {}]

BeginSigning(exp) ==
  stage' = "signing" /\ signed' = Unsigned(exp) /\ UNCHANGED pair

SignJwt == At("generated") /\ plan.use = "sign" /\ BeginSigning(plan.exp)

Creatable ==
  {"HS256", "RS256", "PS256", "ES256", "EdDSA", "ES256K", "ML-DSA-65", "RSA1_5",
   "A128KW", "A256KW"}

(* The payload is spread over the claims; a session of no duration is NaN, *)
(* which JSON writes as null.  Without a key the promise is undefined.     *)
CreateSignedJwt ==
  /\ At("generated") /\ plan.use = "create"
  /\ IF plan.as \notin Creatable \/ ~plan.given THEN Reach("notSigned")
     ELSE BeginSigning(IF plan.exp # None THEN plan.exp
                       ELSE IF plan.session = None THEN NotANumber ELSE now + plan.session)

Signature(alg, signer) ==
  /\ stage' = "signed"
  /\ signed' = [signed EXCEPT !.alg = alg, !.signer = signer]
  /\ UNCHANGED pair

(* asAkp with a private part, and jose or noble *)
SignMlDsa ==
  /\ At("signing") /\ plan.as = "ML-DSA-65"
  /\ LET fits == pair.kind = "AKP" /\ pair.label = plan.as IN
     \/ fits /\ Signature(plan.as, Material)
     \/ (~fits \/ ImportMayFail) /\ Reach("notSigned")

(* resolvePortableJwk: a text that is a PEM, on Node, or a JWK *)
Resolves == pair.text => plan.node /\ pair.kind # "oct"

curveFromJwkForAlg(alg, kind) ==
  IF alg = "ES256K" \/ kind = "secp256k1" THEN "ES256K"
  ELSE IF alg = "Ed448" \/ kind = "Ed448" THEN "Ed448"
  ELSE IF alg = "X448" \/ kind = "X448" THEN "X448" ELSE None

(* Mutant: the curve of the key is not looked at. *)
needsPortableEdDsaByName(alg) == alg = "Ed448"

needsPortableEdDsa(alg) ==
  \/ alg = "Ed448"
  \/ alg = "EdDSA" /\ Resolves /\ curveFromJwkForAlg(alg, pair.kind) = "Ed448"

(* The private parts that are as long as the curve wants: 32 or 57 bytes. *)
Scalars(curve) ==
  IF curve = "ES256K" THEN {"secp256k1", "P-256", "Ed25519", "X25519"} ELSE {"Ed448"}

UsesPortable(alg) == alg # "ML-DSA-65" /\ (alg \in Portable \/ needsPortableEdDsa(alg))

(* A signature of another kind's private part has no published public key. *)
SignPortable ==
  /\ At("signing") /\ UsesPortable(plan.as)
  /\ LET curve == curveFromJwkForAlg(plan.as, pair.kind) IN
     IF Resolves /\ curve # None /\ pair.kind \in Scalars(curve)
     THEN Signature(IF curve = "ES256K" THEN "ES256K" ELSE "EdDSA",
                    IF pair.kind \in {"secp256k1", "Ed448"} THEN Material ELSE None)
     ELSE Reach("notSigned")

getJoseImportAlgorithm(alg) ==
  CASE alg = "Ed25519" -> "EdDSA"
    [] alg = "RSA-PSS" -> "PS256"
    [] alg = "RSA1_5"  -> "RSA-OAEP"
    [] alg = "X25519"  -> "ECDH-ES"
    [] OTHER           -> alg

(* A pair that node:crypto has made and jose does not use. *)
Weak == pair.kind = "RSA" /\ pair.size < JoseModulus

(* The alg of the header must be one jose signs with, and the key be        *)
(* imported for it.                                                        *)
JoseSigns(alg) ==
  /\ ~Weak
  /\ normalizedJwtAlg(alg) \in DOMAIN JoseKinds
  /\ getJoseImportAlgorithm(alg) = normalizedJwtAlg(alg)
  /\ pair.kind = JoseKinds[normalizedJwtAlg(alg)]

(* Under HS256 a text that is not imported is the secret itself. *)
SignJose ==
  /\ At("signing") /\ plan.as # "ML-DSA-65" /\ ~UsesPortable(plan.as)
  /\ IF plan.as \in Hmac /\ pair.text THEN Signature(plan.as, <<pair.kind, "text">>)
     ELSE IF plan.as \in Hmac /\ pair.kind = "oct" THEN Signature(plan.as, Material)
     ELSE IF JoseSigns(plan.as) THEN Signature(normalizedJwtAlg(plan.as), Material)
     ELSE Reach("notSigned")

-----------------------------------------------------------------------------
(* Verification with the public half *)

(* makePublicKey copies the fields of an RSA key. *)
makePublicKey(k) ==
  IF k.kind = "RSA" THEN k
  ELSE [k EXCEPT !.kind = IF @ = "AKP" THEN @ ELSE "bare", !.material = None]

PublicHalf ==
  LET k == [kind |-> pair.kind, kid |-> IF pair.text THEN None ELSE Kid,
            alg |-> IF pair.text THEN None ELSE pair.label, material |-> Material,
            weak |-> Weak] IN
  IF plan.way = "published" THEN makePublicKey(k) ELSE k

(* A shared secret is the text of the key, or the k of a JWK as a string.  *)
Asked ==
  [op |-> IF plan.way \in {"adhoc", "secret"} THEN "check" ELSE "verify",
   bearer |-> TRUE, token |-> signed,
   secret |-> IF plan.way = "secret" THEN <<pair.kind, "text">> ELSE None,
   publicKey |-> IF plan.way \in {"verify", "published"} THEN PublicHalf ELSE None,
   pem |-> pair.text,
   adhoc |-> IF plan.way = "adhoc" THEN <<PublicHalf>> ELSE None,
   jwksUri |-> FALSE, requires |-> {}, emptyAudiences |-> FALSE, onError |-> FALSE]

Submit ==
  /\ stage = "signed"
  /\ stage' = "verifying"
  /\ request' = Asked
  /\ began' = now
  /\ UNCHANGED <<now, phase, keys, outcome, response, continued, plan, pair, signed>>

Verify == stage \in {"direct", "verifying"} /\ Next /\ UNCHANGED lvars

-----------------------------------------------------------------------------
(* JWE *)

(* jose imports a key for the alg and wants the length of an AES key; it   *)
(* has no RSA1_5.                                                          *)
JoseEncrypts(alg) ==
  CASE alg \in {"RSA-OAEP", "RSA-OAEP-256"} -> pair.kind = "RSA" /\ ~Weak
    [] alg \in Ecdh    -> pair.kind \in {"P-256", "X25519"}
    [] alg = "A128KW"  -> pair.kind = "oct" /\ ~pair.text /\ pair.size = 16
    [] alg = "A256KW"  -> pair.kind = "oct" /\ ~pair.text /\ pair.size = 32
    [] OTHER           -> FALSE

EncryptJwe ==
  /\ At("generated") /\ plan.use = "encrypt"
  /\ Reach(IF JoseEncrypts(plan.as) THEN "encrypted" ELSE "notEncrypted")

(* algForImport *)
ImportAlg(expected) == IF expected = None THEN "RSA-OAEP" ELSE expected

(* The key is imported for the expected algorithm, a curve alike for every *)
(* ECDH-ES and the bytes of a secret for none; the alg of the header is    *)
(* compared with nothing else.                                             *)
DecryptJwe ==
  /\ At("encrypted")
  /\ Reach(IF \/ pair.kind = "oct"
             \/ ImportAlg(plan.expected) = plan.as
             \/ {ImportAlg(plan.expected), plan.as} \subseteq Ecdh
          THEN "decrypted" ELSE "notDecrypted")

-----------------------------------------------------------------------------
Wait ==
  /\ stage \in {"signing", "signed"}
  /\ now < MaxTime
  /\ now' = now + 1
  /\ UNCHANGED <<request, began, phase, keys, outcome, response, continued, lvars>>

Ended == stage \in Failures \cup {"decrypted"} /\ UNCHANGED <<vars, lvars>>

LNext ==
  \/ GetMlDsaPair \/ GetPortablePair \/ GetSymmetricPair \/ GetJosePair \/ GetNoPair
  \/ SignJwt \/ CreateSignedJwt \/ SignMlDsa \/ SignPortable \/ SignJose
  \/ Submit \/ Verify
  \/ EncryptJwe \/ DecryptJwe
  \/ Wait \/ Ended

LSpec == LInit /\ [][LNext]_<<vars, lvars>>

-----------------------------------------------------------------------------
(* token-expiry.ts *)

(* Mutant: a token expires only after its exp. *)
isTokenExpiredAfter(t) == t.exp \notin Nat \/ now > t.exp

isTokenExpired(t) == t.exp \notin Nat \/ now >= t.exp

getTimeToExpiry(t) ==
  IF t.exp \notin Nat THEN -1 ELSE IF t.exp > now THEN t.exp - now ELSE 0

-----------------------------------------------------------------------------
(***************************************************************************)
(* Safety.                                                                 *)
(***************************************************************************)

(* The identifiers that name a signature, with the names it may be asked   *)
(* for under.                                                              *)
SignsAs ==
  {<<i, i>> : i \in {"RS256", "PS256", "ES256", "EdDSA", "Ed25519", "Ed448", "ES256K",
                     "ML-DSA-65"}}
    \cup {<<"EdDSA", "Ed25519">>, <<"Ed25519", "EdDSA">>, <<"Ed448", "EdDSA">>}

Promised ==
  /\ plan # None /\ pair # None
  /\ plan.use = "sign" \/ (plan.use = "create" /\ plan.given /\ plan.as \in Creatable)
  /\ <<plan.identifier, plan.as>> \in SignsAs

(* A pair generated for a signature algorithm signs under it, in either    *)
(* format and whichever of jose and node:crypto made it, and while the     *)
(* token is current its public half verifies it: as a key, as an adhoc key *)
(* and, for RSA, stripped by makePublicKey.  Only the import of the        *)
(* optional module may get in the way, for ML-DSA; and a modulus below the *)
(* least jose uses, which node:crypto makes when it is asked to: of such a *)
(* pair the public half accepts nothing.                                   *)
EveryPairRoundTrips ==
  /\ stage = "notSigned" /\ Promised => Weak \/ (plan.as = "ML-DSA-65" /\ ImportMayFail)
  /\ /\ stage = "verifying" /\ Concluded /\ Promised
     /\ plan.way = "verify" \/ (plan.way = "adhoc" /\ ~pair.text)
          \/ (plan.way = "published" /\ pair.kind = "RSA")
     /\ ClaimError(began) = None /\ ClaimError(now) = None
     => outcome \in {"payload"} \cup IF plan.as = "ML-DSA-65" THEN {"ImportError"} ELSE {}
  /\ plan # None /\ pair # None /\ Weak => outcome # "payload"

(* A JWK verifies the tokens of the algorithm it was generated for and no  *)
(* others, although jose and the portable curves take a key for whatever   *)
(* algorithm its kind or length fits, and normalizeJwk drops its label.    *)
JwksKeepTheirAlgorithm ==
  plan # None /\ outcome = "payload" /\ ~pair.text =>
    token.alg = LabelOf(plan.identifier)

(* isTokenExpired and getTimeToExpiry agree with every verification about  *)
(* the second in which a token expires.                                    *)
ExpiryHelpersAgree ==
  /\ outcome \in Accepted /\ token.exp # None =>
       ~isTokenExpired(token) /\ getTimeToExpiry(token) > 0
  /\ outcome = "TokenExpiredError" =>
       isTokenExpired(token) /\ getTimeToExpiry(token) = 0

(* The pairs meant for a key management algorithm, where A128KW wants the  *)
(* size to be asked for.  RSA1_5, which jose does not have, is not one of  *)
(* them, although docs/api.md:219 lists it.                                *)
Encrypting ==
  /\ plan # None /\ pair # None
  /\ \/ plan.as = plan.identifier /\ plan.as \in {"RSA-OAEP", "RSA-OAEP-256"} /\ ~Weak
     \/ plan.identifier \in Ecdh \cup {"X25519"} /\ plan.as \in Ecdh
     \/ /\ plan.as = plan.identifier /\ ~pair.text
        /\ <<plan.as, plan.keySize>> \in
             {<<"A128KW", 128>>, <<"A256KW", None>>, <<"A256KW", 256>>}

(* Such a pair encrypts, and what is encrypted its private half decrypts   *)
(* when the algorithm is expected, RSA-OAEP and the symmetric ones also    *)
(* when none is; with an RSA key no other algorithm may be expected.  Of   *)
(* "the JWE alg/enc must match" (jwe.ts:18) the code ensures no more: what *)
(* other keys decrypt under another expectation is left open.              *)
JweRoundTrips ==
  /\ stage = "notEncrypted" => ~Encrypting
  /\ stage = "notDecrypted" =>
       /\ plan.expected # plan.as
       /\ plan.expected = None => plan.as \notin {"RSA-OAEP", "A128KW", "A256KW"}
  /\ stage = "decrypted" /\ pair.kind = "RSA" => ImportAlg(plan.expected) = plan.as
=============================================================================
