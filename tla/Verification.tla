---------------------------- MODULE Verification ----------------------------
(***************************************************************************)
(* The verification of one token: the middleware and checkTokenValidness,  *)
(* verifyTokenWithPublicKey and its routing to jose, to the portable       *)
(* curves and to ML-DSA, the HMAC path, assertClaims and the error classes *)
(* a caller sees.  Verifications share no state but the clock, so one is   *)
(* enough; the clock may advance at every await.                           *)
(*                                                                         *)
(* One algorithm stands for those of other hash lengths.  A key is a       *)
(* record; material names the key pair, or is None if it does not decode.  *)
(* A token names the key pair or secret it was signed with.  jose, an      *)
(* external library, is modelled by the error classes the code reads.      *)
(***************************************************************************)
EXTENDS Integers, Sequences, FiniteSets

CONSTANTS
  Requests,        \* what callers may ask, see RequestType
  KeySets,         \* key sets an endpoint may publish
  Kids, Materials,
  None,            \* "undefined"
  NotANumber,      \* a claim of another type
  ImportMayFail,   \* TRUE: the import of @noble/post-quantum may fail
  NextMayThrow,    \* TRUE: next() may throw
  MaxTime          \* bound of the clock, in seconds

Hmac       == {"HS256"}
Asymmetric == {"RS256", "PS256", "ES256", "EdDSA", "ES256K", "ML-DSA-65"}
(* What a key may declare as its alg besides. *)
Labels     == Hmac \cup Asymmetric \cup
  {"Ed25519", "Ed448", "RSA-PSS", "RSA-OAEP", "RSA-OAEP-256", "RSA1_5", "ECDH-ES",
   "ECDH-ES+A128KW", "X25519", "A128KW", "A256KW"}
(* "oct" is a string or JWK of bytes, "bare" a JWK without its curve. *)
Kinds      ==
  {"RSA", "P-256", "Ed25519", "Ed448", "X25519", "X448", "secp256k1", "AKP", "oct", "bare"}

(* A key; an entry of a set that is not an object has the kind "junk".     *)
(* weak, of an RSA key: its modulus has less than 2048 bits.               *)
KeyType ==
  [kind : Kinds \cup {"junk"}, kid : Kids \cup {None},
   alg : Labels \cup {None}, material : Materials \cup {None}, weak : BOOLEAN]

(* form: the token is well formed, its signature is cut to a length no key *)
(* of its algorithm gives, its header cannot be read, or only the rest of  *)
(* it is malformed.  lacks: which requirements the claims fail.            *)
TokenType ==
  [form : {"ok", "cut", "header", "rest"}, alg : Hmac \cup Asymmetric \cup {"none"},
   kid : Kids \cup {None}, signer : Materials \cup {None},
   exp : Nat \cup {None, NotANumber}, nbf : Nat \cup {None, NotANumber},
   lacks : SUBSET {"iss", "aud", "scope"}]

RequestType ==
  [op : {"verify", "check", "middleware", "handler"},
   bearer : BOOLEAN,                          \* the headers carry a bearer token
   token : TokenType,
   secret : Materials \cup {None},
   publicKey : KeyType \cup {None}, pem : BOOLEAN,
   adhoc : Seq(KeyType) \cup {None}, jwksUri : BOOLEAN,
   requires : SUBSET {"iss", "aud", "scope"},
   emptyAudiences : BOOLEAN,                  \* requiredAudiences is []
   onError : BOOLEAN]

(* A malformed token is signed by nobody; a PEM has neither kid nor alg. *)
Callable ==
  {r \in RequestType :
     /\ r.token.form # "ok" => r.token.signer = None
     /\ r.pem /\ r.publicKey # None => r.publicKey.kid = None /\ r.publicKey.alg = None}

ASSUME VerificationAssumption ==
  /\ KeySets \subseteq Seq(KeyType)
  /\ Requests \subseteq Callable
  /\ None \notin Materials \cup Kids \cup KeyType \cup Labels \cup Seq(KeyType)
  /\ None \notin Nat \cup {NotANumber} /\ NotANumber \notin Nat
  /\ MaxTime \in Nat
  /\ {ImportMayFail, NextMayThrow} \subseteq BOOLEAN

VARIABLES
  now,        \* Math.floor(Date.now() / 1000)
  request,    \* the call, fixed
  began,      \* history: when it was made
  phase,      \* where it is
  keys,       \* suppliedKeys, or the PEM key
  outcome,    \* what the promise settled with, or None
  response,   \* what the middleware or the handler answered
  continued   \* the middleware has called next()

vars == <<now, request, began, phase, keys, outcome, response, continued>>

token == request.token
Http  == {"middleware", "handler"}

(* Every phase but the first and the last two is an await. *)
Awaiting == {"hmac", "pem", "lookup", "mldsa", "portable", "jose", "verified"}
Phases   == Awaiting \cup {"called", "keys", "settled", "answered"}

Documented ==
  {"JsonWebTokenError", "TokenExpiredError", "InsufficientScopeError",
   "InvalidSignatureError", "AlgorithmMismatchError", "MalformedTokenError",
   "JwksEndpointError"}
(* "TypeError" stands for whatever fetch() or the import of a key throws. *)
Undocumented ==
  {"Error", "TypeError", "UnauthorizedError", "ImportError", "JWKSInvalid",
   "JOSENotSupported", "JWKSMultipleMatchingKeys"}
Accepted == {"payload", "true"}
Outcomes == Accepted \cup {"false"} \cup Documented \cup Undocumented

VerificationTypeOK ==
  /\ now \in Nat /\ began \in Nat
  /\ request \in Callable
  /\ phase \in Phases
  /\ keys \in Seq(KeyType)
  /\ outcome \in Outcomes \cup {None}
  /\ response \in {"401", "403", "onError", "success", "failure", None}
  /\ continued \in BOOLEAN

Init ==
  /\ now = 0 /\ began = 0
  /\ request \in Requests
  /\ phase = "called"
  /\ keys = <<>>
  /\ outcome = None
  /\ response = None
  /\ continued = FALSE

-----------------------------------------------------------------------------
(* Outcomes *)

(* The names of the jose errors and the classes they are converted to. *)
Conversions ==
  [JWTExpired |-> "TokenExpiredError",
   JWSSignatureVerificationFailed |-> "InvalidSignatureError",
   JOSEAlgNotAllowed |-> "AlgorithmMismatchError",
   JWSInvalid |-> "MalformedTokenError",
   JWTClaimValidationFailed |-> "JsonWebTokenError",
   JWKSNoMatchingKey |-> "JsonWebTokenError"]

ASSUME OutcomeAssumption == None \notin Outcomes \cup DOMAIN Conversions

(* Mutant: the signature error of jose is returned unchanged as any other. *)
toVerificationErrorWithoutSignature(e) ==
  IF e = "JWSSignatureVerificationFailed" THEN "Error"
  ELSE IF e \in DOMAIN Conversions THEN Conversions[e] ELSE e

toVerificationError(e) == IF e \in DOMAIN Conversions THEN Conversions[e] ELSE e

Settle(value) ==
  /\ phase' = "settled"
  /\ outcome' = value
  /\ UNCHANGED <<now, request, began, response, continued>>

Reject(e) == Settle(toVerificationError(e)) /\ UNCHANGED keys

Await(place, ks) ==
  /\ phase' = place
  /\ keys' = ks
  /\ UNCHANGED <<now, request, began, outcome, response, continued>>

-----------------------------------------------------------------------------
(* Claims *)

(* checkTokenValidness hands on requiredScopes alone. *)
Unmet == token.lacks \cap request.requires \cap
           IF request.op = "verify" THEN {"iss", "aud", "scope"} ELSE {"scope"}

ExpiredAt(t) == token.exp \in Nat /\ token.exp <= t
EarlyAt(t)   == token.nbf \in Nat /\ token.nbf > t

(* What assertClaims throws for the claims other than exp; None if nothing. *)
ClaimErrorWithoutExp(t) ==
  IF token.nbf = NotANumber \/ EarlyAt(t) \/ Unmet \cap {"iss", "aud"} # {}
  THEN "JsonWebTokenError"
  ELSE IF "scope" \in Unmet THEN "InsufficientScopeError" ELSE None

(* What assertClaims throws: exp is looked at first. *)
ClaimError(t) ==
  IF token.exp = NotANumber THEN "JsonWebTokenError"
  ELSE IF ExpiredAt(t) THEN "TokenExpiredError" ELSE ClaimErrorWithoutExp(t)

(* What jwtVerify finds in the claims of a token whose signature is good:  *)
(* exp is looked at last, and no audience is in an empty list.             *)
JoseClaimError(t) ==
  IF \/ Unmet \cap {"iss", "aud"} # {}
     \/ request.op = "verify" /\ request.emptyAudiences
     \/ NotANumber \in {token.exp, token.nbf} \/ EarlyAt(t)
  THEN "JWTClaimValidationFailed"
  ELSE IF ExpiredAt(t) THEN "JWTExpired" ELSE None

-----------------------------------------------------------------------------
(* The call, up to its first await *)

Readable ==
  /\ phase = "called"
  /\ request.op \in Http => request.bearer
  /\ token.form # "header"

(* checkTokenValidness does not look at publicKey here. *)
Missing ==
  \/ token.alg \in Hmac /\ request.secret = None
  \/ token.alg \in Asymmetric /\ request.adhoc = None /\ ~request.jwksUri

Refused == request.op # "verify" /\ (token.alg \notin Hmac \cup Asymmetric \/ Missing)

(* The path of verifyTokenWithPublicKey. *)
WithPublicKey == Readable /\ ~Refused /\ (request.op # "verify" => token.alg \notin Hmac)

(* Mutant: checkTokenValidness hands on publicKey and adhoc keys alike. *)
PublicKeyKept == request.publicKey

(* checkTokenValidness drops publicKey when adhoc keys are given. *)
PublicKey ==
  IF request.op # "verify" /\ request.adhoc # None THEN None ELSE request.publicKey

NoBearer ==
  /\ phase = "called"
  /\ request.op \in Http /\ ~request.bearer
  /\ Reject("UnauthorizedError")

Unreadable ==
  /\ phase = "called"
  /\ request.op \in Http => request.bearer
  /\ token.form = "header"
  /\ Reject("MalformedTokenError")

Refuse == Readable /\ Refused /\ Reject("JsonWebTokenError")

UseSecret ==
  /\ Readable /\ ~Refused
  /\ request.op # "verify" /\ token.alg \in Hmac
  /\ Await("hmac", keys)

UsePem ==
  /\ WithPublicKey
  /\ PublicKey # None /\ request.pem
  /\ IF token.alg = "ML-DSA-65" THEN Reject("Error") ELSE Await("pem", <<PublicKey>>)

(* A supplied JWK, then the adhoc keys. *)
Supplied ==
  (IF PublicKey # None THEN <<PublicKey>> ELSE <<>>)
    \o (IF request.adhoc # None THEN request.adhoc ELSE <<>>)

UseSupplied ==
  /\ WithPublicKey
  /\ PublicKey # None \/ request.adhoc # None
  /\ ~(PublicKey # None /\ request.pem)
  /\ Await("keys", Supplied)

NothingSupplied == WithPublicKey /\ PublicKey = None /\ request.adhoc = None

UseJwks == NothingSupplied /\ request.jwksUri /\ Await("lookup", keys)

NoKeySource == NothingSupplied /\ ~request.jwksUri /\ Reject("Error")

(* fetchJwksKeys: a key set, or what the cache rejects with. *)
Lookup ==
  /\ phase = "lookup"
  /\ \/ \E ks \in KeySets : Await("keys", ks)
     \/ \E e \in {"JwksEndpointError", "TypeError"} : Reject(e)

-----------------------------------------------------------------------------
(* Routing *)

Signs(k)   == k.material # None /\ k.material = token.signer
Clashes(k) == token.kid # None /\ k.kid # None /\ k.kid # token.kid

IsPortable(k) ==
  \/ token.alg = "ES256K" /\ k.kind = "secp256k1"
  \/ token.alg = "EdDSA" /\ k.kind = "Ed448"

PortableCandidates == {n \in DOMAIN keys : IsPortable(keys[n])}
JoseCandidates     == DOMAIN keys \ PortableCandidates

(* The keys meant for this token: those with its kid, or, for a token      *)
(* without one, the single key of the caller.                              *)
Intended ==
  LET objects == {n \in DOMAIN keys : keys[n].kind # "junk"}
      supplied == PublicKey # None \/ request.adhoc # None IN
  IF token.kid # None THEN {n \in objects : keys[n].kid = token.kid}
  ELSE IF supplied /\ Cardinality(objects) = 1 THEN objects ELSE {}

algFamily(alg) == IF alg \in {"Ed25519", "Ed448"} THEN "EdDSA" ELSE alg

(* Mutant: the label of a key is not looked at. *)
MismatchedNever == FALSE

Mismatched ==
  /\ Intended # {}
  /\ \A n \in Intended : keys[n].alg # None /\ algFamily(keys[n].alg) # token.alg

MismatchedAlgorithm ==
  phase = "keys" /\ Mismatched /\ Reject("AlgorithmMismatchError")

Routed == phase = "keys" /\ ~Mismatched

RouteMlDsa ==
  /\ Routed /\ token.alg = "ML-DSA-65" /\ keys # <<>>
  /\ Await("mldsa", keys)

RoutePortable ==
  /\ Routed /\ token.alg # "ML-DSA-65" /\ PortableCandidates # {}
  /\ Await("portable", keys)

RouteJose ==
  /\ Routed /\ token.alg \notin {"ML-DSA-65", "ES256K"}
  /\ PortableCandidates = {} /\ JoseCandidates # {}
  /\ Await("jose", keys)

NoApplicableKey ==
  /\ Routed
  /\ IF token.alg = "ES256K" THEN PortableCandidates = {} ELSE keys = <<>>
  /\ Reject("Error")

-----------------------------------------------------------------------------
(* The backends *)

(* Mutant: the claims are looked at before the verdict on the signature. *)
ConcludeClaimsFirst(verdict) ==
  IF ClaimError(now) # None THEN Reject(ClaimError(now))
  ELSE IF verdict = "ok" THEN Await("verified", keys) ELSE Reject(verdict)

Conclude(verdict) ==
  IF verdict = "ok" THEN Await("verified", keys) ELSE Reject(verdict)

(* Mutant: a key is tried although it has another kid. *)
MatchesAnyKid == {n \in DOMAIN keys : IsPortable(keys[n])}

(* matchesHeader *)
Matches == {n \in DOMAIN keys : IsPortable(keys[n]) /\ ~Clashes(keys[n])}

(* noble throws for a key that does not decode, and for a signature of     *)
(* another length than the curve's.                                        *)
Throws(k) == k.material = None \/ token.form = "cut"

(* verifyPortableJwt tries the keys in order and catches nothing.          *)
PortableVerdict ==
  LET throwing == {n \in Matches : Throws(keys[n])} IN
  IF token.form = "rest" THEN "MalformedTokenError"
  ELSE IF \E n \in Matches : Signs(keys[n]) /\ \A m \in throwing : n < m THEN "ok"
  ELSE IF throwing # {} THEN "Error" ELSE "InvalidSignatureError"

(* Mutant: the failure of the portable keys is final. *)
FallsToJoseNever == FALSE

(* The failure of the portable keys is dropped if there are others. *)
FallsToJose == JoseCandidates # {}

VerifyPortable ==
  /\ phase = "portable"
  /\ IF PortableVerdict # "ok" /\ FallsToJose
     THEN Await("jose", keys) ELSE Conclude(PortableVerdict)

JoseKinds ==
  [RS256 |-> "RSA", PS256 |-> "RSA", ES256 |-> "P-256", EdDSA |-> "Ed25519"]
IsJose(k) == token.alg \in DOMAIN JoseKinds /\ k.kind = JoseKinds[token.alg]

(* checkKeyLength of jose: no weak RSA key is used. *)
TooWeak(k) == k.kind = "RSA" /\ k.weak

(* jwtVerify with one key *)
JoseVerdict(k) ==
  IF k.material = None \/ TooWeak(k) THEN "TypeError"
  ELSE IF ~Signs(k) THEN "JWSSignatureVerificationFailed"
  ELSE IF JoseClaimError(now) # None THEN JoseClaimError(now) ELSE "ok"

(* jwtVerify with createLocalJWKSet, which wants one matching key.         *)
JoseSetVerdict ==
  LET fits(k) == IsJose(k) /\ (token.kid # None => k.kid = token.kid)
      matching == {n \in JoseCandidates : fits(keys[n])} IN
  IF \E n \in JoseCandidates : keys[n].kind = "junk" THEN "JWKSInvalid"
  ELSE IF token.alg \in Hmac \cup {"none"} THEN "JOSENotSupported"
  ELSE IF matching = {} THEN "JWKSNoMatchingKey"
  ELSE IF Cardinality(matching) > 1 THEN "JWKSMultipleMatchingKeys"
  ELSE JoseVerdict(keys[CHOOSE n \in matching : TRUE])

(* A malformed rest is found before or after the key is looked for. *)
VerifyJose ==
  /\ phase = "jose"
  /\ \E v \in {JoseSetVerdict} \cup IF token.form = "rest" THEN {"JWSInvalid"} ELSE {} :
       Conclude(v)

(* needsPortableEdDsa, or ES256K: a PEM that does not decode is skipped.   *)
PemVerdict ==
  LET k == keys[1] IN
  IF token.alg = "ES256K" \/ (IsPortable(k) /\ k.material # None)
  THEN IF token.form = "rest" THEN "MalformedTokenError"
       ELSE IF IsPortable(k) /\ Signs(k) THEN "ok"
       ELSE IF IsPortable(k) /\ k.material # None /\ token.form = "cut" THEN "Error"
       ELSE "InvalidSignatureError"
  ELSE IF k.kind = "oct" THEN "TypeError"
  ELSE IF token.alg \notin DOMAIN JoseKinds THEN "JOSENotSupported"
  ELSE IF ~IsJose(k) THEN "TypeError"
  ELSE IF token.form = "rest" /\ k.material # None THEN "JWSInvalid"
  ELSE JoseVerdict(k)

VerifyPem == phase = "pem" /\ Conclude(PemVerdict)

MlDsaMatches ==
  {n \in DOMAIN keys :
     keys[n].kind = "AKP" /\ keys[n].alg = token.alg /\ ~Clashes(keys[n])}

(* verifyMlDsaJwt: what jose cannot verify is tried with noble, for which  *)
(* the import must succeed.                                                *)
VerifyMlDsa ==
  /\ phase = "mldsa"
  /\ \/ Conclude(IF token.form = "rest" THEN "MalformedTokenError"
                 ELSE IF \E n \in MlDsaMatches : Signs(keys[n]) THEN "ok"
                 ELSE "InvalidSignatureError")
     \/ /\ ImportMayFail
        /\ token.form = "ok"
        /\ \E n \in MlDsaMatches : keys[n].material # None
        /\ Reject("ImportError")

AssertClaims ==
  /\ phase = "verified"
  /\ IF ClaimError(now) = None THEN Settle("payload") /\ UNCHANGED keys
     ELSE Reject(ClaimError(now))

(* verifyHSTokenWithSecretString: every failure but expiry is null, and so *)
(* is a token without exp.                                                 *)
HmacError ==
  IF token.form = "rest" THEN "JWSInvalid"
  ELSE IF request.secret # token.signer THEN "JWSSignatureVerificationFailed"
  ELSE JoseClaimError(now)

VerifyHmac ==
  /\ phase = "hmac"
  /\ UNCHANGED keys
  /\ Settle(IF HmacError = "JWTExpired" THEN "TokenExpiredError"
            ELSE IF HmacError # None \/ token.exp = None THEN "false"
            ELSE IF "scope" \in Unmet THEN "InsufficientScopeError" ELSE "true")

-----------------------------------------------------------------------------
(* The middleware and the handler *)

ErrorResponse(e) ==
  IF request.onError THEN "onError"
  ELSE IF e = "InsufficientScopeError" THEN "403" ELSE "401"

(* req.auth = result; next().  What next throws is caught as a failure. *)
Continue ==
  /\ phase = "settled" /\ request.op = "middleware"
  /\ outcome \in Accepted \cup {"false"}
  /\ phase' = "answered"
  /\ continued' = TRUE
  /\ \/ UNCHANGED response
     \/ NextMayThrow /\ response' = ErrorResponse("Error")
  /\ UNCHANGED <<now, request, began, keys, outcome>>

Fail ==
  /\ phase = "settled" /\ request.op = "middleware"
  /\ outcome \notin Accepted \cup {"false"}
  /\ phase' = "answered"
  /\ response' = ErrorResponse(outcome)
  /\ UNCHANGED <<now, request, began, keys, outcome, continued>>

Handled ==
  /\ phase = "settled" /\ request.op = "handler"
  /\ phase' = "answered"
  /\ response' = IF outcome \in Accepted \cup {"false"} THEN "success" ELSE "failure"
  /\ UNCHANGED <<now, request, began, keys, outcome, continued>>

Tick ==
  /\ phase \in Awaiting
  /\ now < MaxTime
  /\ now' = now + 1
  /\ UNCHANGED <<request, began, phase, keys, outcome, response, continued>>

Done ==
  /\ phase = "answered" \/ (phase = "settled" /\ request.op \notin Http)
  /\ UNCHANGED vars

Next ==
  \/ NoBearer \/ Unreadable \/ Refuse
  \/ UseSecret \/ UsePem \/ UseSupplied \/ UseJwks \/ NoKeySource \/ Lookup
  \/ MismatchedAlgorithm \/ RouteMlDsa \/ RoutePortable \/ RouteJose \/ NoApplicableKey
  \/ VerifyPortable \/ VerifyJose \/ VerifyPem \/ VerifyMlDsa \/ VerifyHmac
  \/ AssertClaims
  \/ Continue \/ Fail \/ Handled
  \/ Tick \/ Done

Spec == Init /\ [][Next]_vars

-----------------------------------------------------------------------------
(***************************************************************************)
(* Safety.                                                                 *)
(***************************************************************************)

(* A key of the kind the algorithm wants, and of a length that is used. *)
Fits(k) ==
  \/ IsPortable(k)
  \/ IsJose(k) /\ ~TooWeak(k)
  \/ token.alg = "ML-DSA-65" /\ k.kind = "AKP" /\ k.alg = token.alg

(* A token is accepted only if one of the keys of this call, of the right  *)
(* kind and not published under another kid, signed it, whatever path it   *)
(* took and whichever other keys failed or threw on the way.               *)
AcceptedIsGenuine ==
  /\ outcome = "payload" =>
       \E n \in DOMAIN keys : Signs(keys[n]) /\ Fits(keys[n]) /\ ~Clashes(keys[n])
  /\ outcome = "true" => token.alg \in Hmac /\ token.signer = request.secret

(* A token accepted now is not expired now, although the signature may     *)
(* have been checked earlier and the portable paths check nothing else;    *)
(* nor is any requirement on its claims unmet.                             *)
AcceptedIsCurrent ==
  outcome \in Accepted =>
    /\ NotANumber \notin {token.exp, token.nbf}
    /\ ~ExpiredAt(now) /\ ~EarlyAt(now)
    /\ Unmet = {}
    /\ outcome = "true" => token.exp # None

(* No error about the claims of a token is raised, and nothing is said of  *)
(* its scopes, unless a key of the call signed it.                         *)
ClaimsBlamedAfterSignature ==
  outcome \in {"TokenExpiredError", "InsufficientScopeError"} =>
    \/ token.alg \in Hmac /\ token.signer = request.secret
    \/ \E n \in DOMAIN keys : Signs(keys[n])

Concluded == phase \in {"settled", "answered"}

(* The one key of an ended call fits the token, which is well formed       *)
(* but that it may not have been signed.                                   *)
OneFittingKey ==
  LET k == keys[1] IN
  /\ Concluded /\ Len(keys) = 1
  /\ Fits(k) /\ k.material # None /\ k.kid = token.kid /\ k.alg \in {None, token.alg}
  /\ token.form \in {"ok", "cut"} /\ outcome # "ImportError"

(* "These classes are raised for every algorithm": with one key that fits  *)
(* the token, each single defect has its class on every path; on that of   *)
(* the portable curves if the signature has the length of the curve.       *)
SameClassOnEveryPath ==
  LET k == keys[1]
      other == \/ Unmet \cap {"iss", "aud"} # {} \/ request.emptyAudiences
               \/ NotANumber \in {token.exp, token.nbf} \/ EarlyAt(began) IN
  OneFittingKey /\ (token.form = "cut" => ~IsPortable(k))
  => /\ ~Signs(k) => outcome = "InvalidSignatureError"
     /\ Signs(k) /\ ~other /\ ExpiredAt(began) => outcome = "TokenExpiredError"
     /\ Signs(k) /\ ~other /\ ~ExpiredAt(now) =>
          outcome = IF "scope" \in Unmet THEN "InsufficientScopeError" ELSE "payload"

(* "Given a signature that does not verify, when it is verified, then      *)
(* InvalidSignatureError is raised", of whatever length the signature is:  *)
(* violated where noble throws.                                            *)
BadSignatureIsInvalid ==
  OneFittingKey /\ ~Signs(keys[1]) => outcome = "InvalidSignatureError"

(* A good token is accepted when exactly one key has its kid and is the    *)
(* right one, whatever other keys the set has, also ones that do not       *)
(* decode or fail before it is tried.                                      *)
RightKeyFound ==
  /\ Concluded
  /\ \E n \in DOMAIN keys :
       /\ Signs(keys[n]) /\ Fits(keys[n])
       /\ token.kid # None /\ keys[n].kid = token.kid
       /\ keys[n].alg = None \/ algFamily(keys[n].alg) = token.alg
       /\ \A m \in DOMAIN keys \ {n} :
            keys[m].kind # "junk" /\ keys[m].kid \notin {None, token.kid}
  /\ ClaimError(now) = None /\ ~request.emptyAudiences
  => outcome \in {"payload", "ImportError"}

(* "Verification failures MUST raise the classes documented": so does a    *)
(* verification with keys that all decode.                                 *)
FailuresDocumented ==
  /\ Concluded /\ keys # <<>>
  /\ ~request.pem /\ \A n \in DOMAIN keys : keys[n].material # None
  => outcome \notin Undocumented

(* "Sets req.auth on success ... and 401 for any other failure": next() is *)
(* called only for a token that was accepted.                              *)
OnlyAcceptedContinue == continued => outcome \in Accepted

(***************************************************************************)
(* What a verification promises, see Verifier.                             *)
(***************************************************************************)

(* The rings of keys a call names.  In checkTokenValidness the adhoc keys  *)
(* take the place of publicKey; a PEM stands alone; an endpoint is asked   *)
(* when there is nothing else.                                             *)
AsksEndpoint == request.publicKey = None /\ request.adhoc = None

Named ==
  IF AsksEndpoint THEN IF request.jwksUri THEN KeySets ELSE {}
  ELSE IF request.adhoc # None /\ (request.op # "verify" \/ request.publicKey = None)
  THEN {request.adhoc}
  ELSE IF request.adhoc = None \/ request.pem THEN {<<request.publicKey>>}
  ELSE {<<request.publicKey>> \o request.adhoc}

(* checkTokenValidness takes a secret, and keys only beside adhoc or a URI. *)
Secret == request.op # "verify" /\ token.alg \in Hmac /\ request.secret # None
Keyed  == request.op # "verify" => request.adhoc # None \/ request.jwksUri

SignedFor ==
  \/ \E n \in DOMAIN keys : Signs(keys[n]) /\ Fits(keys[n]) /\ ~Clashes(keys[n])
  \/ Secret /\ token.signer = request.secret

ClaimsHold ==
  /\ NotANumber \notin {token.exp, token.nbf}
  /\ ~ExpiredAt(now) /\ ~EarlyAt(now)
  /\ Unmet = {}

(* No kid is looked at beside a PEM.                                       *)
UsesPem == PublicKey # None /\ request.pem

(* The key n of the ring ks has to be found: it is the only one, or the    *)
(* only one that may have the kid of the token.                            *)
HasToBeFound(ks, n) ==
  /\ Signs(ks[n]) /\ Fits(ks[n])
  /\ ks[n].alg = None \/ algFamily(ks[n].alg) = token.alg
  /\ \/ DOMAIN ks = {n} /\ (token.kid = None \/ UsesPem)
     \/ /\ token.kid # None /\ ks[n].kid = token.kid
        /\ \A m \in DOMAIN ks \ {n} :
             ks[m].kind # "junk" /\ ks[m].kid \notin {None, token.kid}

(* A good token, but for its claims; the import of noble aside.            *)
CertainByKey ==
  /\ Keyed /\ ~request.emptyAudiences
  /\ token.alg = "ML-DSA-65" => ~ImportMayFail /\ ~UsesPem
  /\ \E ks \in IF AsksEndpoint THEN {keys} ELSE Named :
       \E n \in DOMAIN ks : HasToBeFound(ks, n)

CertainBySecret == Secret /\ token.signer = request.secret /\ token.exp # None

Certain == (request.op \in Http => request.bearer) /\ (CertainByKey \/ CertainBySecret)

(* A verification answers once, accepts what a key or the secret of its    *)
(* own call signed, while the claims hold, and refuses nothing it has to   *)
(* accept, whatever path the token takes and however long it takes.        *)
Promise ==
  INSTANCE Verifier WITH
    NoKeys  <- <<>>,
    named   <- Named,
    genuine <- SignedFor,
    current <- ClaimsHold,
    certain <- Certain,
    ring    <- keys,
    answer  <- IF outcome = None THEN None
               ELSE IF outcome \in Accepted THEN "accepted" ELSE "refused"

ImplementsVerifier == Promise!Spec
=============================================================================
