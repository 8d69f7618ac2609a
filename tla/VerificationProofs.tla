------------------------- MODULE VerificationProofs -------------------------
(***************************************************************************)
(* Proofs about Verification: what is accepted was signed and is current,  *)
(* and claims are blamed only after the signature, for all requests, key   *)
(* sets and clocks.                                                        *)
(***************************************************************************)
EXTENDS Verification, TLAPS

Blames == {"TokenExpiredError", "InsufficientScopeError"}

(* A key of the call signed the token and may be used for it. *)
Genuine ==
  \E n \in DOMAIN keys : Signs(keys[n]) /\ Fits(keys[n]) /\ ~Clashes(keys[n])

SignedBySome == \E n \in DOMAIN keys : Signs(keys[n])

(* What each await has established. *)
PhaseInv ==
  /\ request \in Callable
  /\ ~Concluded => outcome = None
  /\ phase = "hmac" => request.op # "verify" /\ token.alg \in Hmac
  /\ phase = "pem" =>
       keys = <<request.publicKey>> /\ request.pem /\ request.publicKey # None
  /\ phase = "mldsa" => token.alg = "ML-DSA-65"
  /\ phase = "verified" => Genuine

VInv ==
  PhaseInv /\ AcceptedIsGenuine /\ AcceptedIsCurrent /\ ClaimsBlamedAfterSignature

-----------------------------------------------------------------------------
(* What each verdict says. *)

(* A rejection never accepts, and blames the claims only if it was thrown  *)
(* for them.                                                               *)
LEMMA ConversionKeeps ==
  ASSUME NEW e
  PROVE  /\ e \notin Accepted => toVerificationError(e) \notin Accepted
         /\ e \notin Blames \cup {"JWTExpired"} => toVerificationError(e) \notin Blames
  BY DEF toVerificationError, Conversions, Accepted, Blames

LEMMA JoseVerdictSound ==
  ASSUME NEW k
  PROVE  /\ JoseVerdict(k) \in {"ok", "JWTExpired"} => Signs(k) /\ ~TooWeak(k)
         /\ JoseVerdict(k) \notin Accepted \cup Blames
  BY OutcomeAssumption DEF JoseVerdict, JoseClaimError, Accepted, Blames

LEMMA JoseSetVerdictSound ==
  /\ JoseSetVerdict = "ok" => Genuine
  /\ JoseSetVerdict = "JWTExpired" => SignedBySome
  /\ JoseSetVerdict \notin Accepted \cup Blames
<1> DEFINE fits(k) == IsJose(k) /\ (token.kid # None => k.kid = token.kid)
           M == {n \in JoseCandidates : fits(keys[n])}
           n == CHOOSE m \in M : TRUE
<1>1. CASE JoseSetVerdict = JoseVerdict(keys[n]) /\ M # {}
  <2>1. n \in M
    BY <1>1
  <2>2. n \in DOMAIN keys /\ IsJose(keys[n]) /\ ~Clashes(keys[n])
    BY <2>1 DEF JoseCandidates, Clashes
  <2>3. QED  BY <1>1, <2>2, JoseVerdictSound DEF Genuine, SignedBySome, Fits
<1>2. CASE JoseSetVerdict \in {"JWKSInvalid", "JOSENotSupported", "JWKSNoMatchingKey",
                               "JWKSMultipleMatchingKeys"}
  BY <1>2 DEF Accepted, Blames
<1>3. QED  BY <1>1, <1>2 DEF JoseSetVerdict

LEMMA PortableVerdictSound ==
  /\ PortableVerdict = "ok" => Genuine
  /\ PortableVerdict \notin Accepted \cup Blames \cup {"JWTExpired"}
  BY DEF PortableVerdict, Matches, Genuine, Fits, Accepted, Blames

LEMMA PemVerdictSound ==
  ASSUME PhaseInv, phase = "pem"
  PROVE  /\ PemVerdict = "ok" => Genuine
         /\ PemVerdict = "JWTExpired" => SignedBySome
         /\ PemVerdict \notin Accepted \cup Blames
<1> DEFINE k == keys[1]
<1>1. 1 \in DOMAIN keys /\ k = request.publicKey /\ request \in Callable
  BY DEF PhaseInv
<1>2. ~Clashes(k)
  BY <1>1, VerificationAssumption DEF PhaseInv, Clashes, Callable
<1>3. PemVerdict = "ok" => Signs(k) /\ Fits(k)
  BY JoseVerdictSound DEF PemVerdict, Fits
<1>4. PemVerdict = "JWTExpired" => Signs(k)
  BY JoseVerdictSound DEF PemVerdict
<1>5. PemVerdict \notin Accepted \cup Blames
  BY JoseVerdictSound DEF PemVerdict, Accepted, Blames
<1>6. QED  BY <1>1, <1>2, <1>3, <1>4, <1>5 DEF Genuine, SignedBySome

LEMMA ClaimErrorSound ==
  /\ ClaimError(now) \notin Accepted
  /\ ClaimError(now) = None =>
       /\ NotANumber \notin {token.exp, token.nbf}
       /\ ~ExpiredAt(now) /\ ~EarlyAt(now)
       /\ Unmet = {}
<1>1. Unmet \subseteq {"iss", "aud", "scope"}
  BY DEF Unmet
<1>2. ClaimError(now) \notin Accepted
  BY OutcomeAssumption
  DEF ClaimError, ClaimErrorWithoutExp, Accepted, Outcomes, Documented
<1>3. ASSUME ClaimError(now) = None
      PROVE  /\ NotANumber \notin {token.exp, token.nbf}
             /\ ~ExpiredAt(now) /\ ~EarlyAt(now)
             /\ Unmet \cap {"iss", "aud"} = {} /\ "scope" \notin Unmet
  BY <1>3, OutcomeAssumption
  DEF ClaimError, ClaimErrorWithoutExp, Accepted, Outcomes, Documented
<1>4. QED  BY <1>1, <1>2, <1>3

-----------------------------------------------------------------------------
(* What the ways a step may end preserve. *)

LEMMA RejectKeeps ==
  ASSUME VInv, NEW e, Reject(e), e \notin Accepted,
         e \in Blames \cup {"JWTExpired"} => SignedBySome
  PROVE  VInv'
<1>1. /\ keys' = keys /\ request' = request /\ now' = now
      /\ phase' = "settled" /\ outcome' = toVerificationError(e)
  BY DEF Reject, Settle
<1>2. PhaseInv'
  BY <1>1 DEF VInv, PhaseInv, Concluded
<1>3. outcome' \notin Accepted
  BY <1>1, ConversionKeeps
<1>4. outcome' \in Blames => SignedBySome
  BY <1>1, ConversionKeeps
<1>5. AcceptedIsGenuine' /\ AcceptedIsCurrent'
  BY <1>3 DEF AcceptedIsGenuine, AcceptedIsCurrent, Accepted
<1>6. ClaimsBlamedAfterSignature'
  BY <1>1, <1>4 DEF ClaimsBlamedAfterSignature, Blames, SignedBySome, Signs, token
<1>7. QED  BY <1>2, <1>5, <1>6 DEF VInv

LEMMA AwaitKeeps ==
  ASSUME VInv, ~Concluded, NEW place, NEW ks, Await(place, ks),
         place \in Awaiting \cup {"keys"},
         place = "hmac" => request.op # "verify" /\ token.alg \in Hmac,
         place = "pem" =>
           ks = <<request.publicKey>> /\ request.pem /\ request.publicKey # None,
         place = "mldsa" => token.alg = "ML-DSA-65",
         place = "verified" => Genuine /\ ks = keys
  PROVE  VInv'
<1>1. /\ phase' = place /\ keys' = ks /\ outcome' = outcome
      /\ request' = request /\ now' = now
  BY DEF Await
<1>2. outcome' = None
  BY <1>1 DEF VInv, PhaseInv
<1>3. PhaseInv'
  <2>1. place = "verified" => Genuine'
    BY <1>1 DEF Genuine, Signs, Fits, Clashes, IsPortable, IsJose, token
  <2>2. QED
    BY <1>1, <1>2, <2>1 DEF VInv, PhaseInv, token
<1>4. QED
  BY <1>2, <1>3, OutcomeAssumption
  DEF VInv, AcceptedIsGenuine, AcceptedIsCurrent, ClaimsBlamedAfterSignature, Accepted,
      Outcomes, Documented

LEMMA ConcludeKeeps ==
  ASSUME VInv, ~Concluded, NEW v, Conclude(v), v \notin Accepted \cup Blames,
         v = "ok" => Genuine, v = "JWTExpired" => SignedBySome
  PROVE  VInv'
<1>1. CASE v = "ok"
  BY <1>1, AwaitKeeps DEF Conclude, Awaiting
<1>2. CASE v # "ok"
  BY <1>2, RejectKeeps DEF Conclude
<1>3. QED  BY <1>1, <1>2

-----------------------------------------------------------------------------
(* Types *)

Results == Outcomes \cup DOMAIN Conversions

(* What a rejection leaves is an outcome. *)
LEMMA RejectionTyped ==
  ASSUME VerificationTypeOK, NEW e \in Results, Reject(e)
  PROVE  VerificationTypeOK'
<1>1. toVerificationError(e) \in Outcomes
  BY DEF toVerificationError, Results, Conversions, Outcomes, Documented
<1>2. QED
  BY <1>1 DEF Reject, Settle, VerificationTypeOK, Phases

LEMMA AwaitTyped ==
  ASSUME VerificationTypeOK, NEW place \in Phases, NEW ks \in Seq(KeyType), Await(place, ks)
  PROVE  VerificationTypeOK'
  BY DEF Await, VerificationTypeOK

LEMMA ConcludeTyped ==
  ASSUME VerificationTypeOK, NEW v \in Results \cup {"ok"}, Conclude(v)
  PROVE  VerificationTypeOK'
<1>1. CASE v = "ok"
  BY <1>1, AwaitTyped DEF Conclude, VerificationTypeOK, Phases, Awaiting
<1>2. CASE v # "ok"
  BY <1>2, RejectionTyped DEF Conclude
<1>3. QED  BY <1>1, <1>2

LEMMA ClaimErrorTyped ==
  /\ ClaimError(now) \in Results \cup {None}
  /\ JoseClaimError(now) \in Results \cup {None}
  BY DEF ClaimError, ClaimErrorWithoutExp, JoseClaimError, Results, Outcomes, Documented,
         Conversions

LEMMA JoseVerdictTyped ==
  ASSUME NEW k
  PROVE  JoseVerdict(k) \in Results \cup {"ok"}
  BY ClaimErrorTyped DEF JoseVerdict, Results, Outcomes, Undocumented, Conversions

LEMMA VerdictsTyped ==
  /\ JoseSetVerdict \in Results \cup {"ok"}
  /\ PortableVerdict \in Results \cup {"ok"}
  /\ PemVerdict \in Results \cup {"ok"}
<1>1. JoseSetVerdict \in Results \cup {"ok"}
  BY JoseVerdictTyped DEF JoseSetVerdict, Results, Outcomes, Undocumented, Conversions
<1>2. PortableVerdict \in Results \cup {"ok"}
  BY DEF PortableVerdict, Results, Outcomes, Documented, Undocumented
<1>3. PemVerdict \in Results \cup {"ok"}
  BY JoseVerdictTyped
  DEF PemVerdict, Results, Outcomes, Documented, Undocumented, Conversions
<1>4. QED  BY <1>1, <1>2, <1>3

LEMMA SuppliedTyped ==
  ASSUME request \in Callable
  PROVE  /\ PublicKey \in KeyType \cup {None}
         /\ Supplied \in Seq(KeyType)
<1>1. /\ request.publicKey \in KeyType \cup {None}
      /\ request.adhoc \in Seq(KeyType) \cup {None}
  BY DEF Callable, RequestType
<1>2. PublicKey \in KeyType \cup {None}
  BY <1>1 DEF PublicKey
<1>3. (IF PublicKey # None THEN <<PublicKey>> ELSE <<>>) \in Seq(KeyType)
  BY <1>2
<1>4. (IF request.adhoc # None THEN request.adhoc ELSE <<>>) \in Seq(KeyType)
  BY <1>1
<1>5. QED  BY <1>2, <1>3, <1>4 DEF Supplied

LEMMA TypeInit == Init => VerificationTypeOK
<1>1. <<>> \in Seq(KeyType)
  OBVIOUS
<1>2. Requests \subseteq Callable
  BY VerificationAssumption
<1>3. ASSUME Init PROVE keys \in Seq(KeyType)
  <2>1. keys = <<>>
    BY <1>3 DEF Init
  <2>2. QED  BY <1>1, <2>1
<1>4. ASSUME Init PROVE /\ now \in Nat /\ began \in Nat /\ request \in Callable
                        /\ phase \in Phases /\ outcome \in Outcomes \cup {None}
                        /\ response \in {"401", "403", "onError", "success", "failure", None}
                        /\ continued \in BOOLEAN
  BY <1>2, <1>4 DEF Init, Phases
<1>5. QED  BY <1>3, <1>4 DEF VerificationTypeOK

LEMMA TypeNext == VerificationTypeOK /\ [Next]_vars => VerificationTypeOK'
<1> SUFFICES ASSUME VerificationTypeOK, [Next]_vars PROVE VerificationTypeOK'
  OBVIOUS
<1> USE DEF Phases, Awaiting
<1>1. request \in Callable /\ keys \in Seq(KeyType)
  BY DEF VerificationTypeOK
<1>2. {"Error", "UnauthorizedError", "MalformedTokenError", "JsonWebTokenError",
       "AlgorithmMismatchError", "JwksEndpointError", "TypeError", "ImportError",
       "InvalidSignatureError", "JWSInvalid"} \subseteq Results
  BY DEF Results, Outcomes, Documented, Undocumented, Conversions
<1>3. CASE NoBearer \/ Unreadable \/ Refuse \/ NoKeySource \/ MismatchedAlgorithm
           \/ NoApplicableKey
  BY <1>3, <1>2, RejectionTyped
  DEF NoBearer, Unreadable, Refuse, NoKeySource, MismatchedAlgorithm, NoApplicableKey
<1>4. CASE UseSecret \/ UseJwks \/ RouteMlDsa \/ RoutePortable \/ RouteJose
  BY <1>4, <1>1, AwaitTyped
  DEF UseSecret, UseJwks, RouteMlDsa, RoutePortable, RouteJose
<1>5. CASE UsePem
  <2>1. <<PublicKey>> \in Seq(KeyType)
    BY <1>1, <1>5, SuppliedTyped DEF UsePem
  <2>2. QED  BY <1>2, <1>5, <2>1, AwaitTyped, RejectionTyped DEF UsePem
<1>6. CASE UseSupplied
  BY <1>1, <1>6, SuppliedTyped, AwaitTyped DEF UseSupplied
<1>7. CASE Lookup
  BY <1>2, <1>7, VerificationAssumption, AwaitTyped, RejectionTyped DEF Lookup
<1>8. CASE VerifyPortable
  BY <1>1, <1>8, VerdictsTyped, AwaitTyped, ConcludeTyped DEF VerifyPortable
<1>9. CASE VerifyJose \/ VerifyPem
  BY <1>2, <1>9, VerdictsTyped, ConcludeTyped DEF VerifyJose, VerifyPem
<1>10. CASE VerifyMlDsa
  BY <1>2, <1>10, ConcludeTyped, RejectionTyped DEF VerifyMlDsa
<1>11. CASE VerifyHmac
  BY <1>11
  DEF VerifyHmac, Settle, VerificationTypeOK, Outcomes, Documented, Accepted
<1>12. CASE AssertClaims
  <2>1. CASE ClaimError(now) = None
    BY <1>12, <2>1 DEF AssertClaims, Settle, VerificationTypeOK, Outcomes, Accepted
  <2>2. CASE ClaimError(now) # None
    BY <1>12, <2>2, ClaimErrorTyped, RejectionTyped DEF AssertClaims
  <2>3. QED  BY <2>1, <2>2
<1>13. CASE Continue \/ Fail \/ Handled
  BY <1>13 DEF Continue, Fail, Handled, ErrorResponse, VerificationTypeOK
<1>14. CASE Tick \/ Done \/ UNCHANGED vars
  BY <1>14 DEF Tick, Done, vars, VerificationTypeOK
<1>15. QED
  BY <1>3, <1>4, <1>5, <1>6, <1>7, <1>8, <1>9, <1>10, <1>11, <1>12, <1>13, <1>14 DEF Next

(* Every variable of a verification keeps its type, whatever is asked; in  *)
(* particular every settled outcome is one of the listed ones.             *)
THEOREM VerificationTypes == Spec => []VerificationTypeOK
  BY TypeInit, TypeNext, PTL DEF Spec

-----------------------------------------------------------------------------
LEMMA VInvInit == Init => VInv
  BY VerificationAssumption, OutcomeAssumption
  DEF Init, VInv, PhaseInv, Concluded, AcceptedIsGenuine, AcceptedIsCurrent,
      ClaimsBlamedAfterSignature, Accepted, Outcomes, Documented

LEMMA VInvNext == VInv /\ [Next]_vars => VInv'
<1> SUFFICES ASSUME VInv, [Next]_vars PROVE VInv'
  OBVIOUS
<1>1. CASE NoBearer \/ Unreadable \/ Refuse \/ NoKeySource \/ MismatchedAlgorithm
           \/ NoApplicableKey
  BY <1>1, RejectKeeps
  DEF NoBearer, Unreadable, Refuse, NoKeySource, MismatchedAlgorithm, NoApplicableKey,
      Accepted, Blames
<1>2. CASE UseSecret
  BY <1>2, AwaitKeeps DEF UseSecret, Readable, Concluded, Awaiting
<1>3. CASE UsePem
  <2>1. ~Concluded
    BY <1>3 DEF UsePem, WithPublicKey, Readable, Concluded
  <2>2. CASE Reject("Error")
    BY <2>2, RejectKeeps DEF Accepted, Blames
  <2>3. CASE Await("pem", <<PublicKey>>)
    <3>1. PublicKey = request.publicKey
      BY <1>3 DEF UsePem, PublicKey
    <3>2. QED
      BY <1>3, <2>1, <2>3, <3>1, AwaitKeeps DEF UsePem, Awaiting
  <2>4. QED  BY <1>3, <2>2, <2>3 DEF UsePem
<1>4. CASE UseSupplied \/ UseJwks
  BY <1>4, AwaitKeeps
  DEF UseSupplied, UseJwks, NothingSupplied, WithPublicKey, Readable, Concluded, Awaiting
<1>5. CASE Lookup
  <2>1. ASSUME NEW ks \in KeySets, Await("keys", ks) PROVE VInv'
    BY <1>5, <2>1, AwaitKeeps DEF Lookup, Concluded
  <2>2. ASSUME NEW e \in {"JwksEndpointError", "TypeError"}, Reject(e) PROVE VInv'
    BY <2>2, RejectKeeps DEF Accepted, Blames
  <2>3. QED  BY <1>5, <2>1, <2>2 DEF Lookup
<1>6. CASE RouteMlDsa \/ RoutePortable \/ RouteJose
  BY <1>6, AwaitKeeps DEF RouteMlDsa, RoutePortable, RouteJose, Routed, Concluded, Awaiting
<1>7. CASE VerifyPortable
  <2>1. ~Concluded
    BY <1>7 DEF VerifyPortable, Concluded
  <2>2. CASE Await("jose", keys)
    BY <2>1, <2>2, AwaitKeeps DEF Awaiting
  <2>3. CASE Conclude(PortableVerdict)
    BY <2>1, <2>3, ConcludeKeeps, PortableVerdictSound
  <2>4. QED  BY <1>7, <2>2, <2>3 DEF VerifyPortable
<1>8. CASE VerifyJose
  <2>1. ~Concluded
    BY <1>8 DEF VerifyJose, Concluded
  <2>2. CASE Conclude(JoseSetVerdict)
    BY <2>1, <2>2, ConcludeKeeps, JoseSetVerdictSound
  <2>3. CASE Conclude("JWSInvalid")
    BY <2>1, <2>3, ConcludeKeeps DEF Accepted, Blames
  <2>4. QED  BY <1>8, <2>2, <2>3 DEF VerifyJose
<1>9. CASE VerifyPem
  BY <1>9, ConcludeKeeps, PemVerdictSound DEF VerifyPem, Concluded, VInv
<1>10. CASE VerifyMlDsa
  <2>1. ~Concluded
    BY <1>10 DEF VerifyMlDsa, Concluded
  <2>2. ASSUME NEW n \in MlDsaMatches, Signs(keys[n]) PROVE Genuine
    BY <1>10, <2>2 DEF VerifyMlDsa, VInv, PhaseInv, MlDsaMatches, Genuine, Fits
  <2>3. CASE Reject("ImportError")
    BY <2>3, RejectKeeps DEF Accepted, Blames
  <2>4. CASE /\ Conclude("ok")
             /\ \E n \in MlDsaMatches : Signs(keys[n])
    BY <2>1, <2>2, <2>4, ConcludeKeeps DEF Accepted, Blames
  <2>5. CASE Conclude("MalformedTokenError") \/ Conclude("InvalidSignatureError")
    BY <2>1, <2>5, ConcludeKeeps DEF Accepted, Blames
  <2>6. QED  BY <1>10, <2>3, <2>4, <2>5 DEF VerifyMlDsa
<1>11. CASE VerifyHmac
  <2>1. /\ request.op # "verify" /\ token.alg \in Hmac
        /\ keys' = keys /\ request' = request /\ now' = now /\ phase' = "settled"
    BY <1>11 DEF VerifyHmac, Settle, VInv, PhaseInv
  <2>2. /\ outcome' \in Blames \cup {"true"} => token.signer = request.secret
        /\ outcome' # "payload"
    BY <1>11, OutcomeAssumption
    DEF VerifyHmac, Settle, HmacError, JoseClaimError, Blames, Conversions
  <2>3. outcome' = "true" =>
          /\ NotANumber \notin {token.exp, token.nbf}
          /\ ~ExpiredAt(now) /\ ~EarlyAt(now)
          /\ token.exp # None /\ "scope" \notin Unmet
    BY <1>11, OutcomeAssumption
    DEF VerifyHmac, Settle, HmacError, JoseClaimError, Conversions
  <2>4. "scope" \notin Unmet => Unmet = {}
    BY <2>1 DEF Unmet
  <2>5. PhaseInv'
    BY <2>1 DEF VInv, PhaseInv, Concluded
  <2>6. AcceptedIsGenuine' /\ AcceptedIsCurrent' /\ ClaimsBlamedAfterSignature'
    BY <2>1, <2>2, <2>3, <2>4
    DEF AcceptedIsGenuine, AcceptedIsCurrent, ClaimsBlamedAfterSignature, Accepted, Blames,
        token, ExpiredAt, EarlyAt, Unmet
  <2>7. QED  BY <2>5, <2>6 DEF VInv
<1>12. CASE AssertClaims
  <2>1. Genuine /\ SignedBySome
    BY <1>12 DEF AssertClaims, VInv, PhaseInv, Genuine, SignedBySome
  <2>2. CASE ClaimError(now) = None /\ Settle("payload") /\ UNCHANGED keys
    <3>1. /\ keys' = keys /\ request' = request /\ now' = now
          /\ phase' = "settled" /\ outcome' = "payload"
      BY <2>2 DEF Settle
    <3>2. PhaseInv'
      BY <3>1 DEF VInv, PhaseInv, Concluded
    <3>3. AcceptedIsGenuine'
      BY <2>1, <3>1
      DEF AcceptedIsGenuine, Genuine, Signs, Fits, Clashes, IsPortable, IsJose, token
    <3>4. AcceptedIsCurrent'
      BY <2>2, <3>1, ClaimErrorSound DEF AcceptedIsCurrent, ExpiredAt, EarlyAt, Unmet, token
    <3>5. ClaimsBlamedAfterSignature'
      BY <3>1 DEF ClaimsBlamedAfterSignature
    <3>6. QED  BY <3>2, <3>3, <3>4, <3>5 DEF VInv
  <2>3. CASE Reject(ClaimError(now))
    BY <2>1, <2>3, RejectKeeps, ClaimErrorSound
  <2>4. QED  BY <1>12, <2>2, <2>3 DEF AssertClaims
<1>13. CASE Continue \/ Fail \/ Handled \/ Tick \/ Done \/ UNCHANGED vars
  <2>1. /\ keys' = keys /\ request' = request /\ outcome' = outcome
        /\ \/ phase' = phase
           \/ phase = "settled" /\ phase' = "answered"
        /\ now' = now \/ ~Concluded
    BY <1>13 DEF Continue, Fail, Handled, Tick, Done, vars, Concluded, Awaiting
  <2>2. Genuine' = Genuine
    BY <2>1 DEF Genuine, Signs, Fits, Clashes, IsPortable, IsJose, token
  <2>3. PhaseInv'
    BY <2>1, <2>2 DEF VInv, PhaseInv, Concluded, token
  <2>4. AcceptedIsGenuine' /\ ClaimsBlamedAfterSignature'
    BY <2>1 DEF VInv, AcceptedIsGenuine, ClaimsBlamedAfterSignature, Signs, Fits, Clashes,
      IsPortable, IsJose, token
  <2>5. AcceptedIsCurrent'
    <3>1. CASE ~Concluded
      BY <2>1, <3>1, OutcomeAssumption
      DEF VInv, PhaseInv, AcceptedIsCurrent, Accepted, Outcomes
    <3>2. CASE now' = now
      BY <2>1, <3>2 DEF VInv, AcceptedIsCurrent, ExpiredAt, EarlyAt, Unmet, token
    <3>3. QED  BY <2>1, <3>1, <3>2
  <2>6. QED  BY <2>3, <2>4, <2>5 DEF VInv
<1>14. QED
  BY <1>1, <1>2, <1>3, <1>4, <1>5, <1>6, <1>7, <1>8, <1>9, <1>10, <1>11, <1>12, <1>13
  DEF Next

LEMMA VInvCorrect == Spec => []VInv
  BY VInvInit, VInvNext, PTL DEF Spec

(* On every path, an accepted token was signed by a key of the call that   *)
(* fits its algorithm and does not clash with its kid.                     *)
THEOREM GenuineAccepted == Spec => []AcceptedIsGenuine
<1>1. VInv => AcceptedIsGenuine
  BY DEF VInv
<1>2. QED  BY <1>1, VInvCorrect, PTL

(* However long each await takes, an accepted token has not expired when   *)
(* it is accepted and meets the requirements.                              *)
THEOREM CurrentAccepted == Spec => []AcceptedIsCurrent
<1>1. VInv => AcceptedIsCurrent
  BY DEF VInv
<1>2. QED  BY <1>1, VInvCorrect, PTL

(* Nothing is said of the claims of a token that no key of the call signed. *)
THEOREM SignatureFirst == Spec => []ClaimsBlamedAfterSignature
<1>1. VInv => ClaimsBlamedAfterSignature
  BY DEF VInv
<1>2. QED  BY <1>1, VInvCorrect, PTL
=============================================================================
