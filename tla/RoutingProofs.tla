---------------------------- MODULE RoutingProofs ----------------------------
(***************************************************************************)
(* Proofs about the routing of Verification, for all requests, key sets    *)
(* and clocks: the right key is found among any others, and with one key   *)
(* every path has the same classes of error.                               *)
(***************************************************************************)
EXTENDS VerificationProofs, FiniteSetTheorems

(* What both arguments need: where keys come from, and that time goes on.  *)
SourceInv ==
  /\ phase \in {"called", "hmac", "lookup"} => keys = <<>>
  /\ phase \in {"pem", "portable", "jose"} => token.alg # "ML-DSA-65"
  /\ phase \in {"lookup", "keys", "mldsa", "portable", "jose"} => ~UsesPem
  /\ began <= now

BaseInv == VerificationTypeOK /\ VInv /\ SourceInv

LEMMA BaseInit == Init => BaseInv
<1>1. Init => SourceInv
  BY DEF Init, SourceInv
<1>2. QED  BY <1>1, TypeInit, VInvInit DEF BaseInv

LEMMA SourceNext == VerificationTypeOK /\ SourceInv /\ [Next]_vars => SourceInv'
<1> SUFFICES ASSUME VerificationTypeOK, SourceInv, [Next]_vars PROVE SourceInv'
  OBVIOUS
<1> USE DEF SourceInv, token, UsesPem, PublicKey
<1>1. now \in Nat /\ began \in Nat
  BY DEF VerificationTypeOK
<1>2. CASE NoBearer \/ Unreadable \/ Refuse \/ NoKeySource \/ MismatchedAlgorithm
           \/ NoApplicableKey \/ VerifyHmac \/ AssertClaims
  BY <1>2
  DEF NoBearer, Unreadable, Refuse, NoKeySource, MismatchedAlgorithm, NoApplicableKey,
      VerifyHmac, AssertClaims, Reject, Settle
<1>3. CASE UseSecret \/ UseSupplied \/ UseJwks \/ RouteMlDsa \/ RoutePortable \/ RouteJose
  BY <1>3
  DEF UseSecret, UseSupplied, UseJwks, NothingSupplied, WithPublicKey, Readable,
      RouteMlDsa, RoutePortable, RouteJose, Routed, Await
<1>4. CASE UsePem \/ Lookup
  BY <1>4 DEF UsePem, WithPublicKey, Readable, Lookup, Reject, Settle, Await
<1>5. CASE VerifyPortable \/ VerifyJose \/ VerifyPem \/ VerifyMlDsa
  BY <1>5
  DEF VerifyPortable, VerifyJose, VerifyPem, VerifyMlDsa, Conclude, Reject, Settle, Await
<1>6. CASE Continue \/ Fail \/ Handled \/ Tick \/ Done \/ UNCHANGED vars
  BY <1>1, <1>6 DEF Continue, Fail, Handled, Tick, Done, vars
<1>7. QED  BY <1>2, <1>3, <1>4, <1>5, <1>6 DEF Next

LEMMA BaseNext == BaseInv /\ [Next]_vars => BaseInv'
  BY TypeNext, VInvNext, SourceNext DEF BaseInv

LEMMA BaseCorrect == Spec => []BaseInv
  BY BaseInit, BaseNext, PTL DEF Spec

(* A token that some key signed is well formed. *)
LEMMA SignedWellFormed ==
  ASSUME BaseInv, NEW k, Signs(k)
  PROVE  token.form = "ok"
  BY DEF BaseInv, VerificationTypeOK, Callable, Signs, token

(* The kinds of the paths exclude each other. *)
LEMMA PathsDiffer ==
  ASSUME NEW k
  PROVE  /\ ~(IsJose(k) /\ IsPortable(k))
         /\ IsPortable(k) => token.alg \in {"ES256K", "EdDSA"}
         /\ IsJose(k) =>
              token.alg \in {"RS256", "PS256", "ES256", "EdDSA"} /\ k.kind # "junk"
  BY DEF IsJose, IsPortable, JoseKinds

-----------------------------------------------------------------------------
(* The right key among others *)

Right(n) == HasToBeFound(keys, n)

NoDefect == ClaimError(now) = None /\ ~request.emptyAudiences

FoundInv ==
  \A n \in DOMAIN keys : Right(n) =>
    /\ phase = "jose" => IsJose(keys[n])
    /\ Concluded /\ NoDefect => outcome \in {"payload", "ImportError"}

LEMMA RightIsPortable ==
  ASSUME BaseInv, ~UsesPem, NEW n \in DOMAIN keys, Right(n), IsPortable(keys[n])
  PROVE  PortableVerdict = "ok"
<1>1. token.form = "ok"
  BY SignedWellFormed DEF Right, HasToBeFound
<1>2. \A m \in Matches : m = n
  BY DEF Matches, Right, HasToBeFound, Clashes
<1>3. n \in Matches
  BY DEF Matches, Right, HasToBeFound, Clashes
<1>4. {m \in Matches : Throws(keys[m])} = {}
  BY <1>1, <1>2 DEF Right, HasToBeFound, Signs, Throws
<1>5. QED  BY <1>1, <1>3, <1>4 DEF PortableVerdict, Right, HasToBeFound

LEMMA RightIsJose ==
  ASSUME BaseInv, ~UsesPem, NEW n \in DOMAIN keys, Right(n), IsJose(keys[n]), NoDefect
  PROVE  JoseSetVerdict = "ok"
<1> DEFINE fits(k) == IsJose(k) /\ (token.kid # None => k.kid = token.kid)
           M == {m \in JoseCandidates : fits(keys[m])}
<1>1. n \in JoseCandidates
  BY PathsDiffer DEF JoseCandidates, PortableCandidates
<1>2. M = {n}
  BY <1>1 DEF Right, HasToBeFound, JoseCandidates
<1>3. Cardinality(M) = 1 /\ (CHOOSE m \in M : TRUE) = n
  BY <1>2, FS_Singleton
<1>4. \A m \in JoseCandidates : keys[m].kind # "junk"
  BY PathsDiffer DEF JoseCandidates, Right, HasToBeFound
<1>5. token.alg \notin Hmac \cup {"none"}
  BY PathsDiffer DEF Hmac
<1>6. JoseClaimError(now) = None
  BY ClaimErrorSound DEF NoDefect, JoseClaimError
<1>7. JoseVerdict(keys[n]) = "ok"
  <2>1. ~TooWeak(keys[n])
    BY PathsDiffer DEF Right, HasToBeFound, Fits
  <2>2. QED  BY <1>6, <2>1 DEF JoseVerdict, Right, HasToBeFound, Signs
<1>8. JoseSetVerdict = JoseVerdict(keys[n])
  BY <1>2, <1>3, <1>4, <1>5, PathsDiffer DEF JoseSetVerdict
<1>9. QED  BY <1>7, <1>8

LEMMA RightIsPem ==
  ASSUME BaseInv, phase = "pem", NEW n \in DOMAIN keys, Right(n), NoDefect
  PROVE  PemVerdict = "ok"
<1>1. n = 1 /\ Signs(keys[1]) /\ Fits(keys[1]) /\ token.alg # "ML-DSA-65"
  BY DEF BaseInv, VInv, PhaseInv, SourceInv, Right, HasToBeFound
<1>2. token.form = "ok" /\ keys[1].material # None
  BY <1>1, SignedWellFormed DEF Signs
<1>3. IsJose(keys[1]) => JoseVerdict(keys[1]) = "ok"
  <2>1. JoseClaimError(now) = None
    BY ClaimErrorSound DEF NoDefect, JoseClaimError
  <2>2. IsJose(keys[1]) => ~TooWeak(keys[1])
    BY <1>1, PathsDiffer DEF Fits
  <2>3. QED  BY <1>1, <1>2, <2>1, <2>2 DEF JoseVerdict
<1>4. CASE IsPortable(keys[1])
  BY <1>1, <1>2, <1>4 DEF PemVerdict
<1>5. CASE IsJose(keys[1])
  <2>1. ~IsPortable(keys[1]) /\ token.alg # "ES256K"
    BY <1>5, PathsDiffer
  <2>2. token.alg \in DOMAIN JoseKinds /\ keys[1].kind # "oct"
    BY <1>5 DEF IsJose, JoseKinds
  <2>3. QED  BY <1>2, <1>3, <1>5, <2>1, <2>2 DEF PemVerdict
<1>6. QED  BY <1>1, <1>4, <1>5 DEF Fits

(* Such a key is meant for the token and not mismatched, and some path has *)
(* a candidate.                                                            *)
LEMMA RightIsRouted ==
  ASSUME BaseInv, ~UsesPem, NEW n \in DOMAIN keys, Right(n)
  PROVE  /\ ~Mismatched
         /\ token.alg = "ES256K" => PortableCandidates # {}
         /\ keys # <<>>
<1>1. keys[n].kind # "junk"
  BY PathsDiffer DEF Right, HasToBeFound, Fits, IsPortable
<1>2. Intended # {} => n \in Intended
  BY <1>1 DEF Right, HasToBeFound, Intended
<1>3. ~Mismatched
  BY <1>2 DEF Mismatched, Right, HasToBeFound
<1>4. token.alg = "ES256K" => n \in PortableCandidates
  BY PathsDiffer DEF Right, HasToBeFound, Fits, PortableCandidates
<1>5. keys # <<>>
  OBVIOUS
<1>6. QED  BY <1>3, <1>4, <1>5

LEMMA RightFixed ==
  ASSUME keys' = keys, request' = request, NEW n \in DOMAIN keys
  PROVE  /\ Right(n)' = Right(n) /\ IsJose(keys[n])' = IsJose(keys[n])
         /\ now' = now => NoDefect' = NoDefect
<1>1. Right(n)' = Right(n) /\ IsJose(keys[n])' = IsJose(keys[n])
  BY DEF Right, HasToBeFound, UsesPem, PublicKey, Signs, Fits, IsPortable, IsJose, token
<1>2. now' = now => NoDefect' = NoDefect
  BY DEF NoDefect, ClaimError, ClaimErrorWithoutExp, ExpiredAt, EarlyAt, Unmet, token
<1>3. QED  BY <1>1, <1>2

LEMMA FoundAwait ==
  ASSUME FoundInv, NEW place \in Awaiting \cup {"keys"}, Await(place, keys),
         place = "jose" => \A n \in DOMAIN keys : Right(n) => IsJose(keys[n])
  PROVE  FoundInv'
<1>1. keys' = keys /\ request' = request /\ phase' = place
  BY DEF Await
<1>2. ~Concluded'
  BY <1>1 DEF Concluded, Awaiting
<1>3. QED  BY <1>1, <1>2, RightFixed DEF FoundInv

(* A set of keys that was just taken over. *)
LEMMA FoundTaken ==
  ASSUME NEW place \in {"pem", "keys"}, NEW ks, Await(place, ks)
  PROVE  FoundInv'
  BY DEF Await, FoundInv, Concluded

LEMMA FoundReject ==
  ASSUME NEW e, Reject(e),
         \A n \in DOMAIN keys : Right(n) /\ NoDefect => e = "ImportError"
  PROVE  FoundInv'
<1>1. /\ keys' = keys /\ request' = request /\ now' = now /\ phase' = "settled"
      /\ outcome' = toVerificationError(e)
  BY DEF Reject, Settle
<1>2. e = "ImportError" => outcome' = "ImportError"
  BY <1>1 DEF toVerificationError, Conversions
<1>3. QED  BY <1>1, <1>2, RightFixed DEF FoundInv

LEMMA FoundConclude ==
  ASSUME FoundInv, NEW v, Conclude(v),
         \A n \in DOMAIN keys : Right(n) /\ NoDefect => v = "ok"
  PROVE  FoundInv'
<1>1. CASE v = "ok"
  BY <1>1, FoundAwait DEF Conclude, Awaiting
<1>2. CASE v # "ok"
  BY <1>2, FoundReject DEF Conclude
<1>3. QED  BY <1>1, <1>2

LEMMA FoundInit == Init => FoundInv
  BY DEF Init, FoundInv

LEMMA FoundNext == BaseInv /\ FoundInv /\ [Next]_vars => FoundInv'
<1> SUFFICES ASSUME BaseInv, FoundInv, [Next]_vars PROVE FoundInv'
  OBVIOUS
<1>1. phase \in {"called", "hmac", "lookup"} => DOMAIN keys = {}
  BY DEF BaseInv, SourceInv
<1>pem. phase \in {"lookup", "keys", "mldsa", "portable", "jose"} => ~UsesPem
  BY DEF BaseInv, SourceInv
<1>2. CASE NoBearer \/ Unreadable \/ Refuse \/ NoKeySource
  BY <1>1, <1>2, FoundReject
  DEF NoBearer, Unreadable, Refuse, NoKeySource, NothingSupplied, WithPublicKey, Readable
<1>3. CASE MismatchedAlgorithm \/ NoApplicableKey
  BY <1>3, <1>pem, FoundReject, RightIsRouted
  DEF MismatchedAlgorithm, Routed, NoApplicableKey
<1>4. CASE UseSecret \/ UseJwks \/ RouteMlDsa \/ RoutePortable
  BY <1>4, FoundAwait DEF UseSecret, UseJwks, RouteMlDsa, RoutePortable, Awaiting
<1>5. CASE UsePem
  BY <1>1, <1>5, FoundReject, FoundTaken DEF UsePem, WithPublicKey, Readable
<1>6. CASE UseSupplied
  BY <1>6, FoundTaken DEF UseSupplied
<1>7. CASE Lookup
  BY <1>1, <1>7, FoundReject, FoundTaken DEF Lookup
<1>8. CASE RouteJose
  <2>1. ASSUME NEW n \in DOMAIN keys, Right(n) PROVE IsJose(keys[n])
    BY <1>8, <2>1 DEF RouteJose, Right, HasToBeFound, Fits, PortableCandidates
  <2>2. QED  BY <1>8, <2>1, FoundAwait DEF RouteJose, Awaiting
<1>9. CASE VerifyPortable
  <2>1. ASSUME NEW n \in DOMAIN keys, Right(n), ~IsPortable(keys[n])
        PROVE  IsJose(keys[n]) /\ FallsToJose
    <3>1. IsJose(keys[n])
      BY <1>9, <2>1 DEF VerifyPortable, BaseInv, SourceInv, Right, HasToBeFound, Fits
    <3>2. n \in JoseCandidates
      BY <2>1 DEF JoseCandidates, PortableCandidates
    <3>3. QED  BY <3>1, <3>2 DEF FallsToJose
  <2>2. CASE PortableVerdict # "ok" /\ FallsToJose
    <3>1. \A n \in DOMAIN keys : Right(n) => IsJose(keys[n])
      BY <1>9, <1>pem, <2>1, <2>2, RightIsPortable DEF VerifyPortable
    <3>2. QED  BY <1>9, <2>2, <3>1, FoundAwait DEF VerifyPortable, Awaiting
  <2>3. CASE ~(PortableVerdict # "ok" /\ FallsToJose)
    <3>1. \A n \in DOMAIN keys : Right(n) => PortableVerdict = "ok"
      BY <1>9, <1>pem, <2>1, <2>3, RightIsPortable DEF VerifyPortable
    <3>2. QED  BY <1>9, <2>3, <3>1, FoundConclude DEF VerifyPortable
  <2>4. QED  BY <2>2, <2>3
<1>10. CASE VerifyJose
  <2>1. PICK v \in {JoseSetVerdict} \cup IF token.form = "rest" THEN {"JWSInvalid"} ELSE {} :
          Conclude(v)
    BY <1>10 DEF VerifyJose
  <2>2. ASSUME NEW n \in DOMAIN keys, Right(n), NoDefect PROVE v = "ok"
    <3>1. IsJose(keys[n]) /\ token.form = "ok"
      BY <1>10, <2>2, SignedWellFormed DEF VerifyJose, FoundInv, Right, HasToBeFound
    <3>2. QED  BY <1>10, <1>pem, <2>1, <2>2, <3>1, RightIsJose DEF VerifyJose
  <2>3. QED  BY <2>1, <2>2, FoundConclude
<1>11. CASE VerifyPem
  BY <1>11, RightIsPem, FoundConclude DEF VerifyPem
<1>12. CASE VerifyMlDsa
  <2>1. ASSUME NEW n \in DOMAIN keys, Right(n)
        PROVE  token.form = "ok" /\ n \in MlDsaMatches /\ Signs(keys[n])
    <3>1. token.alg = "ML-DSA-65"
      BY <1>12 DEF VerifyMlDsa, BaseInv, VInv, PhaseInv
    <3>2. keys[n].kind = "AKP" /\ keys[n].alg = token.alg
      BY <2>1, <3>1, PathsDiffer DEF Right, HasToBeFound, Fits
    <3>3. ~UsesPem
      BY <1>12, <1>pem DEF VerifyMlDsa
    <3>4. QED
      BY <2>1, <3>2, <3>3, SignedWellFormed DEF MlDsaMatches, Right, HasToBeFound, Clashes
  <2>2. QED  BY <1>12, <2>1, FoundConclude, FoundReject DEF VerifyMlDsa
<1>13. CASE VerifyHmac
  BY <1>1, <1>13 DEF VerifyHmac, Settle, FoundInv
<1>14. CASE AssertClaims
  <2>1. CASE ClaimError(now) = None /\ Settle("payload") /\ UNCHANGED keys
    BY <2>1 DEF Settle, FoundInv
  <2>2. CASE ClaimError(now) # None /\ Reject(ClaimError(now))
    BY <2>2, FoundReject DEF NoDefect
  <2>3. QED  BY <1>14, <2>1, <2>2 DEF AssertClaims
<1>15. CASE Tick
  <2>1. keys' = keys /\ request' = request /\ phase' = phase /\ ~Concluded'
    BY <1>15 DEF Tick, Concluded, Awaiting
  <2>2. QED  BY <2>1, RightFixed DEF FoundInv
<1>16. CASE Continue \/ Fail \/ Handled \/ Done \/ UNCHANGED vars
  <2>1. /\ keys' = keys /\ request' = request /\ now' = now /\ outcome' = outcome
        /\ phase' = phase \/ (phase = "settled" /\ phase' = "answered")
    BY <1>16 DEF Continue, Fail, Handled, Done, vars
  <2>2. QED  BY <2>1, RightFixed DEF FoundInv, Concluded
<1>17. QED
  BY <1>2, <1>3, <1>4, <1>5, <1>6, <1>7, <1>8, <1>9, <1>10, <1>11, <1>12, <1>13, <1>14,
     <1>15, <1>16 DEF Next

(* A good token with one key of its kid is accepted, whatever other keys   *)
(* the set has and whatever they do to the paths tried before.             *)
THEOREM RightKeyIsFound == Spec => []RightKeyFound
<1>1. FoundInv => RightKeyFound
  BY DEF FoundInv, RightKeyFound, Right, HasToBeFound, NoDefect
<1>2. QED  BY <1>1, BaseCorrect, FoundInit, FoundNext, PTL DEF Spec

-----------------------------------------------------------------------------
(* One key *)

Single ==
  /\ Len(keys) = 1
  /\ Fits(keys[1]) /\ keys[1].material # None
  /\ keys[1].kid = token.kid /\ keys[1].alg \in {None, token.alg}
  /\ token.form \in {"ok", "cut"} /\ (token.form = "cut" => ~IsPortable(keys[1]))

OtherDefect ==
  \/ Unmet \cap {"iss", "aud"} # {} \/ request.emptyAudiences
  \/ NotANumber \in {token.exp, token.nbf} \/ EarlyAt(began)

(* What the class of the outcome o must be. *)
ClassOf(o) ==
  /\ ~Signs(keys[1]) => o = "InvalidSignatureError"
  /\ Signs(keys[1]) /\ ~OtherDefect /\ ExpiredAt(began) => o = "TokenExpiredError"
  /\ Signs(keys[1]) /\ ~OtherDefect /\ ~ExpiredAt(now) =>
       o = IF "scope" \in Unmet THEN "InsufficientScopeError" ELSE "payload"

ClassInv ==
  Single =>
    /\ phase = "jose" => IsJose(keys[1])
    /\ Concluded => outcome = "ImportError" \/ ClassOf(outcome)

LEMMA SingleFixed ==
  ASSUME keys' = keys, request' = request
  PROVE  /\ Single' = Single /\ IsJose(keys[1])' = IsJose(keys[1])
         /\ now' = now /\ began' = began => \A o : ClassOf(o)' = ClassOf(o)
<1>1. Single' = Single /\ IsJose(keys[1])' = IsJose(keys[1])
  BY DEF Single, Fits, IsPortable, IsJose, token
<1>2. now' = now /\ began' = began => \A o : ClassOf(o)' = ClassOf(o)
  BY DEF ClassOf, OtherDefect, Signs, ExpiredAt, EarlyAt, Unmet, token
<1>3. QED  BY <1>1, <1>2

LEMMA SingleDomain ==
  ASSUME BaseInv, Single
  PROVE  DOMAIN keys = {1} /\ keys # <<>>
<1>1. keys \in Seq(KeyType) /\ Len(keys) = 1
  BY DEF Single, BaseInv, VerificationTypeOK
<1>2. DOMAIN keys = 1 .. 1
  BY <1>1
<1>3. QED  BY <1>1, <1>2

LEMMA ClassAwait ==
  ASSUME ClassInv, NEW place \in Awaiting \cup {"keys"}, Await(place, keys),
         place = "jose" /\ Single => IsJose(keys[1])
  PROVE  ClassInv'
<1>1. keys' = keys /\ request' = request /\ phase' = place
  BY DEF Await
<1>2. ~Concluded'
  BY <1>1 DEF Concluded, Awaiting
<1>3. QED  BY <1>1, <1>2, SingleFixed DEF ClassInv

LEMMA ClassTaken ==
  ASSUME NEW place \in {"pem", "keys"}, NEW ks, Await(place, ks)
  PROVE  ClassInv'
  BY DEF Await, ClassInv, Concluded

LEMMA ClassReject ==
  ASSUME NEW e, Reject(e),
         Single => e = "ImportError" \/ ClassOf(toVerificationError(e))
  PROVE  ClassInv'
<1>1. /\ keys' = keys /\ request' = request /\ now' = now /\ began' = began
      /\ phase' = "settled" /\ outcome' = toVerificationError(e)
  BY DEF Reject, Settle
<1>2. e = "ImportError" => outcome' = "ImportError"
  BY <1>1 DEF toVerificationError, Conversions
<1>3. QED  BY <1>1, <1>2, SingleFixed DEF ClassInv

LEMMA ClassConclude ==
  ASSUME ClassInv, NEW v, Conclude(v),
         Single /\ v # "ok" => ClassOf(toVerificationError(v))
  PROVE  ClassInv'
<1>1. CASE v = "ok"
  BY <1>1, ClassAwait DEF Conclude, Awaiting
<1>2. CASE v # "ok"
  BY <1>2, ClassReject DEF Conclude
<1>3. QED  BY <1>1, <1>2

(* A signature found bad, by whichever backend. *)
LEMMA BadSignature ==
  ASSUME ~Signs(keys[1])
  PROVE  /\ ClassOf(toVerificationError("InvalidSignatureError"))
         /\ ClassOf(toVerificationError("JWSSignatureVerificationFailed"))
  BY DEF ClassOf, toVerificationError, Conversions

(* Time only makes a token older. *)
LEMMA TimeGoesOn ==
  ASSUME BaseInv
  PROVE  /\ ExpiredAt(began) => ExpiredAt(now)
         /\ ~EarlyAt(began) => ~EarlyAt(now)
<1>1. now \in Nat /\ began \in Nat /\ began <= now
  BY DEF BaseInv, VerificationTypeOK, SourceInv
<1>2. ASSUME ExpiredAt(began) PROVE ExpiredAt(now)
  BY <1>1, <1>2 DEF ExpiredAt
<1>3. ASSUME ~EarlyAt(began) PROVE ~EarlyAt(now)
  BY <1>1, <1>3 DEF EarlyAt
<1>4. QED  BY <1>2, <1>3

LEMMA JoseClass ==
  ASSUME BaseInv, Single, IsJose(keys[1]), JoseVerdict(keys[1]) # "ok"
  PROVE  ClassOf(toVerificationError(JoseVerdict(keys[1])))
<1>0. ~TooWeak(keys[1])
  BY PathsDiffer DEF Single, Fits
<1>1. CASE ~Signs(keys[1])
  BY <1>0, <1>1, BadSignature DEF JoseVerdict, Single
<1>2. CASE Signs(keys[1]) /\ OtherDefect
  BY <1>2 DEF ClassOf
<1>3. CASE Signs(keys[1]) /\ ~OtherDefect
  <2>1. ~EarlyAt(now)
    BY <1>3, TimeGoesOn DEF OtherDefect
  <2>2. JoseClaimError(now) = IF ExpiredAt(now) THEN "JWTExpired" ELSE None
    BY <1>3, <2>1 DEF OtherDefect, JoseClaimError
  <2>3. JoseVerdict(keys[1]) = "JWTExpired" /\ ExpiredAt(now)
    BY <1>0, <1>3, <2>2 DEF JoseVerdict, Single
  <2>4. toVerificationError("JWTExpired") = "TokenExpiredError"
    BY DEF toVerificationError, Conversions
  <2>5. QED  BY <1>3, <2>3, <2>4 DEF ClassOf
<1>4. QED  BY <1>1, <1>2, <1>3

LEMMA SingleRouted ==
  ASSUME BaseInv, Single, phase = "keys"
  PROVE  ~Mismatched /\ (token.alg = "ES256K" => PortableCandidates # {})
<1>1. DOMAIN keys = {1}
  BY SingleDomain
<1>2. Intended \subseteq {1}
  BY <1>1 DEF Intended
<1>3. algFamily(token.alg) = token.alg
  BY DEF BaseInv, VerificationTypeOK, Callable, RequestType, TokenType, token, algFamily,
         Hmac, Asymmetric
<1>4. ~Mismatched
  BY <1>2, <1>3 DEF Mismatched, Single
<1>5. token.alg = "ES256K" => 1 \in PortableCandidates
  BY <1>1, PathsDiffer DEF Single, Fits, PortableCandidates
<1>6. QED  BY <1>4, <1>5

LEMMA ClassInit == Init => ClassInv
  BY DEF Init, ClassInv, Single

LEMMA ClassNext == BaseInv /\ ClassInv /\ [Next]_vars => ClassInv'
<1> SUFFICES ASSUME BaseInv, ClassInv, [Next]_vars PROVE ClassInv'
  OBVIOUS
<1>1. phase \in {"called", "hmac", "lookup"} => ~Single
  BY DEF BaseInv, SourceInv, Single
<1>2. CASE NoBearer \/ Unreadable \/ Refuse \/ NoKeySource
  BY <1>1, <1>2, ClassReject
  DEF NoBearer, Unreadable, Refuse, NoKeySource, NothingSupplied, WithPublicKey, Readable
<1>3. CASE MismatchedAlgorithm \/ NoApplicableKey
  BY <1>3, ClassReject, SingleRouted, SingleDomain
  DEF MismatchedAlgorithm, NoApplicableKey, Routed
<1>4. CASE UseSecret \/ UseJwks \/ RouteMlDsa \/ RoutePortable
  BY <1>4, ClassAwait DEF UseSecret, UseJwks, RouteMlDsa, RoutePortable, Awaiting
<1>5. CASE UsePem
  BY <1>1, <1>5, ClassReject, ClassTaken DEF UsePem, WithPublicKey, Readable
<1>6. CASE UseSupplied
  BY <1>6, ClassTaken DEF UseSupplied
<1>7. CASE Lookup
  BY <1>1, <1>7, ClassReject, ClassTaken DEF Lookup
<1>8. CASE RouteJose
  <2>1. Single => IsJose(keys[1])
    BY <1>8, SingleDomain DEF RouteJose, Single, Fits, PortableCandidates
  <2>2. QED  BY <1>8, <2>1, ClassAwait DEF RouteJose, Awaiting
<1>9. CASE VerifyPortable
  <2>1. ASSUME Single
        PROVE  \/ IsPortable(keys[1]) /\ JoseCandidates = {}
               \/ IsJose(keys[1])
    BY <1>9, <2>1, SingleDomain
    DEF VerifyPortable, BaseInv, SourceInv, Single, Fits, JoseCandidates, PortableCandidates
  <2>2. ASSUME Single, IsPortable(keys[1]), PortableVerdict # "ok"
        PROVE  ClassOf(toVerificationError(PortableVerdict))
    <3>1. Matches = {1}
      BY <2>2, SingleDomain DEF Matches, Clashes, Single
    <3>2. {n \in Matches : Throws(keys[n])} = {}
      BY <2>2, <3>1 DEF Single, Throws
    <3>3. PortableVerdict = "InvalidSignatureError" /\ ~Signs(keys[1])
      BY <2>2, <3>1, <3>2 DEF PortableVerdict, Single
    <3>4. QED  BY <3>3, BadSignature
  <2>3. CASE PortableVerdict # "ok" /\ FallsToJose
    BY <1>9, <2>1, <2>3, ClassAwait DEF VerifyPortable, FallsToJose, Awaiting
  <2>4. CASE PortableVerdict # "ok" /\ ~FallsToJose
    <3>1. Single => IsPortable(keys[1])
      <4>1. IsJose(keys[1]) /\ Single => 1 \in JoseCandidates
        BY PathsDiffer, SingleDomain DEF JoseCandidates, PortableCandidates
      <4>2. QED  BY <2>1, <2>4, <4>1 DEF FallsToJose
    <3>2. QED  BY <1>9, <2>2, <2>4, <3>1, ClassConclude DEF VerifyPortable
  <2>5. CASE PortableVerdict = "ok"
    BY <1>9, <2>5, ClassConclude DEF VerifyPortable
  <2>6. QED  BY <2>3, <2>4, <2>5
<1>10. CASE VerifyJose
  <2>1. PICK v \in {JoseSetVerdict} \cup IF token.form = "rest" THEN {"JWSInvalid"} ELSE {} :
          Conclude(v)
    BY <1>10 DEF VerifyJose
  <2>2. ASSUME Single, v # "ok" PROVE ClassOf(toVerificationError(v))
    <3> DEFINE fits(k) == IsJose(k) /\ (token.kid # None => k.kid = token.kid)
               M == {n \in JoseCandidates : fits(keys[n])}
    <3>1. IsJose(keys[1]) /\ v = JoseSetVerdict
      BY <1>10, <2>1, <2>2 DEF VerifyJose, ClassInv, Single
    <3>2. JoseCandidates = {1}
      BY <2>2, <3>1, SingleDomain, PathsDiffer DEF JoseCandidates, PortableCandidates
    <3>3. M = {1}
      BY <2>2, <3>1, <3>2 DEF Single
    <3>4. Cardinality(M) = 1 /\ (CHOOSE n \in M : TRUE) = 1
      BY <3>3, FS_Singleton
    <3>5. JoseSetVerdict = JoseVerdict(keys[1])
      BY <3>1, <3>2, <3>3, <3>4, PathsDiffer DEF JoseSetVerdict, Hmac
    <3>6. QED  BY <2>2, <3>1, <3>5, JoseClass
  <2>3. QED  BY <2>1, <2>2, ClassConclude
<1>11. CASE VerifyPem
  <2>1. ASSUME Single, PemVerdict # "ok" PROVE ClassOf(toVerificationError(PemVerdict))
    <3>1. token.alg # "ML-DSA-65"
      BY <1>11 DEF VerifyPem, BaseInv, SourceInv
    <3>2. CASE IsPortable(keys[1])
      <4>1. PemVerdict = "InvalidSignatureError" /\ ~Signs(keys[1])
        BY <2>1, <3>2 DEF PemVerdict, Single
      <4>2. QED  BY <4>1, BadSignature
    <3>3. CASE IsJose(keys[1])
      <4>1. /\ token.alg # "ES256K" /\ token.alg \in DOMAIN JoseKinds
            /\ keys[1].kind # "oct" /\ ~IsPortable(keys[1])
        BY <3>3, PathsDiffer DEF IsJose, JoseKinds
      <4>2. PemVerdict = JoseVerdict(keys[1])
        BY <2>1, <3>3, <4>1 DEF PemVerdict, Single
      <4>3. QED  BY <2>1, <3>3, <4>2, JoseClass
    <3>4. QED  BY <2>1, <3>1, <3>2, <3>3 DEF Single, Fits
  <2>2. QED  BY <1>11, <2>1, ClassConclude DEF VerifyPem
<1>12. CASE VerifyMlDsa
  <2>1. ASSUME Single PROVE MlDsaMatches = {1} /\ token.form # "rest"
    <3>1. token.alg = "ML-DSA-65"
      BY <1>12 DEF VerifyMlDsa, BaseInv, VInv, PhaseInv
    <3>2. keys[1].kind = "AKP" /\ keys[1].alg = token.alg
      BY <2>1, <3>1, PathsDiffer DEF Single, Fits
    <3>3. QED  BY <2>1, <3>2, SingleDomain DEF MlDsaMatches, Single, Clashes
  <2>2. CASE Reject("ImportError")
    BY <2>2, ClassReject
  <2>3. CASE ~Signs(keys[1]) \/ ~Single
    BY <1>12, <2>1, <2>2, <2>3, ClassConclude, BadSignature DEF VerifyMlDsa
  <2>4. CASE Signs(keys[1]) /\ Single
    BY <1>12, <2>1, <2>2, <2>4, ClassConclude DEF VerifyMlDsa
  <2>5. QED  BY <2>3, <2>4
<1>13. CASE VerifyHmac
  BY <1>1, <1>13, SingleFixed DEF VerifyHmac, Settle, ClassInv
<1>14. CASE AssertClaims
  <2>1. Single => Signs(keys[1])
    BY <1>14, SingleDomain DEF AssertClaims, BaseInv, VInv, PhaseInv, Genuine
  <2>2. ASSUME Single, ~OtherDefect
        PROVE  ClaimError(now) = IF ExpiredAt(now) THEN "TokenExpiredError"
                                 ELSE IF "scope" \in Unmet THEN "InsufficientScopeError"
                                 ELSE None
    BY <2>2, TimeGoesOn DEF OtherDefect, ClaimError, ClaimErrorWithoutExp
  <2>3. CASE ClaimError(now) = None /\ Settle("payload") /\ UNCHANGED keys
    <3>1. /\ keys' = keys /\ request' = request /\ now' = now /\ began' = began
          /\ phase' = "settled" /\ outcome' = "payload"
      BY <2>3 DEF Settle
    <3>2. ASSUME Single PROVE ClassOf("payload")
      BY <2>1, <2>2, <2>3, <3>2, TimeGoesOn, OutcomeAssumption
      DEF ClassOf, Outcomes, Documented
    <3>3. QED  BY <3>1, <3>2, SingleFixed DEF ClassInv
  <2>4. CASE ClaimError(now) # None /\ Reject(ClaimError(now))
    <3>1. ASSUME Single PROVE ClassOf(toVerificationError(ClaimError(now)))
      BY <2>1, <2>2, <2>4, <3>1, TimeGoesOn
      DEF ClassOf, toVerificationError, Conversions
    <3>2. QED  BY <2>4, <3>1, ClassReject
  <2>5. QED  BY <1>14, <2>3, <2>4 DEF AssertClaims
<1>15. CASE Tick
  <2>1. keys' = keys /\ request' = request /\ phase' = phase /\ ~Concluded'
    BY <1>15 DEF Tick, Concluded, Awaiting
  <2>2. QED  BY <2>1, SingleFixed DEF ClassInv
<1>16. CASE Continue \/ Fail \/ Handled \/ Done \/ UNCHANGED vars
  <2>1. /\ keys' = keys /\ request' = request /\ now' = now /\ began' = began
        /\ outcome' = outcome
        /\ phase' = phase \/ (phase = "settled" /\ phase' = "answered")
    BY <1>16 DEF Continue, Fail, Handled, Done, vars
  <2>2. QED  BY <2>1, SingleFixed DEF ClassInv, Concluded
<1>17. QED
  BY <1>2, <1>3, <1>4, <1>5, <1>6, <1>7, <1>8, <1>9, <1>10, <1>11, <1>12, <1>13, <1>14,
     <1>15, <1>16 DEF Next

(* With one key that fits the token, every path settles a single defect    *)
(* with the same class: jose, the portable curves for a signature of the   *)
(* length of the curve, ML-DSA and PEM keys.                               *)
THEOREM SameClass == Spec => []SameClassOnEveryPath
<1>1. ClassInv => SameClassOnEveryPath
  BY DEF ClassInv, SameClassOnEveryPath, OneFittingKey, Single, ClassOf, OtherDefect
<1>2. QED  BY <1>1, BaseCorrect, ClassInit, ClassNext, PTL DEF Spec

-----------------------------------------------------------------------------
(* The promise *)

Ringed == {"keys", "pem", "mldsa", "portable", "jose", "verified"}

(* Where the ring is from, which way a secret goes, and that no step       *)
(* before the keys are looked at refuses what has to be accepted.          *)
PromiseInv ==
  /\ keys \in Named \cup {<<>>}
  /\ phase \in Ringed => keys \in Named
  /\ phase = "lookup" => AsksEndpoint /\ request.jwksUri
  /\ phase = "hmac" => Secret
  /\ phase \in Ringed \cup {"lookup"} => ~Secret
  /\ outcome = "ImportError" => ImportMayFail /\ token.alg = "ML-DSA-65"
  /\ outcome = "true" => Secret /\ token.signer = request.secret
  /\ Concluded /\ Certain /\ ClaimsHold /\ outcome \notin Accepted =>
       keys \in Named /\ CertainByKey

LEMMA PromiseFixed ==
  ASSUME keys' = keys, request' = request
  PROVE  /\ Certain' = Certain /\ CertainByKey' = CertainByKey /\ SignedFor' = SignedFor
         /\ Named' = Named /\ Secret' = Secret /\ AsksEndpoint' = AsksEndpoint
         /\ token' = token /\ (now' = now => ClaimsHold' = ClaimsHold)
<1>1. token' = token
  BY DEF token
<1>2. Named' = Named /\ Secret' = Secret /\ AsksEndpoint' = AsksEndpoint
  BY <1>1 DEF Named, Secret, AsksEndpoint
<1>3. CertainByKey' = CertainByKey
  BY <1>1, <1>2
  DEF CertainByKey, Keyed, UsesPem, PublicKey, HasToBeFound, Signs, Fits, IsPortable, IsJose
<1>4. Certain' = Certain
  BY <1>1, <1>2, <1>3 DEF Certain, CertainBySecret
<1>5. SignedFor' = SignedFor
  BY <1>1, <1>2 DEF SignedFor, Signs, Fits, IsPortable, IsJose, Clashes
<1>6. now' = now => ClaimsHold' = ClaimsHold
  BY <1>1 DEF ClaimsHold, ExpiredAt, EarlyAt, Unmet
<1>7. QED  BY <1>1, <1>2, <1>3, <1>4, <1>5, <1>6

LEMMA NamedFixed ==
  ASSUME request' = request
  PROVE  Named' = Named /\ Secret' = Secret /\ AsksEndpoint' = AsksEndpoint
  BY DEF Named, Secret, AsksEndpoint, token

(* A key has to be found only for an asymmetric, readable token. *)
LEMMA CertainToken ==
  ASSUME BaseInv, Certain
  PROVE  /\ token.form = "ok" /\ (request.op \in Http => request.bearer)
         /\ CertainByKey => token.alg \in Asymmetric /\ token.alg \notin Hmac
         /\ ~Refused
<1>1. CASE CertainByKey
  <2>1. PICK ks, n : HasToBeFound(ks, n)
    BY <1>1 DEF CertainByKey
  <2>2. token.form = "ok"
    BY <2>1, SignedWellFormed DEF HasToBeFound
  <2>3. token.alg \in Asymmetric /\ token.alg \notin Hmac
    BY <2>1, PathsDiffer DEF HasToBeFound, Fits, Asymmetric, Hmac
  <2>4. ~Refused
    BY <1>1, <2>3 DEF CertainByKey, Keyed, Refused, Missing
  <2>5. QED  BY <2>2, <2>3, <2>4 DEF Certain
<1>2. CASE ~CertainByKey
  <2>1. Secret /\ token.signer = request.secret
    BY <1>2 DEF Certain, CertainBySecret
  <2>2. token.signer # None
    BY <2>1 DEF Secret
  <2>3. token.form = "ok"
    BY <2>2 DEF BaseInv, VerificationTypeOK, Callable, token
  <2>4. ~Refused
    BY <2>1 DEF Secret, Refused, Missing, Asymmetric, Hmac
  <2>5. QED  BY <1>2, <2>3, <2>4 DEF Certain
<1>3. QED  BY <1>1, <1>2

(* With a ring, the key that has to be found is in it. *)
LEMMA CertainInRing ==
  ASSUME keys \in Named, CertainByKey
  PROVE  \E n \in DOMAIN keys : Right(n)
<1>1. \A ks \in IF AsksEndpoint THEN {keys} ELSE Named : ks = keys
  BY DEF Named
<1>2. QED  BY <1>1 DEF CertainByKey, Right

LEMMA PromiseReject ==
  ASSUME PromiseInv, NEW e, Reject(e), e \notin Accepted,
         e = "ImportError" => ImportMayFail /\ token.alg = "ML-DSA-65",
         phase \in Ringed \/ ~Certain
  PROVE  PromiseInv'
<1>1. /\ keys' = keys /\ request' = request /\ now' = now /\ phase' = "settled"
      /\ outcome' = toVerificationError(e)
  BY DEF Reject, Settle
<1>2. outcome' \notin Accepted
  BY <1>1, ConversionKeeps
<1>3. outcome' = "ImportError" => e = "ImportError"
  BY <1>1 DEF toVerificationError, Conversions
<1>4. phase \in Ringed /\ Certain => keys \in Named /\ CertainByKey
  BY DEF PromiseInv, Certain, CertainBySecret
<1>5. QED
  BY <1>1, <1>2, <1>3, <1>4, PromiseFixed DEF PromiseInv, Ringed, Accepted

LEMMA PromiseAwait ==
  ASSUME PromiseInv, ~Concluded, NEW place \in Ringed \cup {"hmac", "lookup"}, NEW ks,
         Await(place, ks),
         place \in Ringed => ks \in Named,
         place \notin Ringed => ks = keys,
         place = "hmac" <=> Secret,
         place = "lookup" => AsksEndpoint /\ request.jwksUri
  PROVE  PromiseInv'
<1>1. /\ keys' = ks /\ request' = request /\ phase' = place /\ outcome' = outcome
  BY DEF Await
<1>2. ~Concluded' /\ token' = token
  BY <1>1 DEF Concluded, Ringed, token
<1>3. QED
  BY <1>1, <1>2, NamedFixed DEF PromiseInv, Ringed

LEMMA PromiseConclude ==
  ASSUME PromiseInv, phase \in Ringed, NEW v, Conclude(v),
         v \notin Accepted \cup {"ImportError"}
  PROVE  PromiseInv'
<1>1. ~Concluded /\ keys \in Named /\ ~Secret
  BY DEF Ringed, Concluded, PromiseInv
<1>2. CASE v = "ok"
  BY <1>1, <1>2, PromiseAwait DEF Conclude, Ringed
<1>3. CASE v # "ok"
  BY <1>3, PromiseReject DEF Conclude
<1>4. QED  BY <1>2, <1>3

LEMMA NotImport ==
  /\ "ImportError" \notin {PortableVerdict, JoseSetVerdict, PemVerdict}
  /\ ClaimError(now) # "ImportError" /\ (ClaimsHold => ClaimError(now) = None)
<1>1. "ImportError" \notin DOMAIN Conversions
  BY DEF Conversions
<1>2. \A k : JoseVerdict(k) # "ImportError"
  BY OutcomeAssumption DEF JoseVerdict, JoseClaimError, Outcomes, Undocumented
<1>3. "ImportError" # None
  BY OutcomeAssumption DEF Outcomes, Undocumented
<1>4. QED
  BY <1>2, <1>3
  DEF PortableVerdict, JoseSetVerdict, PemVerdict, ClaimError, ClaimErrorWithoutExp,
      ClaimsHold

LEMMA PromiseInit == Init => PromiseInv
  BY OutcomeAssumption DEF Init, PromiseInv, Ringed, Concluded, Outcomes, Undocumented, Accepted

(* On the path of verifyTokenWithPublicKey there is no secret. *)
LEMMA PathHasNoSecret == WithPublicKey => ~Secret
  BY DEF WithPublicKey, Secret

LEMMA SuppliedIsNamed ==
  ASSUME BaseInv
  PROVE  /\ UsesPem => <<PublicKey>> \in Named
         /\ (PublicKey # None \/ request.adhoc # None) /\ ~UsesPem => Supplied \in Named
         /\ PublicKey = None /\ request.adhoc = None => AsksEndpoint
<1>1. /\ request.publicKey \in KeyType \cup {None}
      /\ request.adhoc \in Seq(KeyType) \cup {None}
  BY DEF BaseInv, VerificationTypeOK, Callable, RequestType
<1>2. \A s \in Seq(KeyType) : <<>> \o s = s /\ s \o <<>> = s
  OBVIOUS
<1>3. request.publicKey # None => <<request.publicKey>> \in Seq(KeyType)
  BY <1>1
<1>4. CASE request.op # "verify" /\ request.adhoc # None
  BY <1>1, <1>2, <1>4 DEF PublicKey, UsesPem, Supplied, Named, AsksEndpoint
<1>5. CASE ~(request.op # "verify" /\ request.adhoc # None)
  <2>1. PublicKey = request.publicKey
    BY <1>5 DEF PublicKey
  <2>2. QED
    BY <1>1, <1>2, <1>3, <1>5, <2>1 DEF UsesPem, Supplied, Named, AsksEndpoint
<1>6. QED  BY <1>4, <1>5

LEMMA PromiseNext == BaseInv /\ PromiseInv /\ [Next]_vars => PromiseInv'
<1> SUFFICES ASSUME BaseInv, PromiseInv, [Next]_vars PROVE PromiseInv'
  OBVIOUS
<1> USE DEF Concluded
<1>1. CASE NoBearer \/ Unreadable \/ Refuse
  <2>1. ~Certain
    BY <1>1, CertainToken DEF NoBearer, Unreadable, Refuse
  <2>2. QED
    BY <1>1, <2>1, PromiseReject DEF NoBearer, Unreadable, Refuse, Accepted
<1>2. CASE UseSecret
  <2>1. Secret
    BY <1>2 DEF UseSecret, Refused, Missing, Secret
  <2>2. QED
    BY <1>2, <2>1, PromiseAwait DEF UseSecret, Readable, Ringed
<1>3. CASE UsePem
  <2>1. UsesPem /\ ~Secret /\ phase = "called"
    BY <1>3, PathHasNoSecret DEF UsePem, UsesPem, WithPublicKey, Readable
  <2>2. token.alg = "ML-DSA-65" => ~Certain
    BY <2>1 DEF Certain, CertainByKey, CertainBySecret
  <2>3. QED
    BY <1>3, <2>1, <2>2, PromiseAwait, PromiseReject, SuppliedIsNamed
    DEF UsePem, Ringed, Accepted
<1>4. CASE UseSupplied
  <2>1. /\ ~UsesPem /\ ~Secret /\ phase = "called"
        /\ PublicKey # None \/ request.adhoc # None
    BY <1>4, PathHasNoSecret DEF UseSupplied, UsesPem, WithPublicKey, Readable
  <2>2. Supplied \in Named
    BY <2>1, SuppliedIsNamed
  <2>3. QED  BY <1>4, <2>1, <2>2, PromiseAwait DEF UseSupplied, Ringed
<1>5. CASE UseJwks \/ NoKeySource
  <2>1. AsksEndpoint /\ ~Secret /\ phase = "called" /\ keys = <<>>
    BY <1>5, PathHasNoSecret, SuppliedIsNamed
    DEF UseJwks, NoKeySource, NothingSupplied, WithPublicKey, Readable, BaseInv, SourceInv
  <2>2. CASE UseJwks
    BY <2>1, <2>2, PromiseAwait DEF UseJwks, Ringed
  <2>3. CASE NoKeySource
    <3>1. ~Certain
      BY <2>1 DEF Certain, CertainByKey, CertainBySecret
    <3>2. QED  BY <2>3, <3>1, PromiseReject DEF NoKeySource, Accepted
  <2>4. QED  BY <1>5, <2>2, <2>3
<1>6. CASE Lookup
  <2>1. /\ AsksEndpoint /\ request.jwksUri /\ ~Secret /\ phase = "lookup" /\ keys = <<>>
    BY <1>6 DEF Lookup, PromiseInv, BaseInv, SourceInv
  <2>2. Named = KeySets /\ ~Certain
    BY <2>1 DEF Named, Certain, CertainByKey, CertainBySecret
  <2>3. ASSUME NEW ks \in KeySets, Await("keys", ks) PROVE PromiseInv'
    BY <2>1, <2>2, <2>3, PromiseAwait DEF Ringed
  <2>4. ASSUME NEW e \in {"JwksEndpointError", "TypeError"}, Reject(e) PROVE PromiseInv'
    BY <2>2, <2>4, PromiseReject DEF Accepted
  <2>5. QED  BY <1>6, <2>3, <2>4 DEF Lookup
<1>7. CASE MismatchedAlgorithm \/ NoApplicableKey
  BY <1>7, PromiseReject
  DEF MismatchedAlgorithm, NoApplicableKey, Routed, Ringed, Accepted
<1>8. CASE RouteMlDsa \/ RoutePortable \/ RouteJose
  BY <1>8, PromiseAwait
  DEF RouteMlDsa, RoutePortable, RouteJose, Routed, PromiseInv, Ringed
<1>9. CASE VerifyPortable
  <2>1. phase \in Ringed /\ phase = "portable" /\ keys \in Named /\ ~Secret
    BY <1>9 DEF VerifyPortable, Ringed, PromiseInv
  <2>2. CASE Await("jose", keys)
    BY <2>1, <2>2, PromiseAwait DEF Ringed
  <2>3. CASE Conclude(PortableVerdict)
    BY <2>1, <2>3, PromiseConclude, PortableVerdictSound, NotImport
  <2>4. QED  BY <1>9, <2>2, <2>3 DEF VerifyPortable
<1>10. CASE VerifyJose
  BY <1>10, PromiseConclude, JoseSetVerdictSound, NotImport
  DEF VerifyJose, Ringed, Accepted
<1>11. CASE VerifyPem
  BY <1>11, PromiseConclude, PemVerdictSound, NotImport
  DEF VerifyPem, Ringed, BaseInv, VInv
<1>12. CASE VerifyMlDsa
  <2>1. phase \in Ringed /\ token.alg = "ML-DSA-65"
    BY <1>12 DEF VerifyMlDsa, Ringed, BaseInv, VInv, PhaseInv
  <2>2. ASSUME NEW v \in {"MalformedTokenError", "ok", "InvalidSignatureError"}, Conclude(v)
        PROVE  PromiseInv'
    BY <2>1, <2>2, PromiseConclude DEF Accepted
  <2>3. CASE ImportMayFail /\ Reject("ImportError")
    BY <2>1, <2>3, PromiseReject DEF Accepted
  <2>4. QED  BY <1>12, <2>2, <2>3 DEF VerifyMlDsa
<1>13. CASE VerifyHmac
  <2>1. Secret /\ keys' = keys /\ request' = request /\ now' = now /\ phase' = "settled"
    BY <1>13 DEF VerifyHmac, Settle, PromiseInv
  <2>2. outcome' \in {"TokenExpiredError", "false", "InsufficientScopeError", "true"}
    BY <1>13 DEF VerifyHmac, Settle
  <2>3. outcome' = "true" => token.signer = request.secret
    BY <1>13, OutcomeAssumption DEF VerifyHmac, Settle, HmacError, Conversions
  <2>4. ASSUME Certain, ClaimsHold PROVE outcome' = "true"
    <3>1. CertainBySecret /\ token.form = "ok"
      BY <2>1, <2>4, CertainToken DEF Certain, Secret
    <3>2. JoseClaimError(now) = None
      BY <2>1, <2>4 DEF JoseClaimError, ClaimsHold, Secret
    <3>3. HmacError = None
      BY <3>1, <3>2 DEF HmacError, CertainBySecret
    <3>4. None # "JWTExpired"
      BY OutcomeAssumption DEF Conversions
    <3>5. QED
      BY <1>13, <2>4, <3>1, <3>3, <3>4
      DEF VerifyHmac, Settle, CertainBySecret, ClaimsHold
  <2>5. QED
    BY <2>1, <2>2, <2>3, <2>4, PromiseFixed DEF PromiseInv, Ringed, Accepted
<1>14. CASE AssertClaims
  <2>1. phase \in Ringed
    BY <1>14 DEF AssertClaims, Ringed
  <2>2. CASE Settle("payload") /\ UNCHANGED keys
    <3>1. /\ keys' = keys /\ request' = request /\ phase' = "settled"
          /\ outcome' = "payload"
      BY <2>2 DEF Settle
    <3>2. QED  BY <3>1, PromiseFixed DEF PromiseInv, Ringed, Accepted
  <2>3. CASE Reject(ClaimError(now))
    BY <2>1, <2>3, PromiseReject, ClaimErrorSound, NotImport
  <2>4. QED  BY <1>14, <2>2, <2>3 DEF AssertClaims
<1>15. CASE Tick
  <2>1. keys' = keys /\ request' = request /\ phase' = phase /\ outcome' = outcome
        /\ ~Concluded'
    BY <1>15 DEF Tick, Awaiting
  <2>2. QED  BY <2>1, PromiseFixed DEF PromiseInv
<1>16. CASE Continue \/ Fail \/ Handled \/ Done \/ UNCHANGED vars
  <2>1. /\ keys' = keys /\ request' = request /\ now' = now /\ outcome' = outcome
        /\ phase' = phase \/ (phase = "settled" /\ phase' = "answered")
    BY <1>16 DEF Continue, Fail, Handled, Done, vars
  <2>2. QED  BY <2>1, PromiseFixed DEF PromiseInv, Ringed
<1>17. QED
  BY <1>1, <1>2, <1>3, <1>4, <1>5, <1>6, <1>7, <1>8, <1>9, <1>10, <1>11, <1>12, <1>13,
     <1>14, <1>15, <1>16 DEF Next

(* What an answer says at the moment it is given. *)
Guarantee ==
  Concluded =>
    IF outcome \in Accepted THEN SignedFor /\ ClaimsHold ELSE ~(Certain /\ ClaimsHold)

LEMMA AnswerIsRight == BaseInv /\ FoundInv /\ PromiseInv => Guarantee
<1> SUFFICES ASSUME BaseInv, FoundInv, PromiseInv, Concluded
             PROVE  IF outcome \in Accepted THEN SignedFor /\ ClaimsHold
                    ELSE ~(Certain /\ ClaimsHold)
  BY DEF Guarantee
<1>1. ASSUME outcome \in Accepted PROVE SignedFor /\ ClaimsHold
  <2>1. ClaimsHold
    BY <1>1 DEF ClaimsHold, BaseInv, VInv, AcceptedIsCurrent
  <2>2. CASE outcome = "payload"
    BY <2>1, <2>2 DEF SignedFor, BaseInv, VInv, AcceptedIsGenuine
  <2>3. CASE outcome = "true"
    BY <2>1, <2>3 DEF SignedFor, PromiseInv
  <2>4. QED  BY <1>1, <2>2, <2>3 DEF Accepted
<1>2. ASSUME outcome \notin Accepted, Certain, ClaimsHold PROVE FALSE
  <2>1. keys \in Named /\ CertainByKey
    BY <1>2 DEF PromiseInv
  <2>2. PICK n \in DOMAIN keys : Right(n)
    BY <2>1, CertainInRing
  <2>3. NoDefect
    BY <1>2, <2>1, NotImport DEF NoDefect, CertainByKey
  <2>4. outcome = "ImportError"
    BY <1>2, <2>2, <2>3 DEF FoundInv, Accepted
  <2>5. QED  BY <2>1, <2>4 DEF PromiseInv, CertainByKey
<1>3. QED  BY <1>1, <1>2

(* What a step may do to the ring and the answer. *)
Leaves  == keys' = keys /\ outcome' = outcome
Takes   == outcome = None /\ outcome' = None /\ keys = <<>> /\ request' = request
Settles == /\ outcome = None /\ phase' = "settled"
           /\ keys' = keys /\ request' = request /\ now' = now

LEMMA StepShape ==
  ASSUME BaseInv, [Next]_vars
  PROVE  Leaves \/ Takes \/ Settles
<1> USE DEF Leaves, Takes, Settles
<1>1. /\ ~Concluded => outcome = None
      /\ phase \in {"called", "lookup"} => keys = <<>>
  BY DEF BaseInv, VInv, PhaseInv, SourceInv
<1>2. CASE NoBearer \/ Unreadable \/ Refuse \/ NoKeySource \/ MismatchedAlgorithm
           \/ NoApplicableKey \/ VerifyHmac \/ AssertClaims
  BY <1>1, <1>2
  DEF NoBearer, Unreadable, Refuse, Readable, NoKeySource, NothingSupplied, WithPublicKey,
      MismatchedAlgorithm, NoApplicableKey, Routed, VerifyHmac, AssertClaims, Reject,
      Settle, Concluded
<1>3. CASE UseSecret \/ UseSupplied \/ UseJwks \/ UsePem \/ Lookup
  BY <1>1, <1>3
  DEF UseSecret, UseSupplied, UseJwks, UsePem, Lookup, NothingSupplied, WithPublicKey,
      Readable, Reject, Settle, Await, Concluded
<1>4. CASE RouteMlDsa \/ RoutePortable \/ RouteJose
  BY <1>4 DEF RouteMlDsa, RoutePortable, RouteJose, Await
<1>5. CASE VerifyPortable \/ VerifyJose \/ VerifyPem \/ VerifyMlDsa
  BY <1>1, <1>5
  DEF VerifyPortable, VerifyJose, VerifyPem, VerifyMlDsa, Conclude, Reject, Settle, Await,
      Concluded
<1>6. CASE Continue \/ Fail \/ Handled \/ Tick \/ Done \/ UNCHANGED vars
  BY <1>6 DEF Continue, Fail, Handled, Tick, Done, vars
<1>7. QED  BY <1>2, <1>3, <1>4, <1>5, <1>6 DEF Next

(* Such a step is a step of Verifier, or changes nothing of it. *)
LEMMA PromiseKept ==
  ASSUME Leaves \/ Takes \/ Settles, PromiseInv', Guarantee'
  PROVE  [Promise!Next]_(Promise!vars)
<1> USE DEF Promise!vars
<1>1. CASE Leaves
  BY <1>1 DEF Leaves
<1>2. CASE Takes
  <2>1. keys' \in Named \cup {<<>>}
    BY <1>2, NamedFixed DEF Takes, PromiseInv
  <2>2. CASE keys' = <<>>
    BY <1>2, <2>2 DEF Takes
  <2>3. CASE keys' # <<>>
    BY <1>2, <2>1, <2>3 DEF Takes, Promise!Next, Promise!Obtain
  <2>4. QED  BY <2>2, <2>3
<1>3. CASE Settles
  <2>1. /\ outcome = None /\ keys' = keys /\ Concluded'
        /\ Certain' = Certain /\ SignedFor' = SignedFor /\ ClaimsHold' = ClaimsHold
    BY <1>3, PromiseFixed DEF Settles, Concluded
  <2>2. Accepted' = Accepted
    BY DEF Accepted
  <2>3. CASE outcome' = None
    BY <2>1, <2>3
  <2>4. CASE outcome' # None /\ outcome' \in Accepted
    BY <2>1, <2>2, <2>4 DEF Guarantee, Promise!Next, Promise!Accept
  <2>5. CASE outcome' # None /\ outcome' \notin Accepted
    BY <2>1, <2>2, <2>5 DEF Guarantee, Promise!Next, Promise!Refuse
  <2>6. QED  BY <2>3, <2>4, <2>5
<1>4. QED  BY <1>1, <1>2, <1>3

PromisedInv == BaseInv /\ FoundInv /\ PromiseInv

LEMMA PromisedNext == PromisedInv /\ [Next]_vars => PromisedInv'
  BY BaseNext, FoundNext, PromiseNext DEF PromisedInv

LEMMA PromisedStep ==
  PromisedInv /\ PromisedInv' /\ Guarantee' /\ [Next]_vars => [Promise!Next]_(Promise!vars)
  BY StepShape, PromiseKept DEF PromisedInv

(* A verification answers once, with keys its call names; it accepts only  *)
(* what one of them or the secret signed, while the claims hold, and never *)
(* refuses then what has to be accepted, by whichever path.                *)
THEOREM VerificationKeepsPromise == Spec => ImplementsVerifier
<1>1. Init => PromisedInv /\ Promise!Init
  BY BaseInit, FoundInit, PromiseInit DEF PromisedInv, Init, Promise!Init
<1>2. PromisedInv => Guarantee
  BY AnswerIsRight DEF PromisedInv
<1>3. QED
  BY <1>1, <1>2, PromisedNext, PromisedStep, PTL DEF Spec, ImplementsVerifier, Promise!Spec
=============================================================================
