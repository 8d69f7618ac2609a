--------------------------- MODULE LifecycleProofs ---------------------------
(***************************************************************************)
(* Proofs about Lifecycle, for all plans, requests, key sets and clocks:   *)
(* its types, that what is proved of a verification holds of the whole, at *)
(* which second a token expires, and that a JWK keeps its algorithm.       *)
(***************************************************************************)
EXTENDS Lifecycle, RoutingProofs

Asking == {"direct", "verifying"}
Paired == {"generated", "signing", "signed", "verifying", "encrypted"}

(* What each stage has established. *)
StageInv ==
  /\ stage \in Stages
  /\ plan \in PlanType \cup {None} /\ pair \in PairType \cup {None}
  /\ signed \in TokenType \cup {None}
  /\ stage = "direct" => plan = None
  /\ stage # "direct" => plan \in PlanType
  /\ stage \in Paired =>
       pair \in PairType /\ pair.text = text /\ pair.label = LabelOf(plan.identifier)
  /\ stage \in {"signing", "signed", "verifying"} =>
       signed \in TokenType /\ signed.form = "ok" /\ signed.kid \in {None, Kid}
  /\ stage = "verifying" => request = Asked
  /\ stage \notin Asking =>
       /\ phase = "called" /\ keys = <<>> /\ outcome = None
       /\ response = None /\ continued = FALSE /\ now \in Nat

(* A token is called expired when it is. *)
ExpiryInv == outcome = "TokenExpiredError" => ExpiredAt(now)

(* Within a verification all that is proved of one. *)
Verifying == stage \in Asking => PromisedInv /\ ClassInv /\ ExpiryInv

LInv == StageInv /\ Verifying

-----------------------------------------------------------------------------
(* Which second *)

LEMMA ExpiryInit == Init => ExpiryInv
  BY OutcomeAssumption DEF Init, ExpiryInv, Outcomes, Documented

LEMMA RejectExpiry ==
  ASSUME NEW e, Reject(e), e \in {"JWTExpired", "TokenExpiredError"} => ExpiredAt(now)
  PROVE  ExpiryInv'
  BY DEF Reject, Settle, toVerificationError, Conversions, ExpiryInv, ExpiredAt, token

LEMMA AwaitExpiry ==
  ASSUME VInv, ~Concluded, NEW place, NEW ks, Await(place, ks)
  PROVE  ExpiryInv'
  BY OutcomeAssumption
  DEF Await, VInv, PhaseInv, ExpiryInv, Outcomes, Documented

LEMMA ConcludeExpiry ==
  ASSUME VInv, ~Concluded, NEW v, Conclude(v),
         v \in {"JWTExpired", "TokenExpiredError"} => ExpiredAt(now)
  PROVE  ExpiryInv'
  BY AwaitExpiry, RejectExpiry DEF Conclude

LEMMA JoseVerdictExpiry ==
  ASSUME NEW k
  PROVE  /\ JoseVerdict(k) = "JWTExpired" => ExpiredAt(now)
         /\ JoseVerdict(k) # "TokenExpiredError"
  BY OutcomeAssumption DEF JoseVerdict, JoseClaimError

LEMMA VerdictsExpiry ==
  /\ JoseSetVerdict = "JWTExpired" => ExpiredAt(now)
  /\ PemVerdict = "JWTExpired" => ExpiredAt(now)
  /\ PortableVerdict # "JWTExpired"
  /\ "TokenExpiredError" \notin {JoseSetVerdict, PemVerdict, PortableVerdict}
  BY JoseVerdictExpiry DEF JoseSetVerdict, PemVerdict, PortableVerdict

LEMMA ExpiryNext ==
  ASSUME VInv, ExpiryInv, [Next]_vars
  PROVE  ExpiryInv'
<1>1. CASE NoBearer \/ Unreadable \/ Refuse \/ NoKeySource \/ MismatchedAlgorithm
           \/ NoApplicableKey
  BY <1>1, RejectExpiry
  DEF NoBearer, Unreadable, Refuse, NoKeySource, MismatchedAlgorithm, NoApplicableKey
<1>2. CASE UseSecret \/ UseSupplied \/ UseJwks \/ RouteMlDsa \/ RoutePortable \/ RouteJose
  BY <1>2, AwaitExpiry
  DEF UseSecret, UseSupplied, UseJwks, NothingSupplied, WithPublicKey, Readable,
      RouteMlDsa, RoutePortable, RouteJose, Routed, Concluded
<1>3. CASE UsePem
  BY <1>3, AwaitExpiry, RejectExpiry DEF UsePem, WithPublicKey, Readable, Concluded
<1>4. CASE Lookup
  BY <1>4, AwaitExpiry, RejectExpiry DEF Lookup, Concluded
<1>5. CASE VerifyPortable
  BY <1>5, AwaitExpiry, ConcludeExpiry, VerdictsExpiry DEF VerifyPortable, Concluded
<1>6. CASE VerifyJose
  BY <1>6, ConcludeExpiry, VerdictsExpiry DEF VerifyJose, Concluded
<1>7. CASE VerifyPem
  BY <1>7, ConcludeExpiry, VerdictsExpiry DEF VerifyPem, Concluded
<1>8. CASE VerifyMlDsa
  BY <1>8, ConcludeExpiry, RejectExpiry DEF VerifyMlDsa, Concluded
<1>9. CASE VerifyHmac
  BY <1>9, OutcomeAssumption
  DEF VerifyHmac, Settle, HmacError, JoseClaimError, ExpiryInv, ExpiredAt, token, Conversions
<1>10. CASE AssertClaims
  <2>1. ClaimError(now) \in {"JWTExpired", "TokenExpiredError"} => ExpiredAt(now)
    BY OutcomeAssumption DEF ClaimError, ClaimErrorWithoutExp, Outcomes, Documented, Conversions
  <2>2. QED
    BY <1>10, <2>1, RejectExpiry DEF AssertClaims, Settle, ExpiryInv
<1>11. CASE Tick
  BY <1>11, OutcomeAssumption
  DEF Tick, VInv, PhaseInv, Concluded, Awaiting, ExpiryInv, Outcomes, Documented
<1>12. CASE Continue \/ Fail \/ Handled \/ Done \/ UNCHANGED vars
  BY <1>12 DEF Continue, Fail, Handled, Done, vars, ExpiryInv, ExpiredAt, token
<1>13. QED
  BY <1>1, <1>2, <1>3, <1>4, <1>5, <1>6, <1>7, <1>8, <1>9, <1>10, <1>11, <1>12 DEF Next

-----------------------------------------------------------------------------
(* The composition *)

LEMMA LInvInit == LInit => LInv
<1> SUFFICES ASSUME LInit PROVE LInv
  OBVIOUS
<1>1. pair = None /\ signed = None
  BY DEF LInit
<1>2. CASE plan = None /\ stage = "direct" /\ Init
  <2>1. Verifying
    BY <1>2, BaseInit, FoundInit, PromiseInit, ClassInit, ExpiryInit
    DEF Verifying, PromisedInv
  <2>2. QED  BY <1>1, <1>2, <2>1 DEF LInv, StageInv, Stages, Asking, Paired
<1>3. CASE plan \in Plans /\ stage = "planned"
  <2>1. plan \in PlanType
    BY <1>3, LifecycleAssumption
  <2>2. Verifying
    BY <1>3 DEF Verifying, Asking
  <2>3. QED
    BY <1>1, <1>3, <2>1, <2>2 DEF LInit, LInv, StageInv, Stages, Asking, Paired
<1>4. QED  BY <1>2, <1>3 DEF LInit

(* What a step to a stage s leaves alone. *)
LEMMA ReachKeeps ==
  ASSUME LInv, NEW s0 \in Stages \ Asking, NEW s \in Stages \ Asking, At(s0), Reach(s),
         s \in Paired => s0 \in Paired,
         s \in {"signing", "signed"} => s0 \in {"signing", "signed"}
  PROVE  LInv'
<1>1. /\ stage = s0 /\ stage' = s /\ plan' = plan /\ pair' = pair /\ signed' = signed
      /\ now' = now /\ phase' = phase /\ keys' = keys /\ outcome' = outcome
      /\ response' = response /\ continued' = continued
  BY DEF At, Reach, vars
<1>2. Verifying'
  BY <1>1 DEF Verifying
<1>3. StageInv'
  BY <1>1 DEF LInv, StageInv, Asking, text
<1>4. QED  BY <1>2, <1>3 DEF LInv

(* The labels are those a key may declare. *)
LEMMA LabelTyped ==
  ASSUME NEW id \in Identifiers
  PROVE  /\ LabelOf(id) \in Labels \cup {"none", "X448"}
         /\ id \in Jose \cup Portable \cup Symmetric \cup {"ML-DSA-65"} => LabelOf(id) \in Labels
         /\ algFamily(LabelOf(id)) = LabelOf(id)
  BY DEF LabelOf, normalizedJwtAlg, Identifiers, Labels, Jose, Rsa, Ecdh, Portable, Symmetric,
         Hmac, Asymmetric, algFamily

LEMMA GotKeeps ==
  ASSUME LInv, At("planned"), NEW kind \in Kinds, Got(kind),
         plan.identifier \in Jose \cup Portable \cup Symmetric \cup {"ML-DSA-65"}
  PROVE  LInv'
<1>1. /\ stage = "planned" /\ stage' = "generated" /\ plan' = plan /\ signed' = signed
      /\ now' = now /\ phase' = phase /\ keys' = keys /\ outcome' = outcome
      /\ response' = response /\ continued' = continued
  BY DEF At, Got, vars
<1>2. plan \in PlanType
  BY <1>1 DEF LInv, StageInv
<1>3. LabelOf(plan.identifier) \in Labels
  BY <1>2, LabelTyped DEF PlanType
<1>4. getSymmetricKeySize(plan.identifier, plan.keySize) \in Nat
  <2>1. CASE plan.keySize \in Nat \ {0}
    <3>1. plan.keySize \div 8 \in Nat
      BY <2>1
    <3>2. QED  BY <2>1, <3>1 DEF getSymmetricKeySize
  <2>2. CASE plan.keySize \notin Nat \ {0}
    BY <2>2 DEF getSymmetricKeySize
  <2>3. QED  BY <2>1, <2>2
<1>5. /\ pair' \in PairType
      /\ pair'.text = text /\ pair'.label = LabelOf(plan.identifier)
  <2> DEFINE size == CASE kind = "oct" -> getSymmetricKeySize(plan.identifier, plan.keySize)
                       [] kind = "RSA" -> modulusLength(plan.keySize)
                       [] OTHER        -> 0
  <2>1. modulusLength(plan.keySize) \in Nat
    BY DEF modulusLength
  <2>2. size \in Nat
    BY <1>4, <2>1
  <2>3. pair' = [kind |-> kind, text |-> text, label |-> LabelOf(plan.identifier),
                 size |-> size]
    BY DEF Got
  <2> HIDE DEF size
  <2>4. QED  BY <1>3, <2>2, <2>3 DEF PairType, text
<1>6. Verifying'
  BY <1>1 DEF Verifying, Asking
<1>7. StageInv'
  BY <1>1, <1>2, <1>5 DEF LInv, StageInv, Stages, Asking, Paired, text
<1>8. QED  BY <1>6, <1>7 DEF LInv

LEMMA GenerationKeeps ==
  ASSUME LInv,
         GetMlDsaPair \/ GetPortablePair \/ GetSymmetricPair \/ GetJosePair \/ GetNoPair
  PROVE  LInv'
<1>1. At("planned") /\ plan \in PlanType
  BY DEF GetMlDsaPair, GetPortablePair, GetSymmetricPair, GetJosePair, GetNoPair, At, LInv,
         StageInv
<1>2. CASE Reach("notGenerated")
  BY <1>1, <1>2, ReachKeeps DEF Stages, Failures, Asking, Paired
<1>3. ASSUME NEW kind, Got(kind),
             \/ plan.identifier = "ML-DSA-65" /\ kind = "AKP"
             \/ plan.identifier \in Portable /\ kind = PortableKind(plan.identifier)
             \/ plan.identifier \in Symmetric /\ kind = "oct"
             \/ plan.identifier \in Jose /\ kind = JoseKind(plan.identifier)
      PROVE  LInv'
  <2>1. kind \in Kinds
    BY <1>3 DEF PortableKind, JoseKind, Portable, Jose, Rsa, Ecdh, Kinds
  <2>2. QED  BY <1>1, <1>3, <2>1, GotKeeps
<1>4. QED
  BY <1>2, <1>3
  DEF GetMlDsaPair, GetPortablePair, GetSymmetricPair, GetJosePair, GetNoPair, NodeKind

LEMMA MaterialTyped ==
  ASSUME NEW kind \in Kinds
  PROVE  <<kind, "pair">> \in Materials /\ <<kind, "text">> \in Materials
  BY LifecycleAssumption

LEMMA BeginKeeps ==
  ASSUME LInv, At("generated"), NEW exp \in Nat \cup {None, NotANumber}, BeginSigning(exp)
  PROVE  LInv'
<1>1. /\ stage = "generated" /\ stage' = "signing" /\ plan' = plan /\ pair' = pair
      /\ now' = now /\ phase' = phase /\ keys' = keys /\ outcome' = outcome
      /\ response' = response /\ continued' = continued /\ signed' = Unsigned(exp)
  BY DEF At, BeginSigning, vars
<1>2. signed' \in TokenType /\ signed'.form = "ok" /\ signed'.kid \in {None, Kid}
  BY <1>1, LifecycleAssumption DEF Unsigned, TokenType
<1>3. Verifying'
  BY <1>1 DEF Verifying, Asking
<1>4. StageInv'
  BY <1>1, <1>2 DEF LInv, StageInv, Stages, Asking, Paired, text
<1>5. QED  BY <1>3, <1>4 DEF LInv

LEMMA BeginningKeeps ==
  ASSUME LInv, SignJwt \/ CreateSignedJwt
  PROVE  LInv'
<1>1. At("generated") /\ plan \in PlanType /\ now \in Nat
  BY DEF SignJwt, CreateSignedJwt, At, LInv, StageInv, Asking
<1>2. CASE Reach("notSigned")
  BY <1>1, <1>2, ReachKeeps DEF Stages, Failures, Asking, Paired
<1>3. /\ plan.exp \in Nat \cup {None, NotANumber}
      /\ plan.session # None => now + plan.session \in Nat
  BY <1>1 DEF PlanType
<1>4. CASE \E exp \in Nat \cup {None, NotANumber} : BeginSigning(exp)
  BY <1>1, <1>4, BeginKeeps
<1>5. QED  BY <1>2, <1>3, <1>4 DEF SignJwt, CreateSignedJwt

LEMMA SignatureKeeps ==
  ASSUME LInv, At("signing"), NEW alg \in Hmac \cup Asymmetric,
         NEW signer \in Materials \cup {None}, Signature(alg, signer)
  PROVE  LInv'
<1>1. /\ stage = "signing" /\ stage' = "signed" /\ plan' = plan /\ pair' = pair
      /\ now' = now /\ phase' = phase /\ keys' = keys /\ outcome' = outcome
      /\ response' = response /\ continued' = continued
      /\ signed' = [signed EXCEPT !.alg = alg, !.signer = signer]
  BY DEF At, Signature, vars
<1>2. signed \in TokenType /\ signed.form = "ok" /\ signed.kid \in {None, Kid}
  BY <1>1 DEF LInv, StageInv
<1>3. signed' \in TokenType /\ signed'.form = "ok" /\ signed'.kid \in {None, Kid}
  BY <1>1, <1>2 DEF TokenType
<1>4. Verifying'
  BY <1>1 DEF Verifying, Asking
<1>5. StageInv'
  BY <1>1, <1>3 DEF LInv, StageInv, Stages, Asking, Paired, text
<1>6. QED  BY <1>4, <1>5 DEF LInv

LEMMA SigningKeeps ==
  ASSUME LInv, SignMlDsa \/ SignPortable \/ SignJose
  PROVE  LInv'
<1>1. At("signing") /\ pair.kind \in Kinds
  BY DEF SignMlDsa, SignPortable, SignJose, At, LInv, StageInv, Paired, PairType
<1>2. CASE Reach("notSigned")
  BY <1>1, <1>2, ReachKeeps DEF Stages, Failures, Asking, Paired
<1>3. /\ Material \in Materials \cup {None}
      /\ <<pair.kind, "text">> \in Materials \cup {None}
  BY <1>1, MaterialTyped DEF Material
<1>4. ASSUME NEW alg \in Hmac \cup Asymmetric, NEW signer \in Materials \cup {None},
             Signature(alg, signer)
      PROVE  LInv'
  BY <1>1, <1>4, SignatureKeeps
<1>5. CASE SignMlDsa
  BY <1>2, <1>3, <1>4, <1>5 DEF SignMlDsa, Asymmetric
<1>6. CASE SignPortable
  BY <1>2, <1>3, <1>4, <1>6 DEF SignPortable, Asymmetric
<1>7. CASE SignJose
  <2>1. JoseSigns(plan.as) => normalizedJwtAlg(plan.as) \in Asymmetric
    BY DEF JoseSigns, JoseKinds, Asymmetric
  <2>2. QED
    BY <1>2, <1>3, <1>4, <1>7, <2>1 DEF SignJose
<1>8. QED  BY <1>5, <1>6, <1>7

(* What a caller asks with a generated pair is what callers may ask. *)
LEMMA AskedCallable ==
  ASSUME plan \in PlanType, pair \in PairType, signed \in TokenType, signed.form = "ok"
  PROVE  Asked \in Callable
<1> DEFINE k == [kind |-> pair.kind, kid |-> IF pair.text THEN None ELSE Kid,
                 alg |-> IF pair.text THEN None ELSE pair.label, material |-> Material,
                 weak |-> Weak]
<1>1. pair.kind \in Kinds /\ pair.label \in Labels /\ pair.text \in BOOLEAN
  BY DEF PairType
<1>2. Material \in Materials /\ <<pair.kind, "text">> \in Materials
  BY <1>1, MaterialTyped DEF Material
<1>3. k \in KeyType /\ (pair.text => k.kid = None /\ k.alg = None)
  BY <1>1, <1>2, LifecycleAssumption DEF KeyType, Weak
<1>4. PublicHalf \in KeyType /\ (pair.text => PublicHalf.kid = None /\ PublicHalf.alg = None)
  <2>1. PublicHalf = IF plan.way = "published" THEN makePublicKey(k) ELSE k
    BY DEF PublicHalf
  <2>2. makePublicKey(k) \in KeyType /\ makePublicKey(k).kid = k.kid /\ makePublicKey(k).alg = k.alg
    BY <1>3 DEF makePublicKey, KeyType, Kinds
  <2>3. QED  BY <1>3, <2>1, <2>2
<1>5. <<PublicHalf>> \in Seq(KeyType)
  BY <1>4
<1>6. Asked \in RequestType
  BY <1>1, <1>2, <1>4, <1>5 DEF Asked, RequestType
<1>7. /\ Asked.token = signed /\ Asked.pem = pair.text
      /\ Asked.publicKey = IF plan.way \in {"verify", "published"} THEN PublicHalf ELSE None
  BY DEF Asked
<1>8. QED  BY <1>4, <1>6, <1>7 DEF Callable

LEMMA SubmitKeeps ==
  ASSUME LInv, Submit
  PROVE  LInv'
<1>1. /\ stage = "signed" /\ stage' = "verifying" /\ request' = Asked /\ began' = now
      /\ now' = now /\ phase' = phase /\ keys' = keys /\ outcome' = outcome
      /\ response' = response /\ continued' = continued
      /\ plan' = plan /\ pair' = pair /\ signed' = signed
  BY DEF Submit
<1>2. /\ plan \in PlanType /\ pair \in PairType /\ signed \in TokenType /\ signed.form = "ok"
      /\ phase = "called" /\ keys = <<>> /\ outcome = None
      /\ response = None /\ continued = FALSE /\ now \in Nat
  BY <1>1 DEF LInv, StageInv, Paired, Asking
<1>3. Asked' = Asked
  BY <1>1 DEF Asked, PublicHalf, Material, Weak
<1>4. StageInv'
  BY <1>1, <1>3 DEF LInv, StageInv, Stages, Asking, Paired, text
<1>5. request' \in Callable
  BY <1>1, <1>2, AskedCallable
<1>6. VerificationTypeOK'
  <2>1. <<>> \in Seq(KeyType)
    OBVIOUS
  <2>2. keys' \in Seq(KeyType)
    BY <1>1, <1>2, <2>1
  <2>3. QED  BY <1>1, <1>2, <1>5, <2>2 DEF VerificationTypeOK, Phases
<1>7. VInv' /\ ExpiryInv'
  BY <1>1, <1>2, <1>5, OutcomeAssumption
  DEF VInv, PhaseInv, Concluded, AcceptedIsGenuine, AcceptedIsCurrent, ExpiryInv,
      ClaimsBlamedAfterSignature, Accepted, Outcomes, Documented
<1>8. SourceInv' /\ FoundInv' /\ ClassInv'
  BY <1>1, <1>2 DEF SourceInv, FoundInv, ClassInv, Concluded, Single
<1>9. PromiseInv'
  BY <1>1, <1>2, OutcomeAssumption
  DEF PromiseInv, Ringed, Concluded, Outcomes, Undocumented, Accepted
<1>10. QED  BY <1>4, <1>6, <1>7, <1>8, <1>9 DEF LInv, Verifying, PromisedInv, BaseInv

LEMMA RequestFixed == [Next]_vars => request' = request
  BY DEF vars, Next, NoBearer, Unreadable, Refuse, UseSecret, UsePem, UseSupplied, UseJwks,
         NoKeySource, Lookup, MismatchedAlgorithm, RouteMlDsa, RoutePortable, RouteJose,
         NoApplicableKey, VerifyPortable, VerifyJose, VerifyPem, VerifyMlDsa, VerifyHmac,
         AssertClaims, Continue, Fail, Handled, Tick, Done, Conclude, Reject, Settle, Await

LEMMA VerifyKeeps ==
  ASSUME LInv, Verify
  PROVE  LInv'
<1>1. /\ stage \in Asking /\ stage' = stage /\ plan' = plan /\ pair' = pair
      /\ signed' = signed /\ Next
  BY DEF Verify, lvars, Asking
<1>2. request' = request
  BY <1>1, RequestFixed
<1>3. StageInv'
  BY <1>1, <1>2 DEF LInv, StageInv, Asked, PublicHalf, Material, Weak, text
<1>4. Verifying'
  BY <1>1, PromisedNext, ClassNext, ExpiryNext DEF LInv, Verifying, PromisedInv, BaseInv
<1>5. QED  BY <1>3, <1>4 DEF LInv

LEMMA LInvNext == LInv /\ [LNext]_<<vars, lvars>> => LInv'
<1> SUFFICES ASSUME LInv, [LNext]_<<vars, lvars>> PROVE LInv'
  OBVIOUS
<1>1. CASE \/ GetMlDsaPair \/ GetPortablePair \/ GetSymmetricPair \/ GetJosePair
           \/ GetNoPair
  BY <1>1, GenerationKeeps
<1>2. CASE SignJwt \/ CreateSignedJwt
  BY <1>2, BeginningKeeps
<1>3. CASE SignMlDsa \/ SignPortable \/ SignJose
  BY <1>3, SigningKeeps
<1>4. CASE Submit
  BY <1>4, SubmitKeeps
<1>5. CASE Verify
  BY <1>5, VerifyKeeps
<1>6. CASE EncryptJwe \/ DecryptJwe
  BY <1>6, ReachKeeps DEF EncryptJwe, DecryptJwe, Stages, Failures, Asking, Paired
<1>7. CASE Wait
  <2>1. /\ stage \in {"signing", "signed"} /\ stage' = stage /\ plan' = plan
        /\ pair' = pair /\ signed' = signed /\ now' = now + 1
        /\ phase' = phase /\ keys' = keys /\ outcome' = outcome
        /\ response' = response /\ continued' = continued
    BY <1>7 DEF Wait, lvars
  <2>2. QED  BY <2>1 DEF LInv, StageInv, Verifying, Asking, text
<1>8. CASE Ended \/ UNCHANGED <<vars, lvars>>
  <2>1. UNCHANGED <<vars, lvars>>
    BY <1>8 DEF Ended
  <2>2. StageInv'
    BY <2>1 DEF vars, lvars, LInv, StageInv, Asked, PublicHalf, Material, Weak, text
  <2>3. Verifying'
    BY <2>1, PromisedNext, ClassNext, ExpiryNext
    DEF vars, lvars, LInv, Verifying, PromisedInv, BaseInv
  <2>4. QED  BY <2>2, <2>3 DEF LInv
<1>9. QED
  BY <1>1, <1>2, <1>3, <1>4, <1>5, <1>6, <1>7, <1>8 DEF LNext

LEMMA LInvCorrect == LSpec => []LInv
  BY LInvInit, LInvNext, PTL DEF LSpec

-----------------------------------------------------------------------------
(* The algorithm of a generated JWK *)

Backends == {"mldsa", "portable", "jose", "verified"}

(* Beyond the routing the label of the key is the algorithm of the token. *)
LabelKept == algFamily(pair.label) = token.alg

OneKey ==
  /\ \E k \in KeyType :
       keys = <<k>> /\ k.alg = pair.label /\ k.kind # "junk" /\ k.kid = Kid
  /\ PublicKey # None \/ request.adhoc # None

KeyInv ==
  stage = "verifying" /\ ~pair.text =>
    /\ phase \notin {"pem", "lookup"}
    /\ phase = "keys" => OneKey
    /\ phase \in Backends => LabelKept
    /\ outcome = "payload" => LabelKept

(* The call has the public half, its label and its kid, and nothing else. *)
LEMMA HalfSupplied ==
  ASSUME LInv, stage = "verifying", ~pair.text,
         PublicKey # None \/ request.adhoc # None
  PROVE  \E k \in KeyType :
           Supplied = <<k>> /\ k.alg = pair.label /\ k.kind # "junk" /\ k.kid = Kid
<1> DEFINE k == [kind |-> pair.kind, kid |-> Kid, alg |-> pair.label, material |-> Material,
                 weak |-> Weak]
<1>1. request = Asked /\ pair \in PairType
  BY DEF LInv, StageInv, Paired
<1>2. k \in KeyType /\ k.kind # "junk"
  BY <1>1, MaterialTyped, LifecycleAssumption DEF PairType, KeyType, Material, Kinds, Weak
<1>3. PublicHalf = IF plan.way = "published" THEN makePublicKey(k) ELSE k
  BY DEF PublicHalf
<1>4. /\ PublicHalf \in KeyType /\ PublicHalf.kind # "junk"
      /\ PublicHalf.alg = pair.label /\ PublicHalf.kid = Kid
  <2>1. /\ makePublicKey(k) \in KeyType /\ makePublicKey(k).kind # "junk"
        /\ makePublicKey(k).alg = k.alg /\ makePublicKey(k).kid = k.kid
    BY <1>2 DEF makePublicKey, KeyType, Kinds
  <2>2. QED  BY <1>2, <1>3, <2>1
<1>5. /\ request.publicKey = IF plan.way \in {"verify", "published"} THEN PublicHalf ELSE None
      /\ request.adhoc = IF plan.way = "adhoc" THEN <<PublicHalf>> ELSE None
      /\ request.op = IF plan.way \in {"adhoc", "secret"} THEN "check" ELSE "verify"
  BY <1>1 DEF Asked
<1> HIDE DEF k
<1>6. Supplied = <<PublicHalf>>
  <2>1. CASE plan.way \in {"verify", "published"}
    <3>1. PublicKey = PublicHalf /\ request.adhoc = None
      BY <1>5, <2>1 DEF PublicKey
    <3>2. PublicKey # None
      BY <3>1
    <3>3. QED  BY <3>1, <3>2 DEF Supplied
  <2>2. CASE plan.way \notin {"verify", "published"}
    <3>1. PublicKey = None
      BY <1>5, <2>2 DEF PublicKey
    <3>2. request.adhoc = <<PublicHalf>> /\ request.adhoc # None
      BY <1>5, <2>2, <3>1
    <3>3. QED  BY <3>1, <3>2 DEF Supplied
  <2>3. QED  BY <2>1, <2>2
<1>7. QED  BY <1>4, <1>6

(* The one key is the one meant for the token, whether it has a kid or not. *)
LEMMA RoutedKeepsLabel ==
  ASSUME LInv, stage = "verifying", OneKey, ~Mismatched
  PROVE  LabelKept
<1>1. PICK k \in KeyType :
        keys = <<k>> /\ k.alg = pair.label /\ k.kind # "junk" /\ k.kid = Kid
  BY DEF OneKey
<1>2. token = signed /\ signed.kid \in {None, Kid} /\ pair.label \in Labels
  BY DEF LInv, StageInv, Asked, token, Paired, PairType
<1>3. DOMAIN keys = {1} /\ keys[1] = k
  BY <1>1
<1>4. {n \in DOMAIN keys : keys[n].kind # "junk"} = {1} /\ Cardinality({1}) = 1
  BY <1>1, <1>3, FS_Singleton
<1>5. Intended = {1}
  <2>1. CASE token.kid # None
    BY <1>1, <1>2, <1>3, <1>4, <2>1 DEF Intended
  <2>2. CASE token.kid = None
    BY <1>4, <2>2 DEF Intended, OneKey
  <2>3. QED  BY <2>1, <2>2
<1>6. ~(keys[1].alg # None /\ algFamily(keys[1].alg) # token.alg)
  BY <1>5 DEF Mismatched
<1>7. pair.label # None
  BY <1>2, VerificationAssumption
<1>8. QED  BY <1>1, <1>3, <1>6, <1>7 DEF LabelKept

(* A verification of the public half: stage and pair are left alone. *)
InHalf == LInv /\ KeyInv /\ stage = "verifying" /\ ~pair.text /\ UNCHANGED lvars

LEMMA KeyReject ==
  ASSUME InHalf, NEW e, Reject(e), e \notin Accepted
  PROVE  KeyInv'
<1>1. phase' = "settled" /\ outcome' = toVerificationError(e)
  BY DEF Reject, Settle
<1>2. outcome' # "payload"
  BY <1>1, ConversionKeeps DEF Accepted
<1>3. QED  BY <1>1, <1>2 DEF KeyInv, Backends

LEMMA KeyAwait ==
  ASSUME InHalf, ~Concluded, NEW place \in {"hmac", "keys"} \cup Backends, NEW ks,
         Await(place, ks),
         place = "keys" => ks = Supplied /\ (PublicKey # None \/ request.adhoc # None),
         place \in Backends => LabelKept
  PROVE  KeyInv'
<1>1. /\ phase' = place /\ keys' = ks /\ request' = request /\ outcome' = outcome
      /\ pair' = pair
  BY DEF Await, InHalf, lvars
<1>2. outcome' # "payload"
  BY <1>1, OutcomeAssumption
  DEF InHalf, LInv, Verifying, Asking, PromisedInv, BaseInv, VInv, PhaseInv, Outcomes, Accepted
<1>3. LabelKept' = LabelKept
  BY <1>1 DEF LabelKept, token
<1>4. place = "keys" => OneKey'
  <2>1. place = "keys" =>
          \E k \in KeyType :
            ks = <<k>> /\ k.alg = pair.label /\ k.kind # "junk" /\ k.kid = Kid
    BY HalfSupplied DEF InHalf
  <2>2. QED  BY <1>1, <2>1 DEF OneKey, PublicKey
<1>5. QED  BY <1>1, <1>2, <1>3, <1>4 DEF KeyInv, Backends

LEMMA KeyConclude ==
  ASSUME InHalf, phase \in Backends, NEW v, Conclude(v), v \notin Accepted
  PROVE  KeyInv'
<1>1. LabelKept /\ ~Concluded
  BY DEF InHalf, KeyInv, Concluded, Backends
<1>2. CASE v = "ok"
  BY <1>1, <1>2, KeyAwait DEF Conclude, Backends
<1>3. CASE v # "ok"
  BY <1>3, KeyReject DEF Conclude
<1>4. QED  BY <1>2, <1>3

LEMMA KeyVerify ==
  ASSUME InHalf, Next
  PROVE  KeyInv'
<1>1. request = Asked /\ ~request.pem /\ ~request.jwksUri
  BY DEF InHalf, LInv, StageInv, Asked
<1>2. phase \notin {"pem", "lookup"}
  BY DEF InHalf, KeyInv
<1>3. CASE NoBearer \/ Unreadable \/ Refuse \/ NoKeySource \/ MismatchedAlgorithm
           \/ NoApplicableKey
  BY <1>3, KeyReject
  DEF NoBearer, Unreadable, Refuse, NoKeySource, MismatchedAlgorithm, NoApplicableKey,
      Accepted
<1>4. CASE UseSecret
  BY <1>4, KeyAwait DEF UseSecret, Readable, Concluded, Backends
<1>5. CASE UsePem \/ UseJwks \/ Lookup \/ VerifyPem
  BY <1>1, <1>2, <1>5 DEF UsePem, UseJwks, Lookup, VerifyPem
<1>6. CASE UseSupplied
  BY <1>6, KeyAwait DEF UseSupplied, WithPublicKey, Readable, Concluded, Backends
<1>7. CASE RouteMlDsa \/ RoutePortable \/ RouteJose
  <2>1. phase = "keys" /\ ~Mismatched
    BY <1>7 DEF RouteMlDsa, RoutePortable, RouteJose, Routed
  <2>2. LabelKept
    BY <2>1, RoutedKeepsLabel DEF InHalf, KeyInv
  <2>3. QED
    BY <1>7, <2>1, <2>2, KeyAwait
    DEF RouteMlDsa, RoutePortable, RouteJose, Concluded, Backends
<1>8. CASE VerifyPortable
  <2>1. phase \in Backends /\ ~Concluded /\ LabelKept
    BY <1>8 DEF VerifyPortable, Backends, Concluded, InHalf, KeyInv
  <2>2. QED
    BY <1>8, <2>1, KeyAwait, KeyConclude, PortableVerdictSound DEF VerifyPortable, Backends
<1>9. CASE VerifyJose
  BY <1>9, KeyConclude, JoseSetVerdictSound DEF VerifyJose, Backends, Accepted
<1>10. CASE VerifyMlDsa
  BY <1>10, KeyConclude, KeyReject DEF VerifyMlDsa, Backends, Accepted
<1>11. CASE VerifyHmac
  BY <1>11 DEF VerifyHmac, Settle, KeyInv, Backends
<1>12. CASE AssertClaims
  <2>1. CASE ClaimError(now) = None /\ Settle("payload") /\ UNCHANGED keys
    <3>1. phase' = "settled" /\ request' = request /\ pair' = pair
      BY <2>1 DEF Settle, InHalf, lvars
    <3>2. LabelKept
      BY <1>12 DEF AssertClaims, InHalf, KeyInv, Backends
    <3>3. QED  BY <3>1, <3>2 DEF KeyInv, LabelKept, token, Backends
  <2>2. CASE Reject(ClaimError(now))
    BY <2>2, KeyReject, ClaimErrorSound
  <2>3. QED  BY <1>12, <2>1, <2>2 DEF AssertClaims
<1>13. CASE Continue \/ Fail \/ Handled \/ Tick \/ Done
  <2>1. /\ keys' = keys /\ request' = request /\ outcome' = outcome
        /\ stage' = stage /\ pair' = pair
        /\ phase' \in {phase, "answered"}
    BY <1>13 DEF Continue, Fail, Handled, Tick, Done, vars, InHalf, lvars
  <2>2. QED
    BY <2>1 DEF InHalf, KeyInv, OneKey, LabelKept, PublicKey, token, Backends
<1>14. QED
  BY <1>3, <1>4, <1>5, <1>6, <1>7, <1>8, <1>9, <1>10, <1>11, <1>12, <1>13 DEF Next

LEMMA KeyInvInit == LInit => KeyInv
  BY DEF LInit, KeyInv

LEMMA KeyInvNext == LInv /\ KeyInv /\ [LNext]_<<vars, lvars>> => KeyInv'
<1> SUFFICES ASSUME LInv, KeyInv, [LNext]_<<vars, lvars>> PROVE KeyInv'
  OBVIOUS
<1>1. CASE Verify
  <2>1. CASE stage = "verifying" /\ ~pair.text
    BY <1>1, <2>1, KeyVerify DEF Verify, InHalf
  <2>2. CASE ~(stage = "verifying" /\ ~pair.text)
    BY <1>1, <2>2 DEF Verify, lvars, KeyInv
  <2>3. QED  BY <2>1, <2>2
<1>2. CASE Submit
  BY <1>2, OutcomeAssumption
  DEF Submit, LInv, StageInv, Asking, KeyInv, Backends, Outcomes, Accepted
<1>3. CASE Ended \/ UNCHANGED <<vars, lvars>>
  BY <1>3
  DEF Ended, vars, lvars, KeyInv, OneKey, LabelKept, PublicKey, token, Backends
<1>4. CASE \/ GetMlDsaPair \/ GetPortablePair \/ GetSymmetricPair \/ GetJosePair
           \/ GetNoPair \/ SignJwt \/ CreateSignedJwt \/ SignMlDsa \/ SignPortable
           \/ SignJose \/ EncryptJwe \/ DecryptJwe \/ Wait
  <2>1. stage' # "verifying"
    BY <1>4
    DEF GetMlDsaPair, GetPortablePair, GetSymmetricPair, GetJosePair, GetNoPair, SignJwt,
        CreateSignedJwt, SignMlDsa, SignPortable, SignJose, EncryptJwe, DecryptJwe, Wait,
        Got, Reach, BeginSigning, Signature, lvars
  <2>2. QED  BY <2>1 DEF KeyInv
<1>5. QED  BY <1>1, <1>2, <1>3, <1>4 DEF LNext

LEMMA KeyInvCorrect == LSpec => []KeyInv
  BY KeyInvInit, KeyInvNext, LInvCorrect, PTL DEF LSpec

-----------------------------------------------------------------------------
(* What a pair is good for *)

(* The identifier alone decides the kind of a pair, whoever made it.       *)
Generable == Jose \cup Portable \cup Symmetric \cup {"ML-DSA-65"}

KindOf(id) ==
  IF id \in Portable THEN PortableKind(id)
  ELSE IF id \in Symmetric THEN "oct"
  ELSE IF id = "ML-DSA-65" THEN "AKP" ELSE JoseKind(id)

Generated ==
  /\ pair \in PairType /\ plan.identifier \in Generable
  /\ pair.kind = KindOf(plan.identifier)
  /\ pair.text = text
  /\ pair.label = LabelOf(plan.identifier)
  /\ pair.kind = "oct" => pair.size = getSymmetricKeySize(plan.identifier, plan.keySize)
  /\ pair.text => plan.identifier # "ML-DSA-65"
  /\ pair.text /\ plan.identifier \in Portable => plan.node

(* The pair, also after a use of it has failed. *)
PairInv == stage \notin {"direct", "planned", "notGenerated"} => Generated

(* The key is imported as one that decrypts. *)
Imported ==
  \/ pair.kind = "oct"
  \/ ImportAlg(plan.expected) = plan.as
  \/ {ImportAlg(plan.expected), plan.as} \subseteq Ecdh

JweInv ==
  /\ stage \in {"encrypted", "notDecrypted"} => JoseEncrypts(plan.as)
  /\ stage = "notEncrypted" => ~JoseEncrypts(plan.as)
  /\ stage = "notDecrypted" => ~Imported
  /\ stage = "decrypted" => JoseEncrypts(plan.as) /\ Imported

(* A promised signature is made, under the label of the pair. *)
SignInv ==
  /\ stage \in {"signing", "signed", "verifying"} => signed.nbf = None /\ signed.lacks = {}
  /\ stage \in {"signed", "verifying"} /\ Promised =>
       signed.alg = pair.label /\ signed.signer = Material /\ ~Weak
  /\ stage = "notSigned" /\ Promised => Weak \/ (plan.as = "ML-DSA-65" /\ ImportMayFail)

UseInv == PairInv /\ JweInv /\ SignInv

(* The kinds that sign, and what they may be asked to sign under. *)
LEMMA PromisedPair ==
  ASSUME Generated, Promised
  PROVE  /\ pair.label = normalizedJwtAlg(plan.as) /\ algFamily(pair.label) = pair.label
         /\ \/ pair.kind = "AKP" /\ plan.as = "ML-DSA-65" /\ ~pair.text
            \/ pair.kind = "secp256k1" /\ plan.as = "ES256K" /\ (pair.text => plan.node)
            \/ /\ pair.kind = "Ed448" /\ plan.as \in {"Ed448", "EdDSA"}
               /\ pair.text => plan.node
            \/ pair.kind = "Ed25519" /\ plan.as \in {"Ed25519", "EdDSA"}
            \/ pair.kind = "RSA" /\ plan.as \in {"RS256", "PS256"}
            \/ pair.kind = "P-256" /\ plan.as = "ES256"
  BY DEF Generated, Promised, SignsAs, KindOf, PortableKind, JoseKind, Portable, Symmetric,
         Rsa, Ecdh, LabelOf, normalizedJwtAlg, algFamily

LEMMA UseInvInit == LInit => UseInv
  BY DEF LInit, UseInv, PairInv, JweInv, SignInv

LEMMA GenerationUse ==
  ASSUME LInv,
         GetMlDsaPair \/ GetPortablePair \/ GetSymmetricPair \/ GetJosePair \/ GetNoPair
  PROVE  UseInv'
<1>1. plan \in PlanType /\ plan' = plan
  BY DEF GetMlDsaPair, GetPortablePair, GetSymmetricPair, GetJosePair, GetNoPair, At, LInv,
         StageInv
<1>2. CASE Reach("notGenerated")
  BY <1>2 DEF Reach, UseInv, PairInv, JweInv, SignInv
<1>3. ASSUME Got(KindOf(plan.identifier)), plan.identifier \in Generable,
             text => plan.identifier # "ML-DSA-65",
             text /\ plan.identifier \in Portable => plan.node,
             At("planned")
      PROVE  UseInv'
  <2>1. stage' = "generated" /\ LInv'
    <3>1. KindOf(plan.identifier) \in Kinds
      BY <1>3 DEF Generable, KindOf, PortableKind, JoseKind, Portable, Symmetric, Jose, Rsa,
                  Ecdh, Kinds
    <3>2. QED  BY <1>3, <3>1, GotKeeps DEF Got, Generable
  <2>2. pair' \in PairType
    BY <2>1 DEF LInv, StageInv, Paired
  <2>3. pair' = [kind |-> KindOf(plan.identifier), text |-> text,
                 label |-> LabelOf(plan.identifier),
                 size |-> CASE KindOf(plan.identifier) = "oct" ->
                                 getSymmetricKeySize(plan.identifier, plan.keySize)
                            [] KindOf(plan.identifier) = "RSA" ->
                                 modulusLength(plan.keySize)
                            [] OTHER -> 0]
    BY <1>3 DEF Got
  <2>4. Generated'
    BY <1>1, <1>3, <2>2, <2>3 DEF Generated, text
  <2>5. QED  BY <2>1, <2>4 DEF UseInv, PairInv, JweInv, SignInv
<1>4. CASE GetMlDsaPair
  BY <1>2, <1>3, <1>4
  DEF GetMlDsaPair, KindOf, Generable, Portable, Symmetric
<1>5. CASE GetPortablePair
  BY <1>2, <1>3, <1>5 DEF GetPortablePair, KindOf, Generable, Portable
<1>6. CASE GetSymmetricPair
  BY <1>2, <1>3, <1>6 DEF GetSymmetricPair, KindOf, Generable, Symmetric, Portable
<1>7. CASE GetJosePair
  <2>1. /\ plan.identifier \in Jose
        /\ plan.identifier \notin Portable \cup Symmetric \cup {"ML-DSA-65"}
    BY <1>7 DEF GetJosePair, Jose, Rsa, Ecdh, Portable, Symmetric
  <2>2. KindOf(plan.identifier) = JoseKind(plan.identifier)
    BY <2>1 DEF KindOf
  <2>3. QED
    BY <1>2, <1>3, <1>7, <2>1, <2>2 DEF GetJosePair, NodeKind, Generable
<1>8. QED  BY <1>2, <1>4, <1>5, <1>6, <1>7 DEF GetNoPair,
    GetMlDsaPair, GetPortablePair, GetSymmetricPair, GetJosePair

(* A step that leaves the pair alone. *)
LEMMA PairKept ==
  ASSUME UseInv, plan' = plan, pair' = pair,
         stage \notin {"direct", "planned", "notGenerated"}
  PROVE  /\ PairInv' /\ Generated
         /\ Promised' = Promised /\ Material' = Material /\ Weak' = Weak
         /\ \A alg : JoseEncrypts(alg)' = JoseEncrypts(alg)
<1>1. Generated
  BY DEF UseInv, PairInv
<1>2. Generated'
  BY <1>1 DEF Generated, text
<1>3. QED
  BY <1>1, <1>2 DEF PairInv, Promised, Material, Weak, JoseEncrypts

LEMMA BeginningUse ==
  ASSUME LInv, UseInv, SignJwt \/ CreateSignedJwt
  PROVE  UseInv'
<1>1. stage = "generated" /\ plan' = plan /\ pair' = pair
  BY DEF SignJwt, CreateSignedJwt, At, BeginSigning, Reach
<1>2. PairInv' /\ Promised' = Promised
  BY <1>1, PairKept
<1>3. CASE Reach("notSigned") /\ CreateSignedJwt /\ (plan.as \notin Creatable \/ ~plan.given)
  <2>1. ~Promised
    BY <1>3 DEF CreateSignedJwt, Promised
  <2>2. stage' = "notSigned"
    BY <1>3 DEF Reach
  <2>3. QED  BY <1>2, <2>1, <2>2 DEF UseInv, JweInv, SignInv
<1>4. ASSUME NEW exp, BeginSigning(exp) PROVE UseInv'
  <2>1. stage' = "signing" /\ signed'.nbf = None /\ signed'.lacks = {}
    BY <1>4 DEF BeginSigning, Unsigned
  <2>2. QED  BY <1>2, <2>1 DEF UseInv, JweInv, SignInv
<1>5. QED  BY <1>3, <1>4 DEF SignJwt, CreateSignedJwt

LEMMA SignatureUse ==
  ASSUME LInv, UseInv, At("signing"), NEW alg, NEW signer, Signature(alg, signer),
         Promised => alg = pair.label /\ signer = Material /\ ~Weak
  PROVE  UseInv'
<1>1. /\ stage = "signing" /\ stage' = "signed" /\ plan' = plan /\ pair' = pair
      /\ signed' = [signed EXCEPT !.alg = alg, !.signer = signer]
  BY DEF At, Signature
<1>2. PairInv' /\ Promised' = Promised /\ Material' = Material /\ Weak' = Weak
  BY <1>1, PairKept
<1>3. signed \in TokenType /\ signed.nbf = None /\ signed.lacks = {}
  BY <1>1 DEF LInv, StageInv, UseInv, SignInv
<1>4. /\ signed'.nbf = None /\ signed'.lacks = {}
      /\ signed'.alg = alg /\ signed'.signer = signer
  BY <1>1, <1>3 DEF TokenType
<1>5. QED  BY <1>1, <1>2, <1>4 DEF UseInv, JweInv, SignInv

LEMMA SigningUse ==
  ASSUME LInv, UseInv, SignMlDsa \/ SignPortable \/ SignJose
  PROVE  UseInv'
<1>1. At("signing") /\ stage = "signing" /\ plan' = plan
  BY DEF SignMlDsa, SignPortable, SignJose, At
<1>2. Generated
  BY <1>1 DEF UseInv, PairInv
<1>3. ASSUME Reach("notSigned"),
             Promised => Weak \/ (plan.as = "ML-DSA-65" /\ ImportMayFail)
      PROVE  UseInv'
  <2>1. stage' = "notSigned" /\ pair' = pair
    BY <1>3 DEF Reach
  <2>2. PairInv' /\ Promised' = Promised /\ Weak' = Weak
    BY <1>1, <2>1, PairKept
  <2>3. QED  BY <1>1, <1>3, <2>1, <2>2 DEF UseInv, JweInv, SignInv
<1>4. CASE SignMlDsa
  <2>1. Promised => pair.kind = "AKP" /\ pair.label = plan.as /\ ~Weak
    BY <1>2, <1>4, PromisedPair DEF SignMlDsa, normalizedJwtAlg, Weak
  <2>2. QED  BY <1>1, <1>3, <1>4, <2>1, SignatureUse DEF SignMlDsa
<1>5. CASE SignPortable
  <2> DEFINE curve == curveFromJwkForAlg(plan.as, pair.kind)
             alg == IF curve = "ES256K" THEN "ES256K" ELSE "EdDSA"
             signer == IF pair.kind \in {"secp256k1", "Ed448"} THEN Material ELSE None
  <2>1. ASSUME Promised
        PROVE  /\ Resolves /\ curve # None /\ pair.kind \in Scalars(curve)
               /\ alg = pair.label /\ signer = Material /\ ~Weak
    <3>1. "ES256K" # None /\ "Ed448" # None
      BY VerificationAssumption DEF Labels, Asymmetric
    <3>2. \/ pair.kind = "secp256k1" /\ plan.as = "ES256K"
          \/ pair.kind = "Ed448" /\ plan.as \in {"Ed448", "EdDSA"}
      BY <1>2, <1>5, <2>1, <3>1, PromisedPair
      DEF SignPortable, UsesPortable, needsPortableEdDsa, curveFromJwkForAlg, Portable
    <3>3. Resolves
      BY <1>2, <2>1, <3>2, PromisedPair DEF Resolves
    <3>4. curve \in {"ES256K", "Ed448"} /\ pair.kind \in Scalars(curve)
      BY <3>2 DEF curveFromJwkForAlg, Scalars
    <3>5. alg = pair.label /\ signer = Material /\ ~Weak
      BY <1>2, <2>1, <3>2, PromisedPair DEF curveFromJwkForAlg, normalizedJwtAlg, Weak
    <3>6. QED  BY <3>1, <3>3, <3>4, <3>5
  <2>2. \/ Signature(alg, signer)
        \/ Reach("notSigned") /\ ~(Resolves /\ curve # None /\ pair.kind \in Scalars(curve))
    BY <1>5 DEF SignPortable
  <2> HIDE DEF curve, alg, signer
  <2>3. QED  BY <1>1, <1>3, <2>1, <2>2, SignatureUse
<1>6. CASE SignJose
  <2>1. ASSUME Promised
        PROVE  /\ plan.as \notin Hmac /\ (JoseSigns(plan.as) <=> ~Weak)
               /\ normalizedJwtAlg(plan.as) = pair.label
    <3>1. \/ pair.kind = "Ed25519" /\ plan.as \in {"Ed25519", "EdDSA"}
          \/ pair.kind = "RSA" /\ plan.as \in {"RS256", "PS256"}
          \/ pair.kind = "P-256" /\ plan.as = "ES256"
      BY <1>2, <1>6, <2>1, PromisedPair
      DEF SignJose, UsesPortable, needsPortableEdDsa, curveFromJwkForAlg, Portable, Resolves
    <3>2. JoseSigns(plan.as) <=> ~Weak
      BY <3>1 DEF JoseSigns, JoseKinds, normalizedJwtAlg, getJoseImportAlgorithm
    <3>3. QED  BY <1>2, <2>1, <3>1, <3>2, PromisedPair DEF Hmac
  <2>2. QED  BY <1>1, <1>3, <1>6, <2>1, SignatureUse DEF SignJose
<1>7. QED  BY <1>4, <1>5, <1>6

LEMMA JweUse ==
  ASSUME LInv, UseInv, EncryptJwe \/ DecryptJwe
  PROVE  UseInv'
<1>1. /\ stage \in {"generated", "encrypted"} /\ plan' = plan /\ pair' = pair
  BY DEF EncryptJwe, DecryptJwe, At, Reach
<1>2. PairInv' /\ (\A alg : JoseEncrypts(alg)' = JoseEncrypts(alg)) /\ Imported' = Imported
  BY <1>1, PairKept DEF Imported
<1>3. JweInv' /\ SignInv'
  BY <1>1, <1>2
  DEF EncryptJwe, DecryptJwe, At, Reach, UseInv, JweInv, SignInv, Imported
<1>4. QED  BY <1>2, <1>3 DEF UseInv

LEMMA UseInvNext == LInv /\ UseInv /\ [LNext]_<<vars, lvars>> => UseInv'
<1> SUFFICES ASSUME LInv, UseInv, [LNext]_<<vars, lvars>> PROVE UseInv'
  OBVIOUS
<1>1. CASE \/ GetMlDsaPair \/ GetPortablePair \/ GetSymmetricPair \/ GetJosePair
           \/ GetNoPair
  BY <1>1, GenerationUse
<1>2. CASE SignJwt \/ CreateSignedJwt
  BY <1>2, BeginningUse
<1>3. CASE SignMlDsa \/ SignPortable \/ SignJose
  BY <1>3, SigningUse
<1>4. CASE EncryptJwe \/ DecryptJwe
  BY <1>4, JweUse
<1>5. CASE Submit
  <2>1. /\ stage = "signed" /\ stage' = "verifying"
        /\ plan' = plan /\ pair' = pair /\ signed' = signed
    BY <1>5 DEF Submit
  <2>2. PairInv' /\ Promised' = Promised /\ Material' = Material /\ Weak' = Weak
    BY <2>1, PairKept
  <2>3. QED  BY <2>1, <2>2 DEF UseInv, JweInv, SignInv
<1>6. CASE Verify \/ Wait \/ Ended \/ UNCHANGED <<vars, lvars>>
  <2>1. UNCHANGED lvars
    BY <1>6 DEF Verify, Wait, Ended
  <2>2. QED
    BY <2>1
    DEF lvars, UseInv, PairInv, Generated, text, JweInv, JoseEncrypts, Imported, SignInv, Promised,
        Material, Weak
<1>7. QED  BY <1>1, <1>2, <1>3, <1>4, <1>5, <1>6 DEF LNext

LEMMA UseInvCorrect == LSpec => []UseInv
  BY UseInvInit, UseInvNext, LInvCorrect, PTL DEF LSpec

-----------------------------------------------------------------------------
(* The verification of a promised token *)

(* It is asked for with the half that is published for the pair.           *)
Meant ==
  /\ stage = "verifying" /\ Promised
  /\ plan.way = "verify" \/ (plan.way = "adhoc" /\ ~pair.text)
       \/ (plan.way = "published" /\ pair.kind = "RSA")

Good == {"payload"} \cup IF plan.as = "ML-DSA-65" THEN {"ImportError"} ELSE {}

(* A text is verified as a PEM, a JWK on the path of its kind, and neither *)
(* fails while the claims hold.                                            *)
RoundInv ==
  Meant =>
    /\ phase \notin {"hmac", "lookup"}
    /\ phase = "pem" => keys = <<PublicHalf>> /\ pair.text
    /\ phase \in {"keys", "mldsa", "portable", "jose"} => keys = <<PublicHalf>> /\ ~pair.text
    /\ phase = "portable" => IsPortable(PublicHalf)
    /\ phase = "jose" => IsJose(PublicHalf)
    /\ Concluded /\ ClaimError(now) = None => outcome \in Good

InMeant == LInv /\ UseInv /\ RoundInv /\ Meant /\ UNCHANGED lvars

(* What was signed. *)
LEMMA MeantToken ==
  ASSUME InMeant
  PROVE  /\ Generated /\ pair.kind \in Kinds /\ pair.label \in Asymmetric
         /\ request = Asked /\ token = signed
         /\ token.form = "ok" /\ token.alg = pair.label /\ token.signer = Material
         /\ token.kid \in {None, Kid}
<1>1. Generated /\ request = Asked /\ signed.form = "ok" /\ signed.kid \in {None, Kid}
  BY DEF InMeant, LInv, StageInv, UseInv, PairInv, Meant
<1>2. token = signed
  BY <1>1 DEF Asked, token
<1>3. signed.alg = pair.label /\ signed.signer = Material
  BY DEF InMeant, UseInv, SignInv, Meant
<1>4. pair.label \in Asymmetric
  BY <1>1, PromisedPair DEF InMeant, Meant, normalizedJwtAlg, Asymmetric
<1>5. pair.kind \in Kinds
  BY <1>1 DEF Generated, PairType
<1>6. QED  BY <1>1, <1>2, <1>3, <1>4, <1>5

(* What it is verified with. *)
LEMMA MeantHalf ==
  ASSUME InMeant
  PROVE  /\ PublicHalf \in KeyType /\ PublicHalf # None
         /\ PublicHalf.kind = pair.kind /\ PublicHalf.material = Material
         /\ PublicHalf.weak = Weak
         /\ PublicHalf.kid = IF pair.text THEN None ELSE Kid
         /\ PublicHalf.alg = IF pair.text THEN None ELSE pair.label
<1> DEFINE k == [kind |-> pair.kind, kid |-> IF pair.text THEN None ELSE Kid,
                 alg |-> IF pair.text THEN None ELSE pair.label, material |-> Material,
                 weak |-> Weak]
<1>1. pair.kind \in Kinds /\ pair.label \in Labels
  BY MeantToken DEF Generated, PairType
<1>2. Material \in Materials
  BY <1>1, MaterialTyped DEF Material
<1>3. k \in KeyType
  BY <1>1, <1>2, LifecycleAssumption DEF KeyType, Weak
<1>4. PublicHalf = k
  BY DEF PublicHalf, makePublicKey, InMeant, Meant
<1>5. k # None
  BY <1>3, VerificationAssumption
<1>6. QED  BY <1>3, <1>4, <1>5

LEMMA MeantFits ==
  ASSUME InMeant
  PROVE  /\ Signs(PublicHalf) /\ ~Clashes(PublicHalf) /\ PublicHalf.kind # "junk"
         /\ ~TooWeak(PublicHalf)
         /\ IsPortable(PublicHalf) \/ IsJose(PublicHalf)
              \/ (token.alg = "ML-DSA-65" /\ pair.kind = "AKP" /\ ~pair.text)
         /\ IsPortable(PublicHalf) => ~IsJose(PublicHalf)
         /\ token.alg = "ES256K" => IsPortable(PublicHalf)
         /\ token.alg = "ML-DSA-65" => plan.as = "ML-DSA-65" /\ pair.kind = "AKP" /\ ~pair.text
<1>1. Material \in Materials /\ Material # None
  BY MeantToken, MaterialTyped, VerificationAssumption DEF Material
<1>2. Signs(PublicHalf)
  BY <1>1, MeantToken, MeantHalf DEF Signs
<1>3. ~Clashes(PublicHalf)
  BY MeantToken, MeantHalf DEF Clashes
<1>4. PublicHalf.kind # "junk"
  BY MeantToken, MeantHalf DEF Kinds
<1>5. Generated /\ Promised /\ token.alg = pair.label
  BY MeantToken DEF InMeant, Meant
<1>7. ~TooWeak(PublicHalf)
  BY MeantHalf DEF TooWeak, InMeant, Meant, UseInv, SignInv
<1>6. /\ IsPortable(PublicHalf) \/ IsJose(PublicHalf)
           \/ (token.alg = "ML-DSA-65" /\ pair.kind = "AKP" /\ ~pair.text)
      /\ token.alg = "ES256K" => IsPortable(PublicHalf)
      /\ token.alg = "ML-DSA-65" => plan.as = "ML-DSA-65" /\ pair.kind = "AKP" /\ ~pair.text
  BY <1>5, MeantHalf, PromisedPair DEF IsPortable, IsJose, JoseKinds, normalizedJwtAlg
<1>8. QED  BY <1>2, <1>3, <1>4, <1>6, <1>7, PathsDiffer

(* How it is asked for. *)
LEMMA MeantCall ==
  ASSUME InMeant
  PROVE  /\ request.op \in {"verify", "check"} /\ request.pem = pair.text
         /\ ~request.emptyAudiences
         /\ phase = "called" => WithPublicKey
         /\ \/ PublicKey = PublicHalf /\ request.adhoc = None
            \/ PublicKey = None /\ request.adhoc = <<PublicHalf>> /\ ~pair.text
         /\ Supplied = <<PublicHalf>> /\ (PublicKey # None \/ request.adhoc # None)
<1>1. /\ request.op = IF plan.way \in {"adhoc", "secret"} THEN "check" ELSE "verify"
      /\ request.pem = pair.text /\ ~request.emptyAudiences
      /\ request.publicKey = IF plan.way \in {"verify", "published"} THEN PublicHalf ELSE None
      /\ request.adhoc = IF plan.way = "adhoc" THEN <<PublicHalf>> ELSE None
  BY MeantToken DEF Asked
<1>2. <<PublicHalf>> # None
  <2>1. <<PublicHalf>> \in Seq(KeyType)
    BY MeantHalf
  <2>2. QED  BY <2>1, VerificationAssumption
<1>3. \/ plan.way \in {"verify", "published"}
      \/ plan.way = "adhoc" /\ ~pair.text
  BY DEF InMeant, Meant
<1>4. \/ PublicKey = PublicHalf /\ request.adhoc = None
      \/ PublicKey = None /\ request.adhoc = <<PublicHalf>> /\ ~pair.text
  BY <1>1, <1>2, <1>3 DEF PublicKey
<1>5. Supplied = <<PublicHalf>>
  <2>1. CASE PublicKey = PublicHalf /\ request.adhoc = None
    BY <2>1, MeantHalf DEF Supplied
  <2>2. CASE PublicKey = None /\ request.adhoc = <<PublicHalf>>
    BY <1>2, <2>2 DEF Supplied
  <2>3. QED  BY <1>4, <2>1, <2>2
<1>6. ASSUME phase = "called" PROVE WithPublicKey
  <2>1. token.alg \in Asymmetric /\ token.alg \notin Hmac /\ token.form = "ok"
    BY MeantToken DEF Asymmetric, Hmac
  <2>2. request.op # "verify" => request.adhoc # None
    BY <1>1, <1>2, <1>3
  <2>3. QED
    BY <1>1, <1>6, <2>1, <2>2 DEF WithPublicKey, Readable, Refused, Missing, Http
<1>7. QED  BY <1>1, <1>2, <1>3, <1>4, <1>5, <1>6, MeantHalf

LEMMA MeantFixed ==
  ASSUME InMeant, request' = request
  PROVE  /\ PublicHalf' = PublicHalf /\ pair' = pair /\ Good' = Good
         /\ IsPortable(PublicHalf)' = IsPortable(PublicHalf)
         /\ IsJose(PublicHalf)' = IsJose(PublicHalf)
         /\ now' = now => ClaimError(now)' = ClaimError(now)
<1>1. plan' = plan /\ pair' = pair /\ token' = token
  BY DEF InMeant, lvars, token
<1>2. PublicHalf' = PublicHalf /\ Good' = Good
  BY <1>1 DEF PublicHalf, Material, Weak, Good
<1>3. /\ IsPortable(PublicHalf)' = IsPortable(PublicHalf)
      /\ IsJose(PublicHalf)' = IsJose(PublicHalf)
  BY <1>1, <1>2 DEF IsPortable, IsJose
<1>4. now' = now => ClaimError(now)' = ClaimError(now)
  BY <1>1 DEF ClaimError, ClaimErrorWithoutExp, ExpiredAt, EarlyAt, Unmet
<1>5. QED  BY <1>1, <1>2, <1>3, <1>4

LEMMA RoundReject ==
  ASSUME InMeant, NEW e, Reject(e),
         ClaimError(now) = None => e = "ImportError" /\ plan.as = "ML-DSA-65"
  PROVE  RoundInv'
<1>1. /\ phase' = "settled" /\ outcome' = toVerificationError(e)
      /\ request' = request /\ now' = now
  BY DEF Reject, Settle
<1>2. e = "ImportError" => outcome' = "ImportError"
  BY <1>1 DEF toVerificationError, Conversions
<1>3. ClaimError(now)' = None => outcome' \in Good'
  BY <1>1, <1>2, MeantFixed DEF Good
<1>4. QED  BY <1>1, <1>3 DEF RoundInv

LEMMA RoundAwait ==
  ASSUME InMeant, NEW place \in {"pem", "keys", "mldsa", "portable", "jose", "verified"},
         NEW ks, Await(place, ks),
         place # "verified" => ks = <<PublicHalf>> /\ (place = "pem" <=> pair.text),
         place = "portable" => IsPortable(PublicHalf),
         place = "jose" => IsJose(PublicHalf)
  PROVE  RoundInv'
<1>1. phase' = place /\ keys' = ks /\ request' = request
  BY DEF Await
<1>2. ~Concluded'
  BY <1>1 DEF Concluded
<1>3. QED  BY <1>1, <1>2, MeantFixed DEF RoundInv

LEMMA RoundConclude ==
  ASSUME InMeant, NEW v, Conclude(v), ClaimError(now) = None => v = "ok"
  PROVE  RoundInv'
<1>1. CASE v = "ok"
  BY <1>1, RoundAwait DEF Conclude
<1>2. CASE v # "ok"
  BY <1>2, RoundReject DEF Conclude
<1>3. QED  BY <1>1, <1>2

(* The verdicts of the paths *)
LEMMA MeantVerdicts ==
  ASSUME InMeant, keys = <<PublicHalf>>
  PROVE  /\ IsPortable(PublicHalf) => PortableVerdict = "ok"
         /\ ClaimError(now) = None => JoseVerdict(PublicHalf) = "ok"
         /\ IsJose(PublicHalf) /\ ~pair.text => JoseSetVerdict = JoseVerdict(PublicHalf)
         /\ token.alg # "ML-DSA-65" /\ ClaimError(now) = None => PemVerdict = "ok"
<1>1. DOMAIN keys = {1} /\ keys[1] = PublicHalf
  OBVIOUS
<1>2. /\ Signs(PublicHalf) /\ PublicHalf.material # None /\ ~Clashes(PublicHalf)
      /\ token.form = "ok" /\ ~TooWeak(PublicHalf)
  BY MeantFits, MeantToken DEF Signs
<1>3. ASSUME IsPortable(PublicHalf) PROVE PortableVerdict = "ok"
  <2>1. 1 \in Matches /\ {n \in Matches : Throws(keys[n])} = {}
    BY <1>1, <1>2, <1>3 DEF Matches, Throws
  <2>2. QED  BY <1>1, <1>2, <2>1 DEF PortableVerdict
<1>4. ASSUME ClaimError(now) = None PROVE JoseVerdict(PublicHalf) = "ok"
  <2>1. JoseClaimError(now) = None
    BY <1>4, ClaimErrorSound, MeantCall DEF JoseClaimError
  <2>2. QED  BY <1>2, <2>1 DEF JoseVerdict
<1>5. ASSUME IsJose(PublicHalf), ~pair.text
      PROVE  JoseSetVerdict = JoseVerdict(PublicHalf)
  <2> DEFINE fits(k) == IsJose(k) /\ (token.kid # None => k.kid = token.kid)
             M == {n \in JoseCandidates : fits(keys[n])}
  <2>1. JoseCandidates = {1}
    BY <1>1, <1>5, PathsDiffer DEF JoseCandidates, PortableCandidates
  <2>2. fits(PublicHalf)
    BY <1>5, MeantHalf, MeantToken
  <2>3. M = {1}
    BY <1>1, <2>1, <2>2
  <2>4. Cardinality(M) = 1 /\ (CHOOSE n \in M : TRUE) = 1
    BY <2>3, FS_Singleton
  <2>5. \A n \in JoseCandidates : keys[n].kind # "junk"
    BY <1>1, <2>1, MeantFits
  <2>6. token.alg \notin Hmac \cup {"none"}
    BY MeantToken DEF Asymmetric, Hmac
  <2>7. QED  BY <1>1, <2>3, <2>4, <2>5, <2>6 DEF JoseSetVerdict
<1>6. ASSUME token.alg # "ML-DSA-65", ClaimError(now) = None PROVE PemVerdict = "ok"
  <2>1. CASE IsPortable(PublicHalf)
    BY <1>1, <1>2, <2>1 DEF PemVerdict
  <2>2. CASE ~IsPortable(PublicHalf)
    <3>1. IsJose(PublicHalf) /\ token.alg # "ES256K"
      BY <1>6, <2>2, MeantFits
    <3>2. token.alg \in DOMAIN JoseKinds /\ PublicHalf.kind # "oct"
      BY <3>1 DEF IsJose, JoseKinds
    <3>3. QED  BY <1>1, <1>2, <1>4, <1>6, <2>2, <3>1, <3>2 DEF PemVerdict
  <2>3. QED  BY <2>1, <2>2
<1>7. QED  BY <1>3, <1>4, <1>5, <1>6

LEMMA MeantRouted ==
  ASSUME InMeant, phase = "keys"
  PROVE  /\ ~Mismatched /\ keys = <<PublicHalf>>
         /\ PortableCandidates # {} <=> IsPortable(PublicHalf)
<1>1. keys = <<PublicHalf>> /\ ~pair.text
  BY DEF InMeant, RoundInv
<1>2. DOMAIN keys = {1} /\ keys[1] = PublicHalf
  BY <1>1
<1>3. Intended \subseteq {1}
  BY <1>2 DEF Intended
<1>4. algFamily(PublicHalf.alg) = token.alg
  BY <1>1, MeantHalf, MeantToken, PromisedPair DEF InMeant, Meant
<1>5. ~Mismatched
  BY <1>2, <1>3, <1>4 DEF Mismatched
<1>6. PortableCandidates # {} <=> IsPortable(PublicHalf)
  BY <1>2 DEF PortableCandidates
<1>7. QED  BY <1>1, <1>5, <1>6

LEMMA RoundVerify ==
  ASSUME InMeant, Next
  PROVE  RoundInv'
<1>1. /\ request.op \in {"verify", "check"} /\ request.op \notin Http
      /\ token.form = "ok" /\ token.alg \notin Hmac
      /\ phase \notin {"hmac", "lookup"}
  BY MeantCall, MeantToken DEF Http, Asymmetric, Hmac, InMeant, RoundInv
<1>2. phase = "called" => ~(Refused \/ NothingSupplied)
  BY MeantCall DEF WithPublicKey, NothingSupplied
<1>3. CASE NoBearer \/ Unreadable \/ Refuse \/ UseSecret \/ UseJwks \/ NoKeySource
           \/ Lookup \/ VerifyHmac \/ Continue \/ Fail \/ Handled
  BY <1>1, <1>2, <1>3
  DEF NoBearer, Unreadable, Refuse, UseSecret, UseJwks, NoKeySource, NothingSupplied,
      WithPublicKey, Readable, Lookup, VerifyHmac, Continue, Fail, Handled, Http
<1>4. CASE UsePem
  <2>1. pair.text /\ PublicKey = PublicHalf
    BY <1>4, MeantCall DEF UsePem
  <2>2. token.alg # "ML-DSA-65"
    BY <2>1, MeantFits
  <2>3. QED  BY <1>4, <2>1, <2>2, RoundAwait DEF UsePem
<1>5. CASE UseSupplied
  <2>1. ~pair.text
    BY <1>5, MeantCall, MeantHalf DEF UseSupplied
  <2>2. QED  BY <1>5, <2>1, MeantCall, RoundAwait DEF UseSupplied
<1>6. CASE MismatchedAlgorithm \/ RouteMlDsa \/ RoutePortable \/ RouteJose \/ NoApplicableKey
  <2>1. phase = "keys" /\ ~pair.text
    BY <1>6
    DEF MismatchedAlgorithm, RouteMlDsa, RoutePortable, RouteJose, NoApplicableKey, Routed,
        InMeant, RoundInv
  <2>2. /\ ~Mismatched /\ keys = <<PublicHalf>>
        /\ PortableCandidates # {} <=> IsPortable(PublicHalf)
    BY <2>1, MeantRouted
  <2>3. CASE MismatchedAlgorithm \/ NoApplicableKey
    BY <2>2, <2>3, MeantFits DEF MismatchedAlgorithm, NoApplicableKey
  <2>4. CASE RouteMlDsa
    BY <2>1, <2>2, <2>4, RoundAwait DEF RouteMlDsa
  <2>5. CASE RoutePortable
    BY <2>1, <2>2, <2>5, RoundAwait DEF RoutePortable
  <2>6. CASE RouteJose
    BY <2>1, <2>2, <2>6, MeantFits, RoundAwait DEF RouteJose
  <2>7. QED  BY <1>6, <2>3, <2>4, <2>5, <2>6
<1>7. CASE VerifyPortable
  <2>1. keys = <<PublicHalf>> /\ IsPortable(PublicHalf)
    BY <1>7 DEF VerifyPortable, InMeant, RoundInv
  <2>2. PortableVerdict = "ok"
    BY <2>1, MeantVerdicts
  <2>3. QED  BY <1>7, <2>2, RoundConclude DEF VerifyPortable
<1>8. CASE VerifyJose
  <2>1. keys = <<PublicHalf>> /\ ~pair.text /\ IsJose(PublicHalf)
    BY <1>8 DEF VerifyJose, InMeant, RoundInv
  <2>2. ClaimError(now) = None => JoseSetVerdict = "ok"
    BY <2>1, MeantVerdicts
  <2>3. Conclude(JoseSetVerdict)
    BY <1>1, <1>8 DEF VerifyJose
  <2>4. QED  BY <2>2, <2>3, RoundConclude
<1>9. CASE VerifyPem
  <2>1. keys = <<PublicHalf>> /\ pair.text
    BY <1>9 DEF VerifyPem, InMeant, RoundInv
  <2>2. ClaimError(now) = None => PemVerdict = "ok"
    BY <2>1, MeantFits, MeantVerdicts
  <2>3. QED  BY <1>9, <2>2, RoundConclude DEF VerifyPem
<1>10. CASE VerifyMlDsa
  <2>1. keys = <<PublicHalf>> /\ ~pair.text /\ token.alg = "ML-DSA-65"
    BY <1>10
    DEF VerifyMlDsa, InMeant, RoundInv, LInv, Verifying, Asking, Meant, PromisedInv,
        BaseInv, VInv, PhaseInv
  <2>2. plan.as = "ML-DSA-65" /\ PublicHalf.kind = "AKP" /\ PublicHalf.alg = token.alg
    BY <2>1, MeantFits, MeantHalf, MeantToken
  <2>3. 1 \in MlDsaMatches /\ Signs(keys[1])
    <3>1. DOMAIN keys = {1} /\ keys[1] = PublicHalf
      BY <2>1
    <3>2. QED  BY <2>2, <3>1, MeantFits DEF MlDsaMatches
  <2>4. CASE Conclude("ok")
    BY <2>4, RoundConclude
  <2>5. CASE Reject("ImportError")
    BY <2>2, <2>5, RoundReject
  <2>6. QED  BY <1>1, <1>10, <2>3, <2>4, <2>5 DEF VerifyMlDsa
<1>11. CASE AssertClaims
  <2>1. CASE Settle("payload")
    <3>1. phase' = "settled" /\ outcome' = "payload"
      BY <2>1 DEF Settle
    <3>2. QED  BY <3>1 DEF RoundInv, Good
  <2>2. CASE ClaimError(now) # None /\ Reject(ClaimError(now))
    BY <2>2, RoundReject
  <2>3. QED  BY <1>11, <2>1, <2>2 DEF AssertClaims
<1>12. CASE Tick
  <2>1. phase' = phase /\ keys' = keys /\ request' = request /\ ~Concluded'
    BY <1>12 DEF Tick, Awaiting, Concluded
  <2>2. QED  BY <2>1, MeantFixed DEF InMeant, RoundInv
<1>13. CASE Done
  <2>1. /\ phase' = phase /\ keys' = keys /\ request' = request /\ now' = now
        /\ outcome' = outcome
    BY <1>13 DEF Done, vars
  <2>2. Concluded' = Concluded
    BY <2>1 DEF Concluded
  <2>3. QED  BY <2>1, <2>2, MeantFixed DEF InMeant, RoundInv
<1>14. QED
  BY <1>3, <1>4, <1>5, <1>6, <1>7, <1>8, <1>9, <1>10, <1>11, <1>12, <1>13 DEF Next

LEMMA RoundInvInit == LInit => RoundInv
  BY DEF LInit, RoundInv, Meant

LEMMA RoundInvNext == LInv /\ UseInv /\ RoundInv /\ [LNext]_<<vars, lvars>> => RoundInv'
<1> SUFFICES ASSUME LInv, UseInv, RoundInv, [LNext]_<<vars, lvars>> PROVE RoundInv'
  OBVIOUS
<1>1. CASE Verify
  <2>1. CASE Meant
    BY <1>1, <2>1, RoundVerify DEF Verify, InMeant
  <2>2. CASE ~Meant
    BY <1>1, <2>2 DEF Verify, lvars, RoundInv, Meant, Promised
  <2>3. QED  BY <2>1, <2>2
<1>2. CASE Submit
  <2>1. phase' = "called"
    BY <1>2 DEF Submit, LInv, StageInv, Asking
  <2>2. QED  BY <2>1 DEF RoundInv, Concluded
<1>3. CASE Ended \/ UNCHANGED <<vars, lvars>>
  <2>1. UNCHANGED <<vars, lvars>>
    BY <1>3 DEF Ended
  <2>2. CASE Meant
    <3>1. InMeant /\ request' = request
      BY <2>1, <2>2 DEF InMeant, vars
    <3>2. Concluded' = Concluded
      BY <2>1 DEF vars, Concluded
    <3>3. QED  BY <2>1, <2>2, <3>1, <3>2, MeantFixed DEF vars, RoundInv
  <2>3. CASE ~Meant
    BY <2>1, <2>3 DEF lvars, RoundInv, Meant, Promised
  <2>4. QED  BY <2>2, <2>3
<1>4. CASE \/ GetMlDsaPair \/ GetPortablePair \/ GetSymmetricPair \/ GetJosePair
           \/ GetNoPair \/ SignJwt \/ CreateSignedJwt \/ SignMlDsa \/ SignPortable
           \/ SignJose \/ EncryptJwe \/ DecryptJwe \/ Wait
  BY <1>4
  DEF GetMlDsaPair, GetPortablePair, GetSymmetricPair, GetJosePair, GetNoPair, SignJwt,
      CreateSignedJwt, SignMlDsa, SignPortable, SignJose, EncryptJwe, DecryptJwe, Wait,
      Got, Reach, BeginSigning, Signature, lvars, RoundInv, Meant
<1>5. QED  BY <1>1, <1>2, <1>3, <1>4 DEF LNext

LEMMA RoundInvCorrect == LSpec => []RoundInv
  BY RoundInvInit, RoundInvNext, LInvCorrect, UseInvCorrect, PTL DEF LSpec

-----------------------------------------------------------------------------
(* Whatever is generated, signed and asked, every variable keeps its type; *)
(* in particular what is asked with a generated pair is well formed.       *)
THEOREM LifecycleTypes == LSpec => []LifecycleTypeOK
<1>1. LInv => LifecycleTypeOK
  BY DEF LInv, StageInv, Verifying, PromisedInv, BaseInv, Asking, LifecycleTypeOK
<1>2. QED  BY <1>1, LInvCorrect, PTL

(* What is accepted, also of the tokens that generated pairs sign, was     *)
(* signed by a fitting key of the call.                                    *)
THEOREM GenuineThroughout == LSpec => []AcceptedIsGenuine
<1>1. LInv => AcceptedIsGenuine
  BY OutcomeAssumption
  DEF LInv, StageInv, Verifying, PromisedInv, BaseInv, VInv, AcceptedIsGenuine, Outcomes,
      Accepted
<1>2. QED  BY <1>1, LInvCorrect, PTL

(* All else that is proved of a verification holds of those of generated   *)
(* pairs too: whenever the token was signed and however long it waited, it *)
(* is current when it is accepted, its claims are blamed only after the    *)
(* signature, the right key is found and each defect has its class.        *)
THEOREM VerifiedThroughout ==
  LSpec => [](/\ AcceptedIsCurrent /\ ClaimsBlamedAfterSignature
              /\ RightKeyFound /\ SameClassOnEveryPath)
<1> DEFINE All == /\ AcceptedIsCurrent /\ ClaimsBlamedAfterSignature
                  /\ RightKeyFound /\ SameClassOnEveryPath
<1>1. LInv => All
  <2> SUFFICES ASSUME LInv PROVE All
    OBVIOUS
  <2>1. CASE stage \in Asking
    <3>1. VInv /\ FoundInv /\ ClassInv
      BY <2>1 DEF LInv, Verifying, PromisedInv, BaseInv
    <3>2. QED
      BY <3>1
      DEF VInv, FoundInv, RightKeyFound, Right, HasToBeFound, NoDefect, ClassInv,
          SameClassOnEveryPath, OneFittingKey, Single, ClassOf, OtherDefect
  <2>2. CASE stage \notin Asking
    <3>1. outcome = None /\ ~Concluded
      BY <2>2 DEF LInv, StageInv, Concluded
    <3>2. QED
      BY <3>1, OutcomeAssumption
      DEF AcceptedIsCurrent, ClaimsBlamedAfterSignature, RightKeyFound,
          SameClassOnEveryPath, OneFittingKey, Accepted, Outcomes, Documented
  <2>3. QED  BY <2>1, <2>2
<1>2. QED  BY <1>1, LInvCorrect, PTL

(* The helpers of token-expiry.ts never disagree with a verification about *)
(* the second in which a token expires.                                    *)
THEOREM HelpersAgree == LSpec => []ExpiryHelpersAgree
<1>1. LInv => ExpiryHelpersAgree
  <2> SUFFICES ASSUME LInv PROVE ExpiryHelpersAgree
    OBVIOUS
  <2>1. stage \notin Asking => outcome = None
    BY DEF LInv, StageInv
  <2>2. CASE outcome = None
    BY <2>2, OutcomeAssumption DEF ExpiryHelpersAgree, Outcomes, Documented
  <2>3. CASE stage \in Asking
    <3>1. now \in Nat /\ AcceptedIsCurrent /\ ExpiryInv /\ token \in TokenType
      BY <2>3
      DEF LInv, Verifying, PromisedInv, BaseInv, VerificationTypeOK, VInv, Callable,
          RequestType, token
    <3>2. ASSUME outcome \in Accepted, token.exp # None
          PROVE  token.exp \in Nat /\ token.exp > now
      BY <3>1, <3>2 DEF AcceptedIsCurrent, ExpiredAt, TokenType
    <3>3. ASSUME outcome = "TokenExpiredError"
          PROVE  token.exp \in Nat /\ token.exp <= now
      BY <3>1, <3>3 DEF ExpiryInv, ExpiredAt
    <3>4. QED
      BY <3>1, <3>2, <3>3 DEF ExpiryHelpersAgree, isTokenExpired, getTimeToExpiry
  <2>4. QED  BY <2>1, <2>2, <2>3
<1>2. QED  BY <1>1, LInvCorrect, PTL

(* A generated JWK verifies only tokens of the algorithm it was made for,  *)
(* through every path of the verification.                                 *)
THEOREM AlgorithmKept == LSpec => []JwksKeepTheirAlgorithm
<1>1. LInv /\ KeyInv => JwksKeepTheirAlgorithm
  <2> SUFFICES ASSUME LInv, KeyInv, plan # None, outcome = "payload", ~pair.text
               PROVE  token.alg = LabelOf(plan.identifier)
    BY DEF JwksKeepTheirAlgorithm
  <2>1. stage \in Asking
    BY OutcomeAssumption DEF LInv, StageInv, Outcomes, Accepted
  <2>2. stage = "verifying"
    BY <2>1 DEF LInv, StageInv, Asking
  <2>3. /\ plan.identifier \in Identifiers
        /\ pair.label = LabelOf(plan.identifier)
    BY <2>2 DEF LInv, StageInv, Paired, PlanType
  <2>4. algFamily(pair.label) = token.alg
    BY <2>2 DEF KeyInv, LabelKept
  <2>5. QED  BY <2>3, <2>4, LabelTyped
<1>2. QED  BY <1>1, LInvCorrect, KeyInvCorrect, PTL

(* A pair generated for a key management algorithm encrypts under it, for  *)
(* every size that may be asked for but the moduli jose does not use; what *)
(* it encrypts it decrypts when the algorithm is expected or is the one    *)
(* assumed, and with an RSA key only then.                                 *)
THEOREM JwePairsRoundTrip == LSpec => []JweRoundTrips
<1>1. LInv /\ UseInv => JweRoundTrips
  <2> SUFFICES ASSUME LInv, UseInv PROVE JweRoundTrips
    OBVIOUS
  <2>1. ASSUME stage = "notEncrypted" PROVE ~Encrypting
    <3>1. Generated /\ ~JoseEncrypts(plan.as)
      BY <2>1 DEF UseInv, PairInv, JweInv
    <3>2. getSymmetricKeySize("A128KW", 128) = 16 /\ getSymmetricKeySize("A256KW", 256) = 32
      BY DEF getSymmetricKeySize
    <3>3. getSymmetricKeySize("A256KW", None) = 32
      BY VerificationAssumption DEF getSymmetricKeySize
    <3>4. ASSUME Encrypting PROVE FALSE
      <4>1. CASE plan.as = plan.identifier /\ plan.as \in {"RSA-OAEP", "RSA-OAEP-256"} /\ ~Weak
        BY <3>1, <4>1 DEF Generated, KindOf, JoseKind, Portable, Symmetric, Rsa, JoseEncrypts
      <4>2. CASE plan.identifier \in Ecdh \cup {"X25519"} /\ plan.as \in Ecdh
        BY <3>1, <4>2
        DEF Generated, KindOf, JoseKind, Portable, Symmetric, Rsa, Ecdh, JoseEncrypts
      <4>3. CASE /\ plan.as = plan.identifier /\ ~pair.text
                 /\ <<plan.as, plan.keySize>> \in
                      {<<"A128KW", 128>>, <<"A256KW", None>>, <<"A256KW", 256>>}
        BY <3>1, <3>2, <3>3, <4>3 DEF Generated, KindOf, Portable, Symmetric, Ecdh, JoseEncrypts
      <4>4. QED  BY <3>4, <4>1, <4>2, <4>3 DEF Encrypting
    <3>5. QED  BY <3>4
  <2>2. ASSUME stage = "notDecrypted"
        PROVE  /\ plan.expected # plan.as
               /\ plan.expected = None => plan.as \notin {"RSA-OAEP", "A128KW", "A256KW"}
    <3>1. JoseEncrypts(plan.as) /\ pair.kind # "oct" /\ ImportAlg(plan.expected) # plan.as
      BY <2>2 DEF UseInv, JweInv, Imported
    <3>2. plan.as \in Labels
      BY <3>1 DEF JoseEncrypts, Labels, Ecdh
    <3>3. plan.as # None
      BY <3>2, VerificationAssumption
    <3>4. QED  BY <3>1, <3>3 DEF ImportAlg, JoseEncrypts, Ecdh
  <2>3. ASSUME stage = "decrypted", pair.kind = "RSA"
        PROVE  ImportAlg(plan.expected) = plan.as
    BY <2>3 DEF UseInv, JweInv, Imported, JoseEncrypts, Ecdh
  <2>4. QED  BY <2>1, <2>2, <2>3 DEF JweRoundTrips
<1>2. QED  BY <1>1, LInvCorrect, UseInvCorrect, PTL

(* The public half of a pair below the least modulus jose uses verifies    *)
(* nothing: it is the only key of the call, and no path takes it.          *)
LEMMA WeakNeverAccepted ==
  ASSUME LInv, plan # None, pair # None, Weak
  PROVE  outcome # "payload"
<1> SUFFICES ASSUME outcome = "payload" PROVE FALSE
  OBVIOUS
<1>1. stage = "verifying"
  BY OutcomeAssumption DEF LInv, StageInv, Asking, Outcomes, Accepted
<1>2. /\ request = Asked /\ plan \in PlanType /\ pair \in PairType
      /\ signed \in TokenType /\ signed.form = "ok"
  BY <1>1 DEF LInv, StageInv, Paired
<1>3. /\ request.op = IF plan.way \in {"adhoc", "secret"} THEN "check" ELSE "verify"
      /\ request.pem = pair.text /\ ~request.jwksUri
      /\ request.publicKey = IF plan.way \in {"verify", "published"} THEN PublicHalf ELSE None
      /\ request.adhoc = IF plan.way = "adhoc" THEN <<PublicHalf>> ELSE None
  BY <1>2 DEF Asked
<1>4. PublicHalf.kind = "RSA" /\ PublicHalf.weak
  BY DEF PublicHalf, makePublicKey, Weak
<1>5. Named \subseteq {<<PublicHalf>>}
  BY <1>3 DEF Named, AsksEndpoint
<1>6. keys \in Named \cup {<<>>} /\ AcceptedIsGenuine
  BY <1>1 DEF LInv, Verifying, Asking, PromisedInv, PromiseInv, BaseInv, VInv
<1>7. PICK n \in DOMAIN keys : Fits(keys[n])
  BY <1>6 DEF AcceptedIsGenuine
<1>8. keys = <<PublicHalf>> /\ n = 1
  BY <1>5, <1>6, <1>7
<1>9. QED  BY <1>4, <1>7, <1>8 DEF Fits, IsPortable, IsJose, JoseKinds, TooWeak

(* A pair generated for a signature algorithm signs under it, in either    *)
(* format and whichever of jose and node:crypto made it; and while the     *)
(* token is current its public half verifies it, however long the          *)
(* signature and the verification are awaited.  This is so for every size  *)
(* that may be asked for but the moduli below the least jose uses, with    *)
(* which nothing is accepted.                                              *)
THEOREM PairsRoundTrip == LSpec => []EveryPairRoundTrips
<1>1. LInv /\ UseInv /\ RoundInv => EveryPairRoundTrips
  <2> SUFFICES ASSUME LInv, UseInv, RoundInv PROVE EveryPairRoundTrips
    OBVIOUS
  <2>1. stage = "notSigned" /\ Promised => Weak \/ (plan.as = "ML-DSA-65" /\ ImportMayFail)
    BY DEF UseInv, SignInv
  <2>2. ASSUME stage = "verifying", Concluded, Promised,
               plan.way = "verify" \/ (plan.way = "adhoc" /\ ~pair.text)
                 \/ (plan.way = "published" /\ pair.kind = "RSA"),
               ClaimError(now) = None
        PROVE  outcome \in {"payload"} \cup IF plan.as = "ML-DSA-65" THEN {"ImportError"} ELSE {}
    BY <2>2 DEF RoundInv, Meant, Good
  <2>3. plan # None /\ pair # None /\ Weak => outcome # "payload"
    BY WeakNeverAccepted
  <2>4. QED  BY <2>1, <2>2, <2>3 DEF EveryPairRoundTrips
<1>2. QED  BY <1>1, LInvCorrect, UseInvCorrect, RoundInvCorrect, PTL

(* The promise of Verifier is kept in the whole too: nothing that happens  *)
(* to a pair before a verification is asked touches it, and however long   *)
(* the token was waited for, it is kept from there.                        *)
THEOREM PromiseKeptThroughout == LSpec => ImplementsVerifier
<1> DEFINE Answered == stage \in Asking => Guarantee
<1>1. LInit => Promise!Init
  BY DEF LInit, Init, Promise!Init
<1>2. LInv => Answered
  BY AnswerIsRight DEF LInv, Verifying, PromisedInv
<1>3. LInv /\ LInv' /\ Answered' /\ [LNext]_<<vars, lvars>> => [Promise!Next]_(Promise!vars)
  <2> SUFFICES ASSUME LInv, LInv', Answered', [LNext]_<<vars, lvars>>
               PROVE  [Promise!Next]_(Promise!vars)
    OBVIOUS
  <2>1. CASE Verify
    <3>1. stage \in Asking /\ stage' = stage /\ [Next]_vars
      BY <2>1 DEF Verify, Asking, lvars
    <3>2. PromiseInv' /\ Guarantee' /\ BaseInv
      BY <3>1 DEF LInv, Verifying, PromisedInv, Asking
    <3>3. QED  BY <3>1, <3>2, StepShape, PromiseKept
  <2>2. CASE ~Verify
    <3>1. keys' = keys /\ outcome' = outcome
      BY <2>2
      DEF LNext, GetMlDsaPair, GetPortablePair, GetSymmetricPair, GetJosePair, GetNoPair,
          SignJwt, CreateSignedJwt, SignMlDsa, SignPortable, SignJose, Submit, EncryptJwe,
          DecryptJwe, Wait, Ended, At, vars
    <3>2. QED  BY <3>1 DEF Promise!vars
  <2>3. QED  BY <2>1, <2>2
<1>4. QED
  BY <1>1, <1>2, <1>3, LInvCorrect, PTL DEF LSpec, ImplementsVerifier, Promise!Spec
=============================================================================
