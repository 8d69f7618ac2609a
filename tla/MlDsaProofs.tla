----------------------------- MODULE MlDsaProofs -----------------------------
(***************************************************************************)
(* Proofs about MlDsa for any number of calls, arguments and seeds: the    *)
(* types, AnswerIndependentOfRuntime and SameFate.                         *)
(***************************************************************************)
EXTENDS MlDsa, TLAPS

(* The two promises go one way. *)
PromisesInv ==
  /\ joseSupported # "none" => modulePromise # "none"
  /\ joseSupported = "yes" => modulePromise = "loaded"

(* No key before n made the token. *)
NoneBefore(a, n) ==
  \A m \in DOMAIN a.keys :
    m < n /\ Meant(a.token, a.keys[m]) => ~Genuine(a.token, a.keys[m])

(* What holds of a call under way, by operation. *)
UnderWay(c) ==
  LET a == ask[c] IN
  /\ a.op = "generate" => ~a.pem /\ pc[c] = "module"
  /\ a.op = "sign" =>
       /\ Acceptable(a)
       /\ pc[c] = "module" => a.key.priv \in Seeds
  /\ a.op = "verify" =>
       /\ Readable(a.token)
       /\ pc[c] \in {"jose", "module"} =>
            /\ useJose[c] # None
            /\ candidate[c] \in DOMAIN a.keys
            /\ Meant(a.token, a.keys[candidate[c]])
            /\ NoneBefore(a, candidate[c])

(* A call that has ended: with a success the module is there. *)
Ended(c) ==
  /\ answer[c].error # "ImportError" => AnswerOf(ask[c], answer[c])
  /\ answer[c].error = "ImportError" => modulePromise = "failed"
  /\ answer[c].error = None => modulePromise = "loaded"

CallInv(c) ==
  /\ pc[c] # "idle" => ask[c] \in Asks
  /\ pc[c] # "done" => answer[c].error = None
  /\ pc[c] \in {"probe", "jose", "module"} => UnderWay(c)
  /\ pc[c] = "jose" => useJose[c] = TRUE
  /\ pc[c] = "module" => modulePromise # "none"
  /\ useJose[c] # None => joseSupported = IF useJose[c] THEN "yes" ELSE "no"
  /\ pc[c] = "done" => Ended(c)

Inv == TypeOK /\ PromisesInv /\ \A c \in Calls : CallInv(c)

(* How the promises may change in a step of a call. *)
Kept ==
  /\ modulePromise' = modulePromise \/ (modulePromise = "none" /\ modulePromise' = "pending")
  /\ \/ joseSupported' = joseSupported
     \/ joseSupported = "none" /\ joseSupported' = "pending"

-----------------------------------------------------------------------------
(* What is known of the arguments of a call. *)
LEMMA AskFacts ==
  ASSUME NEW a \in Asks
  PROVE  /\ a.op \in {"generate", "sign", "verify"}
         /\ a.op = "generate" => a.alg \in ML_DSA /\ a.pem \in BOOLEAN
         /\ a.op = "sign" => a.alg \in ML_DSA /\ a.key \in PrivateKeys
         /\ a.op = "verify" => a.token \in Tokens /\ a.keys \in Seq(PublicKeys)
  BY MlDsaAssumption DEF AskType

(* A key that made the token has the lengths noble wants. *)
LEMMA GenuineIsMeasured ==
  ASSUME NEW a \in Asks, a.op = "verify", NEW k \in PublicKeys, Genuine(a.token, k)
  PROVE  Measured(a.token, k)
  BY MlDsaAssumption DEF Genuine, Measured

(* A step of one call leaves what is known of the others. *)
LEMMA OthersKeep ==
  ASSUME Inv, NEW c \in Calls, Kept,
         NEW d \in Calls, d # c,
         pc'[d] = pc[d], ask'[d] = ask[d], useJose'[d] = useJose[d],
         candidate'[d] = candidate[d], answer'[d] = answer[d]
  PROVE  CallInv(d)'
  <1>1. CallInv(d)
    BY DEF Inv
  <1>2. UnderWay(d) => UnderWay(d)'
    BY DEF UnderWay
  <1>3. Ended(d) => Ended(d)'
    BY DEF Ended, Kept
  <1> QED
    BY <1>1, <1>2, <1>3 DEF CallInv, Kept, Inv, TypeOK

-----------------------------------------------------------------------------
(* It is enough to look at the call that moves.                            *)
LEMMA OneCallMoves ==
  ASSUME Inv, NEW c \in Calls, Kept, TypeOK', PromisesInv', CallInv(c)',
         \A d \in Calls \ {c} :
           /\ pc'[d] = pc[d] /\ ask'[d] = ask[d] /\ useJose'[d] = useJose[d]
           /\ candidate'[d] = candidate[d] /\ answer'[d] = answer[d]
  PROVE  Inv'
  <1>1. ASSUME NEW d \in Calls PROVE CallInv(d)'
    <2>1. CASE d = c
      BY <2>1
    <2>2. CASE d # c
      BY <2>2, OthersKeep
    <2> QED
      BY <2>1, <2>2
  <1> QED
    BY <1>1 DEF Inv

LEMMA InitInv == Init => Inv
  BY MlDsaAssumption DEF Init, Inv, TypeOK, PromisesInv, CallInv, Nothing, Answers

LEMMA BeginKeeps == ASSUME Inv, NEW c \in Calls, Begin(c) PROVE Inv'
  <1>1. PICK a \in Asks :
          /\ ask' = [ask EXCEPT ![c] = a]
          /\ \/ a.op = "generate" /\ ~a.pem /\ AwaitModule(c)
             \/ a.op = "sign" /\ Acceptable(a) /\ AwaitProbe(c)
             \/ a.op = "verify" /\ Readable(a.token) /\ AwaitProbe(c)
             \/ /\ ~(a.op = "generate" /\ ~a.pem)
                /\ ~(a.op = "sign" /\ Acceptable(a))
                /\ ~(a.op = "verify" /\ Readable(a.token))
                /\ Reject(c, IF a.op # "verify" THEN "Error"
                             ELSE IF a.token.wellFormed THEN "InvalidSignatureError"
                             ELSE "MalformedTokenError")
                /\ UNCHANGED <<modulePromise, joseSupported>>
    BY DEF Begin
  <1>2. pc[c] = "idle" /\ UNCHANGED <<useJose, candidate>>
    BY DEF Begin
  <1>3. Kept
    BY <1>1 DEF AwaitModule, AwaitProbe, Load, Kept
  <1>4. TypeOK'
    <2>1. TypeOK
      BY DEF Inv
    <2>2. UNCHANGED answer \/ \E e \in Errors : Reject(c, e)
      BY <1>1 DEF AwaitModule, AwaitProbe, Errors
    <2>3. answer' \in [Calls -> Answers]
      BY <2>1, <2>2, MlDsaAssumption DEF TypeOK, Reject, Settle, Answers
    <2>4. /\ pc' \in [Calls -> {"idle", "probe", "jose", "module", "done"}]
          /\ ask' \in [Calls -> Asks \cup {None}]
      BY <1>1, <2>1 DEF TypeOK, AwaitModule, AwaitProbe, Reject, Settle
    <2> QED
      BY <1>2, <1>3, <2>1, <2>3, <2>4 DEF TypeOK, Kept
  <1>5. PromisesInv'
    BY <1>1 DEF Inv, TypeOK, PromisesInv, AwaitModule, AwaitProbe, Load
  <1>6. CallInv(c)'
    <2>1. CASE a.op = "generate" /\ ~a.pem /\ AwaitModule(c)
      BY <1>1, <1>2, <2>1 DEF Inv, TypeOK, CallInv, UnderWay, AwaitModule, Load
    <2>2. CASE a.op = "sign" /\ Acceptable(a) /\ AwaitProbe(c)
      BY <1>1, <1>2, <2>2, MlDsaAssumption
      DEF Inv, TypeOK, CallInv, UnderWay, AwaitProbe, Load
    <2>3. CASE a.op = "verify" /\ Readable(a.token) /\ AwaitProbe(c)
      BY <1>1, <1>2, <2>3, MlDsaAssumption
      DEF Inv, TypeOK, CallInv, UnderWay, AwaitProbe, Load
    <2>4. CASE /\ ~(a.op = "generate" /\ ~a.pem)
               /\ ~(a.op = "sign" /\ Acceptable(a))
               /\ ~(a.op = "verify" /\ Readable(a.token))
               /\ Reject(c, IF a.op # "verify" THEN "Error"
                            ELSE IF a.token.wellFormed THEN "InvalidSignatureError"
                            ELSE "MalformedTokenError")
               /\ UNCHANGED <<modulePromise, joseSupported>>
      <3>1. a.op \in {"generate", "sign", "verify"}
        BY AskFacts
      <3>2. pc'[c] = "done" /\ ask'[c] = a /\ answer'[c].error \in Errors \ {"ImportError"}
        BY <1>1, <2>4 DEF Reject, Settle, Inv, TypeOK, Errors
      <3>3. AnswerOf(a, answer'[c])
        BY <2>4, <3>1, <3>2, MlDsaAssumption
        DEF AnswerOf, Reject, Settle, Inv, TypeOK, Errors
      <3> QED
        BY <1>2, <2>4, <3>2, <3>3, MlDsaAssumption DEF Inv, TypeOK, CallInv, Ended
    <2> QED
      BY <1>1, <2>1, <2>2, <2>3, <2>4 DEF Reject, Settle
  <1> QED
    BY <1>1, <1>2, <1>3, <1>4, <1>5, <1>6, OneCallMoves
    DEF AwaitModule, AwaitProbe, Reject, Settle, Inv, TypeOK

-----------------------------------------------------------------------------
(* A call that is answered, or awaits the module, and changes nothing else. *)
LEMMA SettleKeeps ==
  ASSUME Inv, NEW c \in Calls, NEW value \in Answers, Settle(c, value),
         pc[c] \in {"probe", "jose", "module"},
         UNCHANGED <<modulePromise, joseSupported, ask, candidate>>,
         NEW j \in BOOLEAN \cup {None}, useJose' = [useJose EXCEPT ![c] = j],
         j # None => joseSupported = IF j THEN "yes" ELSE "no",
         value.error # "ImportError" => AnswerOf(ask[c], value),
         value.error = "ImportError" => modulePromise = "failed",
         value.error = None => modulePromise = "loaded"
  PROVE  Inv'
  <1>1. Kept
    BY DEF Kept
  <1>2. TypeOK'
    BY DEF Inv, TypeOK, Settle
  <1>3. PromisesInv'
    BY DEF Inv, PromisesInv
  <1>4. CallInv(c)'
    BY DEF Inv, TypeOK, CallInv, Settle, Ended
  <1> QED
    BY <1>1, <1>2, <1>3, <1>4, OneCallMoves DEF Settle, Inv, TypeOK

LEMMA GenerateKeeps == ASSUME Inv, NEW c \in Calls, Generate(c) PROVE Inv'
  <1>1. /\ pc[c] = "module" /\ ask[c] \in Asks /\ ask[c].op = "generate"
        /\ ~ask[c].pem /\ ask[c].alg \in ML_DSA
    BY AskFacts DEF Generate, Inv, CallInv, UnderWay
  <1>2. useJose' = [useJose EXCEPT ![c] = useJose[c]] /\ useJose[c] \in BOOLEAN \cup {None}
    BY DEF Generate, Inv, TypeOK
  <1>3. UNCHANGED <<modulePromise, joseSupported, ask, candidate>>
    BY DEF Generate
  <1>4. useJose[c] # None => joseSupported = IF useJose[c] THEN "yes" ELSE "no"
    BY DEF Inv, CallInv
  <1>5. PICK value \in Answers :
          /\ Settle(c, value)
          /\ \/ value.error = None /\ modulePromise = "loaded"
             \/ value.error = "ImportError" /\ modulePromise = "failed"
    <2>1. CASE /\ modulePromise = "loaded"
               /\ \E s \in Seeds : Resolve(c, [alg |-> ask[c].alg, seed |-> s])
      BY <1>1, <2>1 DEF Resolve, Answers, Pairs
    <2>2. CASE modulePromise = "failed" /\ Reject(c, "ImportError")
      BY <2>2 DEF Reject, Answers, Errors
    <2> QED
      BY <2>1, <2>2 DEF Generate
  <1>6. None # "ImportError"
    BY MlDsaAssumption DEF Errors
  <1>7. value.error # "ImportError" => AnswerOf(ask[c], value)
    BY <1>1, <1>5, <1>6 DEF AnswerOf
  <1> QED
    BY <1>1, <1>2, <1>3, <1>4, <1>5, <1>6, <1>7, SettleKeeps

LEMMA AwaitModuleKeeps ==
  ASSUME Inv, NEW c \in Calls, AwaitModule(c), UNCHANGED <<ask, candidate>>,
         pc[c] \in {"probe", "jose"}, ask[c].op \in {"sign", "verify"},
         NEW j \in BOOLEAN, useJose' = [useJose EXCEPT ![c] = j],
         joseSupported = IF j THEN "yes" ELSE "no",
         ask[c].op = "sign" => ask[c].key.priv \in Seeds,
         ask[c].op = "verify" => pc[c] = "jose"
  PROVE  Inv'
  <1>1. Kept
    BY DEF Kept, AwaitModule, Load
  <1>2. TypeOK'
    BY DEF Inv, TypeOK, AwaitModule, Load
  <1>3. PromisesInv'
    BY DEF Inv, PromisesInv, AwaitModule, Load
  <1>4. UnderWay(c)'
    BY DEF Inv, TypeOK, CallInv, AwaitModule, UnderWay, NoneBefore
  <1>5. CallInv(c)'
    BY <1>4, MlDsaAssumption DEF Inv, TypeOK, CallInv, AwaitModule, Load
  <1> QED
    BY <1>1, <1>2, <1>3, <1>5, OneCallMoves DEF AwaitModule, Inv, TypeOK

-----------------------------------------------------------------------------
(* What is known of a call of signMlDsaJwt that awaits something. *)
LEMMA SignFacts ==
  ASSUME Inv, NEW c \in Calls, pc[c] \in {"probe", "jose", "module"}, ask[c].op = "sign"
  PROVE  /\ ask[c] \in Asks
         /\ Acceptable(ask[c])
         /\ ask[c].alg \in ML_DSA
         /\ ask[c].key.priv \in Seeds => SigningPair(ask[c]) \in Pairs
         /\ ask[c].key.priv \in Seeds =>
              AnswerOf(ask[c], [error |-> None, pair |-> SigningPair(ask[c])])
         /\ ask[c].key.priv \notin Seeds =>
              AnswerOf(ask[c], [error |-> "Error", pair |-> None])
  <1>1. ask[c] \in Asks /\ Acceptable(ask[c])
    BY DEF Inv, CallInv, UnderWay
  <1>2. ask[c].alg \in ML_DSA
    BY <1>1, AskFacts
  <1> QED
    BY <1>1, <1>2 DEF AnswerOf, SigningPair, Pairs

LEMMA SignPortablyKeeps ==
  ASSUME Inv, NEW c \in Calls, SignPortably(c), pc[c] \in {"probe", "jose"},
         ask[c].op = "sign", UNCHANGED <<ask, candidate>>,
         NEW j \in BOOLEAN, useJose' = [useJose EXCEPT ![c] = j],
         joseSupported = IF j THEN "yes" ELSE "no"
  PROVE  Inv'
  <1>1. CASE ask[c].key.priv \in Seeds
    BY <1>1, AwaitModuleKeeps DEF SignPortably
  <1>2. CASE ask[c].key.priv \notin Seeds
    <2> DEFINE value == [error |-> "Error", pair |-> None]
    <2>1. value \in Answers /\ value.error = "Error" /\ value.error # None
      BY MlDsaAssumption DEF Answers, Errors
    <2>2. Settle(c, value) /\ UNCHANGED <<modulePromise, joseSupported>>
      BY <1>2 DEF SignPortably, Reject
    <2>3. AnswerOf(ask[c], value)
      BY <1>2, SignFacts
    <2> HIDE DEF value
    <2> QED
      BY <2>1, <2>2, <2>3, SettleKeeps
  <1> QED
    BY <1>1, <1>2

(* A signature is the answer only where the module is there. *)
LEMMA SignedKeeps ==
  ASSUME Inv, NEW c \in Calls, Resolve(c, SigningPair(ask[c])),
         pc[c] \in {"jose", "module"}, ask[c].op = "sign", ask[c].key.priv \in Seeds,
         modulePromise = "loaded",
         UNCHANGED <<modulePromise, joseSupported, ask, useJose, candidate>>
  PROVE  Inv'
  <1> DEFINE value == [error |-> None, pair |-> SigningPair(ask[c])]
  <1>1. value \in Answers /\ value.error = None /\ value.error # "ImportError"
    BY SignFacts, MlDsaAssumption DEF Answers, Errors
  <1>2. Settle(c, value)
    BY DEF Resolve
  <1>3. AnswerOf(ask[c], value)
    BY SignFacts
  <1>4. /\ useJose' = [useJose EXCEPT ![c] = useJose[c]]
        /\ useJose[c] \in BOOLEAN \cup {None}
        /\ useJose[c] # None => joseSupported = IF useJose[c] THEN "yes" ELSE "no"
    BY DEF Inv, TypeOK, CallInv
  <1> HIDE DEF value
  <1> QED
    BY <1>1, <1>2, <1>3, <1>4, SettleKeeps

LEMMA ImportErrorKeeps ==
  ASSUME Inv, NEW c \in Calls, Reject(c, "ImportError"), pc[c] = "module",
         modulePromise = "failed",
         UNCHANGED <<modulePromise, joseSupported, ask, useJose, candidate>>
  PROVE  Inv'
  <1> DEFINE value == [error |-> "ImportError", pair |-> None]
  <1>1. value \in Answers /\ value.error = "ImportError" /\ value.error # None
    BY MlDsaAssumption DEF Answers, Errors
  <1>2. Settle(c, value)
    BY DEF Reject
  <1>3. /\ useJose' = [useJose EXCEPT ![c] = useJose[c]]
        /\ useJose[c] \in BOOLEAN \cup {None}
        /\ useJose[c] # None => joseSupported = IF useJose[c] THEN "yes" ELSE "no"
    BY DEF Inv, TypeOK, CallInv
  <1> HIDE DEF value
  <1> QED
    BY <1>1, <1>2, <1>3, SettleKeeps

LEMMA SignKeeps ==
  ASSUME Inv, NEW c \in Calls, SignProbed(c) \/ SignWithJose(c) \/ SignWithNoble(c)
  PROVE  Inv'
  <1>1. CASE SignProbed(c)
    <2>1. CASE joseSupported = "yes" /\ AwaitJose(c)
      <3>1. Kept
        BY <2>1 DEF Kept, AwaitJose
      <3>2. TypeOK'
        BY <1>1, <2>1 DEF Inv, TypeOK, AwaitJose, SignProbed
      <3>3. PromisesInv'
        BY <2>1 DEF Inv, PromisesInv, AwaitJose
      <3>4. CallInv(c)'
        BY <1>1, <2>1 DEF Inv, TypeOK, CallInv, UnderWay, AwaitJose, SignProbed
      <3> QED
        BY <1>1, <2>1, <3>1, <3>2, <3>3, <3>4, OneCallMoves
        DEF AwaitJose, SignProbed, Inv, TypeOK
    <2>2. CASE joseSupported = "no" /\ SignPortably(c)
      BY <1>1, <2>2, SignPortablyKeeps DEF SignProbed
    <2> QED
      BY <1>1, <2>1, <2>2 DEF SignProbed
  <1>2. CASE SignWithJose(c)
    <2>1. /\ useJose[c] = TRUE /\ joseSupported = "yes" /\ modulePromise = "loaded"
          /\ useJose' = [useJose EXCEPT ![c] = TRUE]
      BY <1>2, MlDsaAssumption DEF SignWithJose, Inv, TypeOK, CallInv, PromisesInv
    <2>2. CASE SignPortably(c)
      BY <1>2, <2>1, <2>2, SignPortablyKeeps DEF SignWithJose
    <2> QED
      BY <1>2, <2>1, <2>2, SignedKeeps DEF SignWithJose
  <1>3. CASE SignWithNoble(c)
    <2>1. ask[c].key.priv \in Seeds
      BY <1>3 DEF SignWithNoble, Inv, CallInv, UnderWay
    <2> QED
      BY <1>3, <2>1, SignedKeeps, ImportErrorKeeps DEF SignWithNoble
  <1> QED
    BY <1>1, <1>2, <1>3

-----------------------------------------------------------------------------
(* What is known of a call of verifyMlDsaJwt that awaits something. *)
LEMMA VerifyFacts ==
  ASSUME Inv, NEW c \in Calls, pc[c] \in {"probe", "jose", "module"}, ask[c].op = "verify"
  PROVE  /\ ask[c] \in Asks
         /\ Readable(ask[c].token)
         /\ ask[c].token \in Tokens
         /\ ask[c].keys \in Seq(PublicKeys)
         /\ DOMAIN ask[c].keys \subseteq Nat \ {0}
         /\ \A n \in DOMAIN ask[c].keys : ask[c].keys[n] \in PublicKeys
  <1>1. ask[c] \in Asks /\ Readable(ask[c].token)
    BY DEF Inv, CallInv, UnderWay
  <1> QED
    BY <1>1, AskFacts

(* The loop from the n-th key on, when no key before it made the token. *)
LEMMA LoopKeeps ==
  ASSUME Inv, NEW c \in Calls, pc[c] \in {"probe", "jose", "module"},
         ask[c].op = "verify", NEW n \in Nat, NEW j \in BOOLEAN,
         NoneBefore(ask[c], n), Loop(c, n, j), UNCHANGED ask,
         useJose' = [useJose EXCEPT ![c] = j],
         joseSupported = IF j THEN "yes" ELSE "no"
  PROVE  Inv'
  <1> DEFINE a == ask[c]
             rest == {m \in Tried(c, j) : m >= n}
  <1>1. \A m \in DOMAIN a.keys :
          m >= n /\ Meant(a.token, a.keys[m]) /\ Genuine(a.token, a.keys[m]) => m \in rest
    BY VerifyFacts, GenuineIsMeasured DEF Tried
  <1>2. CASE rest = {}
    <2> DEFINE value == [error |-> "InvalidSignatureError", pair |-> None]
    <2>1. \A m \in DOMAIN a.keys :
            ~(Meant(a.token, a.keys[m]) /\ Genuine(a.token, a.keys[m]))
      BY <1>1, <1>2, VerifyFacts DEF NoneBefore
    <2>2. AnswerOf(a, value)
      BY <2>1, VerifyFacts DEF AnswerOf, Readable
    <2>3. /\ value \in Answers /\ value.error # "ImportError" /\ value.error # None
      BY MlDsaAssumption DEF Answers, Errors
    <2>4. Settle(c, value) /\ UNCHANGED <<modulePromise, joseSupported, candidate>>
      BY <1>2 DEF Loop, Reject
    <2> HIDE DEF value
    <2> QED
      BY <2>2, <2>3, <2>4, SettleKeeps
  <1>3. CASE rest # {}
    <2>1. PICK m \in rest :
            /\ \A l \in rest : m <= l
            /\ candidate' = [candidate EXCEPT ![c] = m]
            /\ IF j THEN AwaitJose(c) ELSE AwaitModule(c)
      BY <1>3 DEF Loop
    <2>2. m \in DOMAIN a.keys /\ m \in Nat /\ Meant(a.token, a.keys[m])
      BY <2>1, VerifyFacts DEF Tried
    <2>3. NoneBefore(a, m)
      BY <1>1, <2>1, <2>2, VerifyFacts DEF NoneBefore
    <2>4. Kept
      BY <2>1 DEF Kept, AwaitJose, AwaitModule, Load
    <2>5. TypeOK'
      BY <2>1, <2>2, <2>4 DEF Inv, TypeOK, AwaitJose, AwaitModule, Kept
    <2>6. PromisesInv'
      BY <2>1 DEF Inv, PromisesInv, AwaitJose, AwaitModule, Load
    <2>7. pc'[c] = (IF j THEN "jose" ELSE "module") /\ candidate'[c] = m /\ useJose'[c] = j
      BY <2>1 DEF AwaitJose, AwaitModule, Inv, TypeOK
    <2>8. NoneBefore(ask[c], m)' /\ Meant(ask[c].token, ask[c].keys[m])'
      BY <2>2, <2>3 DEF NoneBefore
    <2>9. UnderWay(c)'
      BY <2>2, <2>7, <2>8, VerifyFacts, MlDsaAssumption DEF UnderWay
    <2>10. CallInv(c)'
      <3>1. ask'[c] \in Asks /\ joseSupported' = joseSupported
        BY <2>1, VerifyFacts DEF AwaitJose, AwaitModule
      <3>2. ~j => modulePromise' # "none"
        BY <2>1 DEF AwaitModule, Load
      <3>3. answer'[c].error = None
        BY <2>1 DEF Inv, CallInv, AwaitJose, AwaitModule
      <3> QED
        BY <2>7, <2>9, <3>1, <3>2, <3>3 DEF CallInv
    <2> QED
      BY <2>1, <2>4, <2>5, <2>6, <2>10, OneCallMoves
      DEF AwaitJose, AwaitModule, Inv, TypeOK
  <1> QED
    BY <1>2, <1>3

(* The state of a call at a key of its list. *)
LEMMA CurrentFacts ==
  ASSUME Inv, NEW c \in Calls, pc[c] \in {"jose", "module"}, ask[c].op = "verify"
  PROVE  /\ candidate[c] \in DOMAIN ask[c].keys
         /\ candidate[c] \in Nat
         /\ Current(c) \in PublicKeys
         /\ Meant(ask[c].token, Current(c))
         /\ NoneBefore(ask[c], candidate[c])
         /\ useJose[c] \in BOOLEAN
         /\ joseSupported = IF useJose[c] THEN "yes" ELSE "no"
         /\ useJose = [useJose EXCEPT ![c] = useJose[c]]
  <1>1. UnderWay(c) /\ CallInv(c) /\ TypeOK
    BY DEF Inv, CallInv
  <1>2. /\ candidate[c] \in DOMAIN ask[c].keys /\ candidate[c] \in Nat
        /\ Meant(ask[c].token, Current(c)) /\ NoneBefore(ask[c], candidate[c])
    BY <1>1 DEF UnderWay, TypeOK, Current
  <1>3. Current(c) \in PublicKeys
    BY <1>2, VerifyFacts DEF Current
  <1>4. useJose[c] # None /\ useJose \in [Calls -> BOOLEAN \cup {None}]
    BY <1>1 DEF UnderWay, TypeOK
  <1>5. joseSupported = IF useJose[c] THEN "yes" ELSE "no"
    BY <1>1, <1>4 DEF CallInv
  <1> QED
    BY <1>2, <1>3, <1>4, <1>5

LEMMA GoOnKeeps ==
  ASSUME Inv, NEW c \in Calls, pc[c] \in {"jose", "module"}, ask[c].op = "verify",
         ~Genuine(ask[c].token, Current(c)), GoOn(c), UNCHANGED <<ask, useJose>>
  PROVE  Inv'
  <1>1. NoneBefore(ask[c], candidate[c] + 1)
    BY CurrentFacts, VerifyFacts DEF NoneBefore, Current
  <1> DEFINE n == candidate[c] + 1
             j == useJose[c]
  <1>2. n \in Nat /\ j \in BOOLEAN /\ joseSupported = (IF j THEN "yes" ELSE "no")
    BY CurrentFacts
  <1>3. useJose' = [useJose EXCEPT ![c] = j] /\ Loop(c, n, j) /\ NoneBefore(ask[c], n)
    BY <1>1, CurrentFacts DEF GoOn
  <1> HIDE DEF n, j
  <1> QED
    BY <1>2, <1>3, LoopKeeps

LEMMA VerifiedKeeps ==
  ASSUME Inv, NEW c \in Calls, pc[c] \in {"jose", "module"}, ask[c].op = "verify",
         Genuine(ask[c].token, Current(c)), Resolve(c, Current(c).pub),
         modulePromise = "loaded",
         UNCHANGED <<modulePromise, joseSupported, ask, useJose, candidate>>
  PROVE  Inv'
  <1> DEFINE value == [error |-> None, pair |-> Current(c).pub]
  <1>1. Current(c).pub \in Pairs /\ Current(c).pub = ask[c].token.signer
    BY CurrentFacts DEF Genuine, PublicKeys
  <1>2. value \in Answers /\ value.error = None /\ value.error # "ImportError"
    BY <1>1, MlDsaAssumption DEF Answers, Errors
  <1>3. Settle(c, value)
    BY DEF Resolve
  <1>4. AnswerOf(ask[c], value)
    BY <1>1, CurrentFacts, VerifyFacts DEF AnswerOf, Current
  <1> HIDE DEF value
  <1> QED
    BY <1>2, <1>3, <1>4, CurrentFacts, SettleKeeps

LEMMA VerifyKeeps ==
  ASSUME Inv, NEW c \in Calls, VerifyProbed(c) \/ VerifyWithJose(c) \/ VerifyWithNoble(c)
  PROVE  Inv'
  <1>1. CASE VerifyProbed(c)
    <2>1. NoneBefore(ask[c], 1)
      BY <1>1, VerifyFacts DEF VerifyProbed, NoneBefore
    <2> DEFINE j == joseSupported = "yes"
    <2>2. j \in BOOLEAN /\ joseSupported = (IF j THEN "yes" ELSE "no")
      BY <1>1 DEF VerifyProbed
    <2>3. /\ pc[c] = "probe" /\ ask[c].op = "verify" /\ UNCHANGED ask
          /\ Loop(c, 1, j) /\ useJose' = [useJose EXCEPT ![c] = j]
      BY <1>1 DEF VerifyProbed
    <2> HIDE DEF j
    <2> QED
      BY <2>1, <2>2, <2>3, LoopKeeps
  <1>2. CASE VerifyWithJose(c)
    <2>1. /\ pc[c] = "jose" /\ ask[c].op = "verify" /\ UNCHANGED <<ask, useJose>>
          /\ modulePromise = "loaded"
      BY <1>2, MlDsaAssumption DEF VerifyWithJose, Inv, TypeOK, CallInv, PromisesInv
    <2>2. CASE /\ Measured(ask[c].token, Current(c))
               /\ AwaitModule(c) /\ UNCHANGED candidate
      BY <2>1, <2>2, CurrentFacts, AwaitModuleKeeps
    <2>3. CASE ~Measured(ask[c].token, Current(c)) /\ GoOn(c)
      BY <2>1, <2>3, CurrentFacts, VerifyFacts, GenuineIsMeasured, GoOnKeeps
    <2> QED
      BY <1>2, <2>1, <2>2, <2>3, VerifiedKeeps DEF VerifyWithJose
  <1>3. CASE VerifyWithNoble(c)
    BY <1>3, VerifiedKeeps, GoOnKeeps, ImportErrorKeeps DEF VerifyWithNoble
  <1> QED
    BY <1>1, <1>2, <1>3

-----------------------------------------------------------------------------
(* The promises settle: what calls know of them stays true. *)
LEMMA SettledKeeps ==
  ASSUME Inv, UNCHANGED <<pc, ask, useJose, candidate, answer>>, TypeOK', PromisesInv',
         modulePromise # "pending" => modulePromise' = modulePromise,
         modulePromise' # "none",
         joseSupported # "pending" => joseSupported' = joseSupported
  PROVE  Inv'
  <1>1. ASSUME NEW c \in Calls PROVE CallInv(c)'
    <2>1. CallInv(c) /\ (UnderWay(c) => UnderWay(c)')
      BY DEF Inv, UnderWay, NoneBefore
    <2>2. Ended(c) => Ended(c)'
      BY DEF Ended
    <2> QED
      BY <2>1, <2>2 DEF CallInv
  <1> QED
    BY <1>1 DEF Inv

LEMMA NextKeeps == Inv /\ [Next]_vars => Inv'
  <1> SUFFICES ASSUME Inv, [Next]_vars PROVE Inv'
    OBVIOUS
  <1>1. ASSUME NEW c \in Calls, Begin(c) \/ Progress(c) PROVE Inv'
    BY <1>1, BeginKeeps, GenerateKeeps, SignKeeps, VerifyKeeps DEF Progress
  <1>2. CASE Imported
    BY <1>2, SettledKeeps DEF Imported, Inv, TypeOK, PromisesInv
  <1>3. CASE Probed
    BY <1>3, SettledKeeps DEF Probed, Verdicts, Inv, TypeOK, PromisesInv
  <1>4. CASE UNCHANGED vars
    <2>1. TypeOK' /\ PromisesInv'
      BY <1>4 DEF Inv, TypeOK, PromisesInv, vars
    <2>2. ASSUME NEW c \in Calls PROVE CallInv(c)'
      BY <1>4 DEF vars, Inv, CallInv, UnderWay, NoneBefore, Ended
    <2> QED
      BY <2>1, <2>2 DEF Inv
  <1> QED
    BY <1>1, <1>2, <1>3, <1>4 DEF Next, Done

THEOREM InvHolds == Spec => []Inv
  BY InitInv, NextKeeps, PTL DEF Spec

(* The variables keep their types. *)
THEOREM TypesHold == Spec => []TypeOK
  <1>1. Inv => TypeOK
    BY DEF Inv
  <1> QED
    BY <1>1, InvHolds, PTL

(* For every number of calls, list of keys and order of events: a call is  *)
(* answered by its arguments alone, unless the import has failed.          *)
THEOREM AnswersAreIndependent == Spec => []AnswerIndependentOfRuntime
  <1>1. Inv => AnswerIndependentOfRuntime
    BY DEF Inv, CallInv, Ended, AnswerIndependentOfRuntime
  <1> QED
    BY <1>1, InvHolds, PTL

(* For every number of calls: all of them share the fate of the first      *)
(* import and of the first probe.                                          *)
THEOREM FateIsShared == Spec => []SameFate
  <1>1. ASSUME Inv PROVE SameFate
    <2>1. \A c \in Calls : answer[c].error = "ImportError" => modulePromise = "failed"
      BY <1>1, MlDsaAssumption DEF Inv, CallInv, Ended, Errors
    <2>2. \A d \in Calls : pc[d] = "done" /\ answer[d].error = None => modulePromise = "loaded"
      BY <1>1 DEF Inv, CallInv, Ended
    <2>3. \A c \in Calls : useJose[c] # None =>
            useJose[c] \in BOOLEAN /\ joseSupported = IF useJose[c] THEN "yes" ELSE "no"
      BY <1>1 DEF Inv, CallInv, TypeOK
    <2> QED
      BY <2>1, <2>2, <2>3 DEF SameFate
  <1> QED
    BY <1>1, InvHolds, PTL
=============================================================================
