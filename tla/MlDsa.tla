-------------------------------- MODULE MlDsa --------------------------------
(***************************************************************************)
(* The ML-DSA backend of src/vendors/jwt/portable-ml-dsa.ts: concurrent    *)
(* calls of createMlDsaKeyPair, signMlDsaJwt and verifyMlDsaJwt, which     *)
(* share two promises for the life of the process: that of the dynamic     *)
(* import of @noble/post-quantum and that of the probe which finds out     *)
(* whether jose can do ML-DSA in this runtime.                             *)
(*                                                                         *)
(* A key pair is its algorithm and its seed.  jose is external: with a     *)
(* genuine key or token it may succeed or refuse (an algorithm it does not *)
(* know, a key whose pub it misses, a claim it rejects), without one it    *)
(* refuses; every refusal is caught.                                       *)
(***************************************************************************)
EXTENDS Integers, Sequences

CONSTANTS
  Calls,          \* invocations of the three functions
  Asks,           \* what they may be called with, see AskType
  Seeds, Kids,
  None,           \* "undefined"
  Undecodable,    \* a string that is not base64url, or of another length
  ImportMayFail   \* TRUE: the import of @noble/post-quantum may reject

ML_DSA == {"ML-DSA-44", "ML-DSA-65", "ML-DSA-87"}
Pairs  == [alg : ML_DSA, seed : Seeds]

Errors == {"Error", "MalformedTokenError", "InvalidSignatureError", "ImportError"}

(* kty: "AKP", that of another key, or "pem" for a string. *)
PrivateKeys ==
  [kty : {"AKP", "other", "pem"}, alg : ML_DSA \cup {None},
   priv : Seeds \cup {None, Undecodable}]

PublicKeys ==
  [kty : {"AKP", "other"}, alg : ML_DSA \cup {None}, kid : Kids \cup {None},
   pub : Pairs \cup {None}]

(* signer is None for a forged signature; whole: it has the length of alg. *)
Tokens ==
  [wellFormed : BOOLEAN, alg : ML_DSA \cup {"other"}, kid : Kids \cup {None},
   signer : Pairs \cup {None}, whole : BOOLEAN]

AskType ==
  [op : {"generate"}, alg : ML_DSA, pem : BOOLEAN]
    \cup [op : {"sign"}, alg : ML_DSA, key : PrivateKeys]
    \cup [op : {"verify"}, token : Tokens, keys : Seq(PublicKeys)]

(* The length of a key or a signature tells its algorithm. *)
ASSUME MlDsaAssumption ==
  /\ Asks \subseteq AskType
  /\ ImportMayFail \in BOOLEAN
  /\ None \notin Seeds \cup Kids \cup Pairs \cup ML_DSA \cup BOOLEAN \cup Errors
  /\ Undecodable \notin Seeds \cup {None}
  /\ \A a \in Asks : a.op = "verify" /\ a.token.signer # None =>
       a.token.whole /\ a.token.signer.alg = a.token.alg

VARIABLES
  modulePromise,  \* "none", "pending", "loaded" or "failed"
  joseSupported,  \* "none", "pending", "yes" or "no"
  pc,             \* where each call is
  ask,            \* its arguments, None before it begins
  useJose,        \* what the probe told it, None before
  candidate,      \* the key of the list it is at
  answer          \* what its promise settled with

vars == <<modulePromise, joseSupported, pc, ask, useJose, candidate, answer>>

Answers == [error : Errors \cup {None}, pair : Pairs \cup {None}]
Nothing == [error |-> None, pair |-> None]

TypeOK ==
  /\ modulePromise \in {"none", "pending", "loaded", "failed"}
  /\ joseSupported \in {"none", "pending", "yes", "no"}
  /\ pc \in [Calls -> {"idle", "probe", "jose", "module", "done"}]
  /\ ask \in [Calls -> Asks \cup {None}]
  /\ useJose \in [Calls -> BOOLEAN \cup {None}]
  /\ candidate \in [Calls -> Nat]
  /\ answer \in [Calls -> Answers]

Init ==
  /\ modulePromise = "none"
  /\ joseSupported = "none"
  /\ pc = [c \in Calls |-> "idle"]
  /\ ask = [c \in Calls |-> None]
  /\ useJose = [c \in Calls |-> None]
  /\ candidate = [c \in Calls |-> 0]
  /\ answer = [c \in Calls |-> Nothing]

-----------------------------------------------------------------------------
(* The shared promises *)

(* Mutant: a rejected import is tried again. *)
LoadAgain == IF modulePromise \in {"none", "failed"} THEN "pending" ELSE modulePromise

(* loadMlDsa: a promise is kept, also one that has rejected. *)
Load == IF modulePromise = "none" THEN "pending" ELSE modulePromise

(* import() settles. *)
Imported ==
  /\ modulePromise = "pending"
  /\ modulePromise' \in {"loaded"} \cup IF ImportMayFail THEN {"failed"} ELSE {}
  /\ UNCHANGED <<joseSupported, pc, ask, useJose, candidate, answer>>

(* probeJoseMlDsa: the key it tries is made with noble, and whatever fails *)
(* is a "no".                                                              *)
Verdicts == IF modulePromise = "loaded" THEN {"yes", "no"} ELSE {"no"}

Probed ==
  /\ joseSupported = "pending"
  /\ modulePromise \in {"loaded", "failed"}
  /\ joseSupported' \in Verdicts
  /\ UNCHANGED <<modulePromise, pc, ask, useJose, candidate, answer>>

-----------------------------------------------------------------------------
(* Steps of a call *)

Settle(c, value) ==
  /\ pc' = [pc EXCEPT ![c] = "done"]
  /\ answer' = [answer EXCEPT ![c] = value]

Reject(c, e)  == Settle(c, [error |-> e, pair |-> None])
Resolve(c, p) == Settle(c, [error |-> None, pair |-> p])

(* suiteFor *)
AwaitModule(c) ==
  /\ pc' = [pc EXCEPT ![c] = "module"]
  /\ modulePromise' = Load
  /\ UNCHANGED <<joseSupported, answer>>

(* mlDsaJoseSupported; a probe that begins loads the module. *)
AwaitProbe(c) ==
  /\ pc' = [pc EXCEPT ![c] = "probe"]
  /\ IF joseSupported = "none"
     THEN joseSupported' = "pending" /\ modulePromise' = Load
     ELSE UNCHANGED <<joseSupported, modulePromise>>
  /\ UNCHANGED answer

AwaitJose(c) ==
  /\ pc' = [pc EXCEPT ![c] = "jose"]
  /\ UNCHANGED <<modulePromise, joseSupported, answer>>

(* What signMlDsaJwt looks at before it awaits anything. *)
Acceptable(a) ==
  /\ a.key.kty = "AKP"
  /\ a.key.priv # None
  /\ a.key.alg \in {None, a.alg}

Readable(t) == t.wellFormed /\ t.alg \in ML_DSA

(* The call up to its first await. *)
Begin(c) ==
  /\ pc[c] = "idle"
  /\ \E a \in Asks :
       /\ ask' = [ask EXCEPT ![c] = a]
       /\ CASE a.op = "generate" /\ ~a.pem              -> AwaitModule(c)
            [] a.op = "sign" /\ Acceptable(a)           -> AwaitProbe(c)
            [] a.op = "verify" /\ Readable(a.token)     -> AwaitProbe(c)
            [] OTHER ->
                 /\ Reject(c, IF a.op # "verify" THEN "Error"
                              ELSE IF a.token.wellFormed THEN "InvalidSignatureError"
                              ELSE "MalformedTokenError")
                 /\ UNCHANGED <<modulePromise, joseSupported>>
  /\ UNCHANGED <<useJose, candidate>>

(* createMlDsaKeyPair, with a random seed. *)
Generate(c) ==
  /\ pc[c] = "module" /\ ask[c].op = "generate"
  /\ \/ /\ modulePromise = "loaded"
        /\ \E s \in Seeds : Resolve(c, [alg |-> ask[c].alg, seed |-> s])
     \/ modulePromise = "failed" /\ Reject(c, "ImportError")
  /\ UNCHANGED <<modulePromise, joseSupported, ask, useJose, candidate>>

(* Mutant: the algorithm is that of the key, which may not say. *)
SigningPairOfKey(a) == [alg |-> a.key.alg, seed |-> a.key.priv]

(* The pair a private key signs with: its pub is not looked at. *)
SigningPair(a) == [alg |-> a.alg, seed |-> a.key.priv]

(* signWithNoble up to its await: a seed that does not decode throws. *)
SignPortably(c) ==
  IF ask[c].key.priv \in Seeds
  THEN AwaitModule(c)
  ELSE Reject(c, "Error") /\ UNCHANGED <<modulePromise, joseSupported>>

SignProbed(c) ==
  /\ pc[c] = "probe" /\ ask[c].op = "sign"
  /\ \/ joseSupported = "yes" /\ AwaitJose(c)
     \/ joseSupported = "no" /\ SignPortably(c)
  /\ useJose' = [useJose EXCEPT ![c] = (joseSupported = "yes")]
  /\ UNCHANGED <<ask, candidate>>

SignWithJose(c) ==
  /\ pc[c] = "jose" /\ ask[c].op = "sign"
  /\ \/ /\ ask[c].key.priv \in Seeds
        /\ Resolve(c, SigningPair(ask[c]))
        /\ UNCHANGED <<modulePromise, joseSupported>>
     \/ SignPortably(c)
  /\ UNCHANGED <<ask, useJose, candidate>>

SignWithNoble(c) ==
  /\ pc[c] = "module" /\ ask[c].op = "sign"
  /\ \/ modulePromise = "loaded" /\ Resolve(c, SigningPair(ask[c]))
     \/ modulePromise = "failed" /\ Reject(c, "ImportError")
  /\ UNCHANGED <<modulePromise, joseSupported, ask, useJose, candidate>>

-----------------------------------------------------------------------------
(* The loop of verifyMlDsaJwt *)

Genuine(t, k) == k.pub # None /\ k.pub = t.signer

(* The keys that are not skipped. *)
Meant(t, k) ==
  /\ k.kty = "AKP"
  /\ k.alg = t.alg
  /\ ~(t.kid # None /\ k.kid # None /\ t.kid # k.kid)

(* verifyWithNoble gets as far as its await: both lengths are right. *)
Measured(t, k) == t.whole /\ k.pub # None /\ k.pub.alg = t.alg

(* The keys for which the loop awaits something. *)
Tried(c, jose) ==
  {n \in DOMAIN ask[c].keys :
     LET k == ask[c].keys[n] IN
     Meant(ask[c].token, k) /\ (jose \/ Measured(ask[c].token, k))}

(* The loop from its n-th key on, to the next await or to its end. *)
Loop(c, n, jose) ==
  LET rest == {m \in Tried(c, jose) : m >= n} IN
  IF rest = {}
  THEN /\ Reject(c, "InvalidSignatureError")
       /\ UNCHANGED <<modulePromise, joseSupported, candidate>>
  ELSE \E m \in rest :
         /\ \A l \in rest : m <= l
         /\ candidate' = [candidate EXCEPT ![c] = m]
         /\ IF jose THEN AwaitJose(c) ELSE AwaitModule(c)

Current(c) == ask[c].keys[candidate[c]]

(* Mutant: a key that does not verify ends the loop. *)
GoOnNever(c) ==
  /\ Reject(c, "InvalidSignatureError")
  /\ UNCHANGED <<modulePromise, joseSupported, candidate>>

(* Mutant: the loop does not get past a key that does not verify. *)
GoOnSameKey(c) == Loop(c, candidate[c], useJose[c])

GoOn(c) == Loop(c, candidate[c] + 1, useJose[c])

VerifyProbed(c) ==
  /\ pc[c] = "probe" /\ ask[c].op = "verify"
  /\ joseSupported \in {"yes", "no"}
  /\ useJose' = [useJose EXCEPT ![c] = (joseSupported = "yes")]
  /\ Loop(c, 1, joseSupported = "yes")
  /\ UNCHANGED ask

(* What jose does not verify is tried with noble. *)
VerifyWithJose(c) ==
  /\ pc[c] = "jose" /\ ask[c].op = "verify"
  /\ \/ /\ Genuine(ask[c].token, Current(c))
        /\ Resolve(c, Current(c).pub)
        /\ UNCHANGED <<modulePromise, joseSupported, candidate>>
     \/ IF Measured(ask[c].token, Current(c))
        THEN AwaitModule(c) /\ UNCHANGED candidate
        ELSE GoOn(c)
  /\ UNCHANGED <<ask, useJose>>

VerifyWithNoble(c) ==
  /\ pc[c] = "module" /\ ask[c].op = "verify"
  /\ \/ /\ modulePromise = "loaded"
        /\ IF Genuine(ask[c].token, Current(c))
           THEN /\ Resolve(c, Current(c).pub)
                /\ UNCHANGED <<modulePromise, joseSupported, candidate>>
           ELSE GoOn(c)
     \/ /\ modulePromise = "failed"
        /\ Reject(c, "ImportError")
        /\ UNCHANGED <<modulePromise, joseSupported, candidate>>
  /\ UNCHANGED <<ask, useJose>>

-----------------------------------------------------------------------------
Progress(c) ==
  \/ Generate(c)
  \/ SignProbed(c) \/ SignWithJose(c) \/ SignWithNoble(c)
  \/ VerifyProbed(c) \/ VerifyWithJose(c) \/ VerifyWithNoble(c)

Done == (\A c \in Calls : pc[c] = "done") /\ UNCHANGED vars

Next ==
  \/ \E c \in Calls : Begin(c) \/ Progress(c)
  \/ Imported \/ Probed
  \/ Done

Spec == Init /\ [][Next]_vars

(* Continuations run; an import settles one way or the other, and so does  *)
(* the probe, which awaits the import and Web Crypto.                      *)
Fairness ==
  /\ \A c \in Calls : WF_vars(Progress(c))
  /\ WF_vars(Imported)
  /\ WF_vars(Probed)

FairSpec == Spec /\ Fairness

-----------------------------------------------------------------------------
(* What a call is answered depends on its arguments alone: not on whether  *)
(* the runtime supports ML-DSA, on what jose refuses or on the calls it    *)
(* shares the probe with.  A usable key signs with its seed, a token is    *)
(* verified if and only if a key meant for it made it, wherever it is in   *)
(* the list.  The one exception is the failure of the import.              *)
AnswerOf(a, value) ==
  CASE a.op = "generate" -> (value.error = None) <=> ~a.pem
    [] a.op = "sign" ->
         IF Acceptable(a) /\ a.key.priv \in Seeds
         THEN value = [error |-> None, pair |-> SigningPair(a)]
         ELSE value.error = "Error"
    [] a.op = "verify" ->
         IF /\ Readable(a.token)
            /\ \E n \in DOMAIN a.keys :
                 Meant(a.token, a.keys[n]) /\ Genuine(a.token, a.keys[n])
         THEN value = [error |-> None, pair |-> a.token.signer]
         ELSE value.error = IF a.token.wellFormed THEN "InvalidSignatureError"
                            ELSE "MalformedTokenError"

AnswerIndependentOfRuntime ==
  \A c \in Calls :
    pc[c] = "done" /\ answer[c].error # "ImportError" => AnswerOf(ask[c], answer[c])

(* Whether a process can do ML-DSA is decided once: when the import has    *)
(* failed for one call no call has succeeded or ever will, also where jose *)
(* could do without noble; and no two calls were told different results of *)
(* the probe.                                                              *)
SameFate ==
  \A c, d \in Calls :
    /\ answer[c].error = "ImportError" /\ pc[d] = "done" => answer[d].error # None
    /\ useJose[c] # None /\ useJose[d] # None => useJose[c] = useJose[d]

(* Every call ends, whichever of the two promises it awaits and however    *)
(* they settle.                                                            *)
CallsEnd == \A c \in Calls : pc[c] = "probe" ~> pc[c] = "done"
=============================================================================
