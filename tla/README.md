# keylab: a verification project

TLA+ models of keylab (`src/src/`), a TypeScript library that signs and
verifies JSON Web Tokens, with the TLC runs that check them and the proofs that
TLAPS checks. Paths below are relative to the repository root (`src/` here, so
`src/vendors/jwks/jwks-cache.ts` is `src/src/vendors/jwks/jwks-cache.ts`).

## 1. The system

| Component | Source | State | Operations | Talks to |
|---|---|---|---|---|
| JWKS cache | `vendors/jwks/jwks-cache.ts` | per instance `inflight`; per adapter the entries `{jwks, fetchedAt}` | `getKeys`, `refresh`, `clear` | the endpoint (`fetch`), a `JwksCacheStore` adapter (sync or async, possibly shared), the callback `onKeyRotation`, timers |
| Key lookup | `vendors/jwks/jwks.ts` 21-57, 109-152 | the process-wide `defaultJwksCache` | `fetchJwksKeys`, `getDefaultJwksCache`, `clearJwksCache` | the cache: `getKeys`, then `refresh` for an unknown `kid` |
| Public-key verification | `vendors/jwks/jwks.ts` 66-107, 154-281; `jwt/claims.ts`; `jwt/verification-errors.ts`; `jwt/jwt-verify.ts` | none; it reads a clock twice | `verifyTokenWithPublicKey`, `verifySignature`, `assertClaims`, `checkTokenValidness` | key lookup, jose, the portable and ML-DSA verifiers |
| HMAC verification | `jwt/jwt-verify.ts` 122-144 | none | `verifyHSTokenWithSecretString` | jose |
| ML-DSA | `jwt/portable-ml-dsa.ts` | memoised promises: the noble import and the probe of the runtime | sign, verify, generate | Web Crypto through jose, `@noble/post-quantum` |
| Portable algorithms | `jwt/portable-algorithms.ts` | none | sign, verify, generate for ES256K, Ed448 | `@noble/curves` |
| Signing | `jwt/jwt-sign.ts` | none | `signJwt*`, key pair generation | jose, portable, ML-DSA |
| Encodings | `jwt/utils.ts`, `ponyfills/` | none | base64, base64url, UTF-8, splitting a JWT | - |
| Middleware | `middleware/`, `headers/` | none | `createJwtMiddleware`, `createJwtHandler`, bearer extraction | `checkTokenValidness` |
| Token expiry | `jwt/token-expiry.ts` | reads the clock | `isTokenExpired`, `getTimeToExpiry` | - |
| JWE | `jwe/jwe.ts` | none | encrypt, decrypt | jose |
| Errors, enums, constants | `errors/`, `enums.ts`, `constants.ts` | none | - | everything |
| Build scripts | `scripts/` | files of the build | - | - |

What is hard here:

- *The cache.* Every operation is a chain of awaits: read the store, look at
  `inflight`, fetch with a timeout, sleep, retry, write the store, deregister.
  Concurrent callers of one instance share one promise; several instances (the
  workers of one service) share an adapter; `clear()` may run anywhere in between;
  the endpoint rotates its keys, errs or never answers. Correct means: one fetch
  at a time and per TTL, no key used long after it was withdrawn, a rotation
  reported once, no call stuck, no failure of the store or of one attempt
  visible to a caller.
- *Key lookup.* Two cache calls in sequence with a process-wide variable that
  `clearJwksCache` resets in between. Correct means: a new key becomes usable
  soon after a rotation, and nothing withdrawn before a clear is used after it.
- *Verification.* Signature and claims are checked at different times, by
  backends that fail in different ways. Correct means: accepted only if the
  signature and every required claim hold, and otherwise the documented error.
- *ML-DSA.* Two memoised promises shared by concurrent callers, one of them inside the
  other, and a fallback between two backends. Correct means: the answer depends on
  the arguments, not on the runtime or on who asked first, and no call hangs.
- *The life of a key pair.* Generation, signing and verification each route an
  identifier and a key to one of several backends by tables of their own, and each
  looks at the clock. Correct means: what a pair signs its public half verifies, for
  no other algorithm, and every part of the library names the same second as that of expiry.
- *The rest* is sequential and pure: conversions.

PROJECT.json lists the hazards, each at its line, with the properties that
cover it or the reason why none does.

## 2. The modules

| Module | Models | Composes |
|---|---|---|
| `KeySource` | what a source of keys promises a verifier (abstract) | - |
| `JwksCache` | `jwks-cache.ts`: the concurrent cache | implements `KeySource` (instance `Source`) |
| `JwksLookup` | `fetchJwksKeys` and the default cache of `jwks.ts` | extends `JwksCache` |
| `MlDsa` | `portable-ml-dsa.ts`: concurrent calls, the import and the probe | - |
| `Verifier` | what a verification promises its caller (abstract) | - |
| `Verification` | one verification: the middleware, `checkTokenValidness`, `verifyTokenWithPublicKey`, the backends, the claims, the error classes | implements `Verifier` (instance `Promise`) |
| `Lifecycle` | key generation, signing, `makePublicKey`, JWE, the expiry helpers | extends `Verification` |
| `Base64` | base64 and base64url | - |
| `JwksCacheProofs`, `TimingProofs` | theorems about `JwksCache`: the refinement and what holds of a state; then latency and what a step may never do | |
| `JwksLookupProofs` | theorems about `JwksLookup`; the refinement `LookupSpec => Spec` | |
| `VerificationProofs`, `RoutingProofs` | theorems about `Verification`: soundness; then completeness and the refinement | |
| `LifecycleProofs`, `MlDsaProofs`, `Base64Proofs` | theorems about the others | |
| `MCJwksCache`, `MCJwksLookup`, `MCMlDsa`, `MCVerification`, `MCLifecycle` | values of constants for TLC; `MCLifecycle` extends `MCVerification` and evaluates `Base64` | |

`Verification` does not extend `JwksLookup`: a verification takes from the lookup
a key set or an error at some later time, and gives it nothing but the `kid`. Its
`Lookup` is any such answer. In the same way its `VerifyMlDsa` is any answer that
`MlDsa` shows a call may have.

### JwksCache

A *call* of `getKeys` or `refresh` is an element of `Calls`, a cache instance one
of `Caches`, its adapter `StoreOf[i]`. `pc[c]` is the await a call is suspended
at; an action is the code from one await to the next, so all interleavings the
event loop allows are behaviours.

| Code (`jwks-cache.ts`) | Definitions |
|---|---|
| `getKeys`, `refresh` up to the read (99-120) | `Start`, `StoreGet`, `Limit`, `Usable`, `Hit` |
| `fetchDeduplicated` (148-166) | `Existing`, `Join`, `Lead`, `Finally`, `Deregistered`, `Settled`, `Resume` |
| `fetchWithRetry` (168-190) | `FailAttempt`, `Retries`, `Backoff`, `Wake`, the variable `attempt` |
| `fetchOnce` (192-236) | `Answer`, `ReceiveKeys`, `ReceiveError`, `CallbackThrows`, `Abort`, `Rotated`, `StoreSet` |
| `clear` (122-125), `MemoryJwksCacheStore` | `Clear`, `StoreClear`, `SyncStore` |
| tolerance of store failures (131-146) | `StoreMayFail` in `StoreGet`, `StoreSet`, `StoreClear` |

Outside the code: `Answer` and `Rotate` (the endpoint), `Expire` (an adapter that
drops entries by the `ttlMs` it is given), `Tick` (time). `retired`, `started`,
`led`, `clears` and `reports` are history variables that only properties read.

Choices:

- *One URI.* `inflight` and the store are maps by URI; only `clear` touches more
  than one, and it treats all alike.
- *A key set is a version*, and `Kids` says which kids it has. A malformed 200
  body, which the code normalises to an empty set, is a version without kids. The
  endpoint serves versions in order.
- *Time is discrete* and passes only while every call awaits something: code
  between two awaits takes none, timers fire and store operations complete no
  later than due (`Due`, `Tick`). A store operation takes at most `StoreMs`; a
  store that never settles is outside the model, as no timeout of the code covers
  it.
- *A memory store answers synchronously* (`SyncStore`): the microtasks from a
  `get` to the look at `inflight` are then fewer than those from another call's
  `set` to its `finally`, and `Turn` says which interleavings are left.
- *The promise of fetchWithRetry* is named by the call that created it; that call
  is the first to await it, so its `finally` runs before joiners resume.
- *Headers* are not modelled: `inflight` and the store ignore them.
- Bounds: `LastStart` (when calls may begin), `MaxClears`, `LastVersion`, and each
  call runs once.

### KeySource

The abstract cache: `Ask`, `Answer`, `Rotate`, `Tick`. A call is answered once, with a
failure or with a set served at some time between the answer and a window before the
call. `Source` in `JwksCache` maps a call's `op` to what is wanted, `started` to the time it is
asked, and `outcome` of a returned call to the answer; the window is the limit of the call plus a
timeout. Stores, registrations, retries and `clear()` are steps the abstraction does not see.

### JwksLookup

A *lookup* is one run of `fetchJwksKeys`. It owns two calls, `GetOf[v]` and
`RefreshOf[v]`, and starts them with the `Start` of JwksCache: `Begin` is
`opts.jwksCache ?? getDefaultJwksCache()` and `getKeys`, `Got` and `Retry` the two
ways on, `Refreshed` the end. `default` is `defaultJwksCache`; each
`new JwksCache()` takes an unused element of `Defaults`, which have stores of their
own. `ClearDefault` is `clearJwksCache` together with the `Clear` it calls. Every
other step is a step of JwksCache with the lookups unchanged.

### Verification

One request, chosen by `Init`, and a clock that may advance at every await (`Tick`):
verifications share nothing else. `phase` is the await the call is suspended at.

| Code | Definitions |
|---|---|
| `headers.ts`, `getAlgorithmJwt`, `readHeader` | `NoBearer`, `Unreadable`, `Readable` |
| `checkTokenValidness` (`jwt-verify.ts` 29-120) | `Missing`, `Refused`, `Refuse`, `UseSecret`, `PublicKey` |
| `verifySignature` (`jwks.ts` 168-281): key sources | `UsePem`, `Supplied`, `UseSupplied`, `UseJwks`, `NoKeySource`, `Lookup` |
| the same: candidates and routing | `IsPortable`, `PortableCandidates`, `JoseCandidates`, `RouteMlDsa`, `RoutePortable`, `RouteJose`, `NoApplicableKey`, `FallsToJose` |
| `assertAlgorithmMatches` (`jwks.ts` 88-107) | `Intended`, `Mismatched`, `MismatchedAlgorithm` |
| `verifyPortableJwt`, `matchesHeader` (`portable-algorithms.ts` 227-247, 316-367) | `Matches`, `PortableVerdict`, `VerifyPortable` |
| PEM keys (`jwks.ts` 203-220, `needsPortableEdDsa`) | `PemVerdict`, `VerifyPem` |
| `verifyMlDsaJwt` (`portable-ml-dsa.ts` 254-306) | `MlDsaMatches`, `VerifyMlDsa` |
| `verifyHSTokenWithSecretString` (`jwt-verify.ts` 122-144) | `HmacError`, `VerifyHmac` |
| `assertClaims` (`claims.ts`) | `ClaimError`, `AssertClaims` |
| `toVerificationError` (`verification-errors.ts`) | `Conversions`, `toVerificationError` |
| `createJwtMiddleware`, `createJwtHandler` | `Continue`, `Fail`, `ErrorResponse`, `Handled` |

Choices:

- *One algorithm per hash length*: `HS256` for the secrets, `RS256`, `PS256` and `ES256` for
  jose, `EdDSA` for jose or noble by the curve of the key, `ES256K`, `ML-DSA-65`, `none`
  for the rest. Keys may declare these or the labels `Ed25519` and `Ed448` (`Labels`), and are
  of the kinds a JWK can have (`Kinds`), among them bytes (`oct`) and a JWK without its
  curve (`bare`); an entry of a set that is no object is `junk`.
- *Cryptography is a name*: `material` names a key pair, a token the one it was signed
  with, or none; a key that does not decode has none. Of the length of a key only this matters:
  jose refuses an RSA key of less than 2048 bits (`weak`, `TooWeak`).
- *A token* is well formed, has an unreadable header, a header and a malformed rest, or is
  well formed with a signature cut to a length that no key of its algorithm gives (form `cut`). jose
  and the ML-DSA verifier call such a signature wrong; the verifiers of noble throw, as for a key
  that does not decode (`Throws`), and nothing in `verifyPortableJwt` catches it.
  What its claims lack is a set of requirements; `exp` and `nbf` are times, absent, or of
  another type.
- *jose is external*: `JoseVerdict`, `JoseSetVerdict` and `JoseClaimError` give the error
  classes `verification-errors.ts` distinguishes. jose wants one key of a set, looks
  at the signature before the claims, and at `exp` last.
- *ML-DSA*: whether jose or noble verified makes no difference to the outcome, and
  one action stands for both, as `AnswerIndependentOfRuntime` of `MlDsa` shows it may. The
  import of noble may fail in any verification (`ImportMayFail`); that it then fails
  in all of them is `SameFate` of `MlDsa`.
- `use`, `key_ops` and `crit`, which only jose reads, are not modelled.
- `next()` may throw (`NextMayThrow`), which the `catch` answers as a failure.
- Bounds: `MaxTime`. `began` is a history variable.

### Verifier

The abstract verification has a ring of keys and an answer, and three actions: `Obtain` takes a
ring the call names, `Accept` and `Refuse` answer, once. It reads four things its caller and the
clock determine: which rings are `named`; whether the token is `genuine` (a fitting key of the ring, or
the secret, signed it); whether its claims are `current`, at this moment; and whether it is
`certain`, that is, nothing but its claims speaks against it. It accepts only what is genuine and
current, and does not refuse what is certain and current. `Promise` in `Verification` gives
them from the request, the ring and the clock, without the phases: `Named` is the order of precedence between `publicKey`,
adhoc keys and `jwksUri`, `HasToBeFound` a right key that is alone, or alone under the `kid` of
the token. Paths, backends, what the portable curves or ML-DSA throw, errors and
their classes are steps or distinctions the abstraction does not see. Between a token that is genuine
and one that is certain the code may decide either way: two keys of one `kid`, for instance,
which jose refuses and the portable curves try in turn.

### MlDsa

Calls of `createMlDsaKeyPair`, `signMlDsaJwt` and `verifyMlDsaJwt` run concurrently from the
first use in a process on. `pc[c]` is the promise a call awaits: the probe, jose or the module.

| Code (`portable-ml-dsa.ts`) | Definitions |
|---|---|
| `loadMlDsa`, `suiteFor` | `modulePromise`, `Load`, `AwaitModule`, `Imported` |
| `mlDsaJoseSupported`, `probeJoseMlDsa` | `joseSupported`, `AwaitProbe`, `Probed`, `Verdicts` |
| `createMlDsaKeyPair` | `Generate` |
| `signMlDsaJwt`, `signWithNoble` | `Acceptable`, `SignProbed`, `SignWithJose`, `SignPortably`, `SignWithNoble` |
| `verifyMlDsaJwt`, `verifyWithNoble` | `Readable`, `Meant`, `Measured`, `Loop`, `GoOn`, `VerifyProbed`, `VerifyWithJose`, `VerifyWithNoble` |

A key pair is its algorithm and its seed. jose may refuse whatever it is given, and never
accepts what is not genuine. The probe makes its key with noble, so without the
module its verdict is "no" (`Verdicts`); otherwise it is the runtime's. Claims are
checked by `Verification`.

### Lifecycle

A *plan* is what callers do with one pair: which identifier, format and size it is generated for,
whether `isNodeJs()`, how it is used, under which algorithm, and in which way the token is
verified. `stage` is how far the plan is. `Submit` hands the token and the public half to
`Verification`, whose steps are then those of `Verify`. A plan of `None` is a verification
of `MCVerification`, so that one state space covers both.

| Code | Definitions |
|---|---|
| `getKeyPair` (`jwt-sign.ts` 381-478), `createKeyMetadata`, `getSymmetricKeySize` | `modulusLength`, `GetMlDsaPair`, `GetPortablePair`, `GetSymmetricPair`, `GetJosePair`, `GetNoPair`, `LabelOf`, `Got` |
| the fallback to node:crypto (443-455), `getNodeKeyGenerationConfig` | `LongEnough`, `NodeKind` |
| `signJwtWithPrivateKey` (317-379) | `SignJwt`, `SignMlDsa`, `SignPortable`, `SignJose`, `getJoseImportAlgorithm`, `JoseSigns`, `Weak` |
| `signPortableJwt`, `curveFromJwkForAlg`, `needsPortableEdDsa` (`portable-algorithms.ts`) | `Resolves`, `curveFromJwkForAlg`, `needsPortableEdDsa`, `Scalars` |
| `createSignedJwt` (`jwt-verify.ts` 227-299) | `CreateSignedJwt`, `Creatable` |
| `makePublicKey`, the public half (`jwks.ts` 37-59) | `makePublicKey`, `PublicHalf`, `Asked` |
| `encryptJwe`, `decryptJwe` (`jwe.ts`) | `EncryptJwe`, `ImportAlg`, `DecryptJwe` |
| `token-expiry.ts` | `isTokenExpired`, `getTimeToExpiry` |

Choices: one identifier stands for those that differ in lengths alone (`RS256` for the three RSA
hashes); a symmetric key counts its bytes, as AES key wrap wants an exact number, and a
private part is told apart by its length where the code takes any of that length
(`Scalars`). An RSA pair has the modulus it was asked for, up to OpenSSL's 16384 bits: below 2048
(`JoseModulus`) jose does not generate it and node:crypto does, down to 512 (`NodeModulus`); such a
pair is `Weak`, and jose neither signs, verifies nor encrypts with it. A key is imported for
the expected algorithm of a JWE: an RSA key then decrypts for that alone, one of a curve for every
ECDH-ES, a secret for any (`DecryptJwe`). jose has no RSA1_5. The helpers read the clock and nothing else, so they are definitions that
the property compares with the verdict of the verification in the same second. jose's
content encryption is external.

### Base64

Functions on sequences of numbers: a character is its index in `base64Alphabet`, and the padding, the
two characters of base64url and any other have numbers after the digits. `bytesToBase64`,
`base64ToBytes`, `bytesToBase64Url`, `base64UrlToBytes` are named as in `utils.ts`; the errors thrown
are `Invalid`.

## 3. The runs

| Run | Question | Instance |
|---|---|---|
| `memory` | dedup, latency, spacing, rotation reports, order of writes; that the cache implements `KeySource` | 3 calls, 1 instance, memory store, 2 attempts, errors, timeouts, one rotation, a throwing callback |
| `shared` | how old returned keys may be | 2 calls, 2 instances over one failing, expiring async adapter (`StoreMs` 0), one `clear()` each, one rotation, calls beginning up to time 5 |
| `live` | types, liveness of registrations, every call ends, no rejection is unearned | 2 calls, a failing async adapter that takes time (`StoreMs` 1), 2 attempts, a `clear()`, an endpoint that may never answer |
| `lookup` | visibility of a rotation, freshness after a clear, how long a verification waits for keys, that every lookup ends | 2 lookups (4 calls) of a kid only the new set has, 2 default caches and a supplied one, weak fairness |
| `dedup`, `cooldown`, `spacing` | three findings below | as `memory` with a `clear()`; as `memory`; 2 calls over an async adapter |
| `lifecycle` | what is accepted, and which error a defect has; which pairs make the round trip; that a verification implements `Verifier` | the requests and plans below, `MaxTime = 2`, failing import, throwing `next()` |
| `mldsa` | answers of concurrent ML-DSA calls, and that they end | 3 calls, 19 kinds of arguments, any runtime, a failing import |
| `documented`, `continue`, `truncated` | three more findings | the requests without plans, import and `next()` not failing |

| Property | Says |
|---|---|
| `TypeOK` | types; in particular `attempt < maxRetries` |
| `InflightIsLive` | a registered promise is one its creator still drives |
| `OneFetchPerEpoch` | two fetches of one instance between the same `clear()` calls are one |
| `BoundedStaleness` | no key set is returned that was withdrawn longer before the call than its limit plus the time a response takes |
| `RejectionEarned` | a rejection is what a fetch ended with after its attempts, never a store failure |
| `BoundedLatency` | no call outlasts all timeouts, backoffs and store operations of one fetch |
| `FetchSpacing` | no fetch begins while the instance's last set is within the limit |
| `RotationReported` | `onKeyRotation` is called exactly for writes that change the kids |
| `StoreNeverRegresses` | a write never puts an older set back |
| `AllCallsReturn`, `LookupsEnd` | every call and every lookup ends |
| `RotationVisible` | a published kid is missed only within the staleness bound of the rotation |
| `FreshAfterClear` | nothing withdrawn before `clearJwksCache` is used by a lookup that begins after it |
| `LookupLatency` | no verification waits for its keys longer than two calls may last |
| `ImplementsKeySource` | the cache is a `KeySource`, step by step: no call is answered twice, none with a set outside its window |
| `AcceptedIsGenuine` | an accepted token was signed by a key of the call that fits its algorithm and does not clash with its `kid` |
| `AcceptedIsCurrent` | when a token is accepted it has not expired and meets every requirement |
| `ClaimsBlamedAfterSignature` | expiry and scopes are spoken of only for a token that a key of the call signed |
| `SameClassOnEveryPath` | with one key that fits, a bad signature, an expired token and missing scopes have the same class on every path, and a good token is accepted; of the portable curves for signatures of the curve's length |
| `BadSignatureIsInvalid` | the class of a wrong signature does not depend on its length (refuted) |
| `RightKeyFound` | a good token is accepted if one key has its `kid`, whatever else the set holds, in whatever order |
| `ImplementsVerifier` | a verification is a `Verifier`, step by step: one answer, keys only from what the call names, and at the moment of the answer nothing accepted that is not genuine and current, nothing refused that is certain and current |
| `LifecycleTypeOK` | types of `Lifecycle` and of `Verification` |
| `EveryPairRoundTrips` | a pair signs under its algorithm and its public half verifies what it signed, in each format and way, whichever backend made it; with a modulus jose does not use nothing is accepted |
| `JwksKeepTheirAlgorithm` | a generated JWK verifies only tokens of the algorithm it was generated for |
| `ExpiryHelpersAgree` | `isTokenExpired` and `getTimeToExpiry` agree with every verification about the second of expiry |
| `JweRoundTrips` | a pair meant for key management encrypts, but for moduli jose does not use, and what it encrypts it decrypts when the algorithm is expected; with an RSA key no other may be expected |
| `AnswerIndependentOfRuntime` | what an ML-DSA call is answered depends on its arguments, not on the runtime, on jose's refusals or on the other calls |
| `SameFate` | when the import failed for one call none has succeeded; no two calls were told different results of the probe |
| `CallsEnd` | every ML-DSA call that awaits the probe ends |

*Why the bounds are enough.* Three calls of one instance are a leader, a joiner,
and one that arrives after the finally; two are the least for a shared adapter, as
each relation between instances is between two. One rotation makes one old and
one new set; times run over more than a TTL so that an entry is fresh, at its
limit and past it (`ttlMs` 2 or 3, `minRefreshIntervalMs` 1, calls beginning up to
time 3, 4 or 5, in `live` 1). In `shared` and `memory` some begin later than the window of `getKeys`, `ttlMs` +
`timeoutMs` = 3, after a withdrawal, so that a set can be too old for it; in `lookup` lookups begin up to
time 3, later than the window of `refresh`, 2. Two attempts give a first, a retry and a last; `shared` and
`lookup` have one, for the case that the first is the last. A store that takes
time is checked for the end of calls (`live`) and in `spacing`; for the age of what is returned
`NeverTooStale` covers it, where the time of a write enters the bound. A token without a kid takes the path of one whose kid is in the set.
The theorems below cover every other size.
A verification tells keys apart by kind, `kid`, declared algorithm and whether they
decode or sign, and whether jose uses them; 27 keys combine these, and the sets of at most two of them hold
each pair of a right key and one that may get in its way, in both orders.
`MCRequests` has four families, each exhaustive in what it is about: `Routings`
(every set, supplied or published), `Claims` (every combination of times and
requirements on every path), `Oddities` (PEM keys, cut and malformed tokens, unknown
algorithms), `Served` (the middleware and the handler). Times 0 to 2 put `exp` and
`nbf` before, at and after every moment a path looks at the clock.
`MCPlans` has four families: `Signing` (every identifier, format and runtime under every
algorithm, in each way), `Sized` (RSA pairs on each side of 512 and of 2048 bits), `Creating` (every identifier and algorithm, with and without a
key, with `exp`, a session or neither), `Encryption` (every identifier, size, algorithm
and expectation). Plans are enumerated in full, so no larger instance has another pair.
Three ML-DSA calls are one that begins the probe, one that joins it and one that comes when it is decided;
lists of two keys put each key that is skipped, that does not decode or that does not verify before
the right one. `Base64Checked` evaluates the encodings on all short sequences of extreme values.

*Deadlock* is checked in every run: `Terminated`, `Done` and `Ended` are the steps of systems in
which everything has ended, and nothing else may stop.

*Fairness.* `Fairness` is weak fairness of each call's own continuations and of
`Tick`: the event loop runs every ready microtask and timer, and the clock goes
on. Nothing makes the endpoint answer, a caller call, or `clear()` run: the
calls end because `setTimeout` aborts the fetch (`jwks-cache.ts:201`). The adapter is taken
to settle within `StoreMs`. `LookupFairness` adds that a lookup goes on when the
call it awaits has returned. In `MlDsa`, `Fairness` is weak fairness of each call's continuations
and of the two promises: an import settles in one way or the other, and the probe awaits nothing
but the import and Web Crypto. No call is forced to begin.

## 4. Findings

- **dedup** (`jwks-cache.ts:164`): `finally` deletes the registration by URI. After
  `clear()` during a fetch, the old fetch's finally removes the new fetch's
  registration and a third caller starts a second concurrent fetch.
- **cooldown** (`jwks-cache.ts:115`): a failed refresh does not move `fetchedAt`, so
  with a failing endpoint each refresh fetches again; the comment promises at most
  one per `minRefreshIntervalMs`.
- **spacing** (`jwks-cache.ts:153`): over an async adapter a call that read a miss
  before another call's write reaches `inflight` after that call's finally and
  fetches again within the TTL.
- **documented** (`jwks.ts:264`): a token whose set has no key of its kind fails with a
  plain `Error`, although `specs/003-contract-hardening/spec.md:161` wants the documented classes.
- **continue** (`middleware.ts:53`): `checkTokenValidness` resolves to `false` for an HS token
  that fails other than by expiry; the middleware sets `req.auth = false` and calls `next()`,
  where `docs/api.md:235` has a 401.
- **truncated** (`portable-algorithms.ts:345`, and 357): noble throws on a signature of another
  length than the curve's and nothing catches it; an ES256K or Ed448 token with a cut signature fails
  with a plain `Error`, where `specs/003-contract-hardening/spec.md:93` and `docs/api.md:279` have
  `InvalidSignatureError`. `portable-ml-dsa.ts:164` looks at the length.

Two differences are in the model without a run of their own. `expectedAlg` only chooses how the key is
imported (`jwe.ts:80`): a JWE made under ECDH-ES is decrypted while ECDH-ES+A128KW is expected, and with a
secret whatever is expected, where the comment at `jwe.ts:18` has "the JWE alg/enc must match". And jose has no
RSA1_5, which `docs/api.md:219` lists as supported: a pair generated for it encrypts nothing under it.

## 5. What is proved

For all finite or infinite sets of calls, instances, adapters, lookups, requests and plans, all
limits, timeouts and retry counts. Assumptions, each evaluated by TLC as well:
`ConstantsAssumption` and `DistinctAssumption` (types of the constants; `None` and the two
failures are not other values), `BackoffAssumption` (2^n doubles and grows: the prover knows no
exponents), `LookupAssumption` (each lookup has its own two calls, each default cache its own
store), `VerificationAssumption`, `OutcomeAssumption`, `LifecycleAssumption` and
`MlDsaAssumption` (types; `None` is no other value; a signature has the length of its algorithm).

| Theorem | Property |
|---|---|
| `TypeCorrect` | `TypeOK` of `JwksCache` |
| `RegisteredIsLive` | `InflightIsLive` |
| `Deduplicated` | `OneFetchPerEpoch`, when `MaxClears = 0` (after a `clear()` it may fail: run `dedup`) |
| `NeverTooStale` | `BoundedStaleness` |
| `OnlyFetchesReject` | `RejectionEarned` |
| `LatencyIsBounded` | `BoundedLatency` |
| `StoreMovesForward` | `StoreNeverRegresses`, when no two instances share an adapter and `MaxClears = 0` |
| `FetchesAreSpaced` | `FetchSpacing`, for memory stores and `MaxClears = 0` |
| `RotationsAreReported` | `RotationReported`, for memory stores of their own and `MaxClears = 0` |
| `CacheIsKeySource` | `ImplementsKeySource`: `Spec => Source!Spec` |
| `LookupImplementsCache` | `LookupSpec => Spec` |
| `RotationIsVisible` | `RotationVisible` |
| `ClearIsFresh` | `FreshAfterClear` |
| `LookupIsBounded` | `LookupLatency` |
| `VerificationTypes` | `VerificationTypeOK` |
| `GenuineAccepted` | `AcceptedIsGenuine` |
| `CurrentAccepted` | `AcceptedIsCurrent` |
| `SignatureFirst` | `ClaimsBlamedAfterSignature` |
| `RightKeyIsFound` | `RightKeyFound` |
| `SameClass` | `SameClassOnEveryPath` |
| `VerificationKeepsPromise` | `ImplementsVerifier`: `Spec => Promise!Spec` |
| `LifecycleTypes` | `LifecycleTypeOK` |
| `GenuineThroughout` | `AcceptedIsGenuine`, in the composition `LSpec` |
| `VerifiedThroughout` | `AcceptedIsCurrent`, `ClaimsBlamedAfterSignature`, `RightKeyFound`, `SameClassOnEveryPath`, in the composition |
| `PromiseKeptThroughout` | `ImplementsVerifier`, in the composition: `LSpec => Promise!Spec` |
| `PairsRoundTrip` | `EveryPairRoundTrips` |
| `JwePairsRoundTrip` | `JweRoundTrips` |
| `HelpersAgree` | `ExpiryHelpersAgree` |
| `AlgorithmKept` | `JwksKeepTheirAlgorithm` |
| `TypesHold` | `TypeOK` of `MlDsa` |
| `AnswersAreIndependent` | `AnswerIndependentOfRuntime` |
| `FateIsShared` | `SameFate` |
| `Base64RoundTrip`, `Base64UrlRoundTrip` | decoding what was encoded gives it back, for byte strings of every length |
| `OnlyAlphabetDecoded` | `base64UrlToBytes` throws for a text with a foreign character |

*The cache.* The inductive invariant is `IInv`. `TypeInv` is `TypeOK` with what
each place of a call says of its variables; `RegistryInv` says that a registered
promise is driven by its creator, on the instance it is registered at; `AgeInv`
bounds how long ago what a call holds was served, by where the
call is: an entry that is about to be returned is younger than the limit, a response is
younger than the timeout, a write younger than `timeoutMs + StoreMs`; `SettleInv`
and `HandInv` pass this on from a leader to those that joined it.
None of the stated properties is inductive: staleness of a returned set, say,
follows only from the age of the entry read, of the answer received and of the
leader's set at each earlier place. `EarnInv` does the same for rejections.

*Latency.* `LatencyInv` counts from the moment a fetch began: `Spent(n)` is the longest it may take
before attempt n, and the timer of each place ends within what is then left. A joiner came
while the fetch was registered, so the fetch began before the joiner's read ended (`Awaits`).

*What a step may never do.* Three action properties need more than `IInv`, and hypotheses that
the code cannot do without. `OrderInv` says that while a call fetches its adapter holds nothing newer than what
it is about to write. That needs it to be the only writer (`SoleWriter`): two instances over one adapter,
or a fetch that `clear()` left running beside its successor, may write in either order. `MemoryInv`
says that what a call has just read is still stored, and that what a fetch wrote is replaced only by later
fetches; it needs a store that answers synchronously, and run `spacing` shows what else happens. `CompareInv`
says that the entry a fetch compares its keys with is the stored one up to the write.

*The refinement of KeySource.* `KnownInv` adds to `IInv` that each copy of a key set is one already published.
`SourceStep` maps `Start` to `Ask`, the three ways to return (`Hit`, `Finally`, `Resume`) to
`Answer`, `Rotate` and `Tick` to themselves and all else to a stutter.

*The lookups.* `LookupImplementsCache` maps each step of JwksLookup to a step of
JwksCache or a stutter, so that all theorems of JwksCache hold in the
composition. `DefaultInv` (the default is used, the unused instances are
untouched), `AskInv` (where a lookup is, its calls are), `OwnInv` and `FloorInv` (what the
instance of a lookup that began after a clear holds was fetched after it) then give the two lookup
properties. `SpanInv` adds the time: by `LatencyIsBounded` each of the two calls ends in time, and the second
begins in the instant in which the first returns.

*The verification*, for all requests, key sets and clocks. `VInv` adds
`PhaseInv` to the three soundness properties: what each await has established, in particular
that at `"verified"` a key of the call has signed. Each backend has a lemma on its verdict
(`JoseSetVerdictSound`, `PortableVerdictSound`, `PemVerdictSound`), each way a step
can end one on what it preserves (`RejectKeeps`, `AwaitKeeps`, `ConcludeKeeps`).
`RoutingProofs` shows the converse: what must be accepted is. `FoundInv` follows the right key
(`Right`) through the candidates and past each other key that could make its backend throw or
refuse, `ClassInv` the only key (`Single`, which leaves out a cut signature on the portable path) to
an outcome whose class `ClassOf` names; both rest on
`PathsDiffer`: no key is a candidate of both jose and the portable curves.

*The refinement of Verifier* joins the two halves. `PromiseInv` says that the ring is one of those named,
which way a secret goes, and that no step before the keys are looked at (a header that cannot be read, a missing key
source, an ML-DSA token beside a PEM key) refuses what is certain. With `FoundInv` and the soundness
properties it yields `Guarantee`, what an answer says in the state in which it is given
(`AnswerIsRight`). `StepShape` says that each step leaves ring and answer alone, takes a ring, or settles
without touching clock or ring, so that what holds after the settling held before it;
`PromiseKept` maps the three to a stutter, `Obtain`, and `Accept` or `Refuse`.

*The life of a pair.* `LInv` is `StageInv` (what each stage has established of the pair and the token)
with all that is proved of a verification once there is one (`Verifying`): `SubmitKeeps` shows that
what `Submit` asks is a request `Verification` may start with, and `VerifyKeeps` takes over its step
lemmas. `KeyInv` says that the set in use is the one public half with the label of the pair (`OneKey`),
and that a backend reached with it is that of the label.
`UseInv` has what generation and signing have established: the kind and size of the pair (`PairInv`), which
algorithm of JWE it fits (`JweInv`, `Imported`), and that a promised signature was made by the pair, which
is then not `Weak`, under the promised algorithm (`SignInv`, `PromisedPair`). That a weak pair is
accepted for nothing follows from the soundness of the verification (`WeakNeverAccepted`): its public half is the
only key of the call, and no path takes it. `RoundInv` follows the token of such a pair through the
verification: at each await the public half is the one key, fits, and is on the way to its backend (`Meant`).
In the composition the promise of Verifier is kept because no step outside a verification changes ring or answer.

*ML-DSA.* `Inv` has `PromisesInv` (the two promises go one way, and "yes" needs the module) and per call
`UnderWay` (no earlier key of the list made the token) and `Ended`.

*Base64* is proved by groups of three bytes (`EncodedGroup`, `WordRead`), with the division of
each digit's weight as linear arithmetic; the last group is one case per residue of the length.

*Only model-checked*: liveness (`AllCallsReturn`, `LookupsEnd`, `CallsEnd`), which is out of the prover's
reach; `BoundedLatency` and `LookupLatency`, which are proved, bound the time of every await that
does end. The values of the encodings on short inputs are evaluated as well as proved. The properties of the
six findings are refuted, so there is nothing of them to prove beyond `Deduplicated` and
`FetchesAreSpaced`, which hold under their hypotheses, `SameClass`, which leaves out the case of
`truncated`, and `JwePairsRoundTrip`, which has of an expected algorithm what does hold.

## 6. Not modelled, and why

- *Several URIs and the headers of requests.* The cache keys everything by URI alone.
- *A store that never settles*, which no timeout of the code covers, and *a clock that goes back*.
- *An endpoint that serves an old version again*: versions only say which set is newer.
- *`use`*, which only jose reads, when it searches a set of keys.
- *`checkJwtFields`*: a pure comparison of fields that nothing else in the library calls.
- *UTF-8, hexadecimal and the ponyfills*: pure conversions with no choice to get wrong that the
  models could tell apart; `parseJwtParts` and `normalizeJwk` are part of `Verification` and `Lifecycle`.
- *Error classes, enums and constants* are data, their names appear in the modules.
- *Build scripts* read and write files of the build.
- *A fractional `exp`*: times are whole seconds.
- *`dir`, the GCM and the password algorithms of JWE*, and *`expectedEnc`*, which `decryptJwe` never
  reads although the comment at `jwe.ts:18` has it match too.

What could be added: an abstract specification of the ML-DSA calls, of which `AnswersAreIndependent` and
`FateIsShared` are the substance; several URIs, to state that `clear()` is the only operation that relates them.
