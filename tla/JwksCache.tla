------------------------------ MODULE JwksCache ------------------------------
(***************************************************************************)
(* The JWKS cache of src/vendors/jwks/jwks-cache.ts: getKeys, refresh and  *)
(* clear of JwksCache instances over a storage adapter, running            *)
(* concurrently on the event loop against one remote key set endpoint.     *)
(*                                                                         *)
(* One URI is modelled (the code keys every map by URI and no operation    *)
(* but clear relates two URIs).  A key set is a version number, its kids a function  *)
(* of the version.  Time is discrete; code between two awaits takes none.  *)
(* A call of getKeys or refresh is an element of Calls and runs once; the  *)
(* promise of fetchWithRetry is named by the call that created it.         *)
(***************************************************************************)
EXTENDS Integers, FiniteSets

CONSTANTS
  Calls,                 \* invocations of getKeys or refresh
  Caches,                \* JwksCache instances
  Stores, StoreOf,       \* storage adapters, and the adapter of each instance
  Kids, LastVersion,     \* kids published by each version 0 .. LastVersion
  None,                  \* "undefined"
  Transient, Fatal,      \* a failed attempt that is retried, and one that is not
  ttlMs, minRefreshIntervalMs, timeoutMs, maxRetries, backoffMs,
  StoreMs,               \* longest time a store operation takes
  SyncStore,             \* TRUE: MemoryJwksCacheStore, which answers synchronously
  StoreMayFail,          \* TRUE: get and set of the adapter may throw
  EndpointMayFail,       \* TRUE: the endpoint may answer with an error
  CallbackMayThrow,      \* TRUE: onKeyRotation may throw
  MaxClears,             \* bound: calls of clear() per instance
  LastStart              \* bound: no call begins after this time

Versions == 0 .. LastVersion
Ops      == {"getKeys", "refresh"}
Attempts == 0 .. IF maxRetries = 0 THEN 0 ELSE maxRetries - 1
Entries  == [version : Versions, fetchedAt : Nat]

ASSUME ConstantsAssumption ==
  /\ StoreOf \in [Caches -> Stores]
  /\ LastVersion \in Nat
  /\ {ttlMs, minRefreshIntervalMs, timeoutMs, maxRetries, backoffMs} \subseteq Nat
  /\ {StoreMs, MaxClears, LastStart} \subseteq Nat
  /\ {SyncStore, StoreMayFail, EndpointMayFail, CallbackMayThrow} \subseteq BOOLEAN
  /\ SyncStore => StoreMs = 0

ASSUME DistinctAssumption ==
  /\ None \notin Nat \cup Calls \cup Caches \cup Ops \cup {Transient, Fatal}
  /\ None \notin Entries \cup [at : Nat, clears : Nat]
  /\ Transient \notin Nat \cup {Fatal}
  /\ Fatal \notin Nat

(* The sleep after the failure of each attempt (100 ms is backoffMs). *)
Backoff(n) == backoffMs * 2^n

(* The prover knows nothing of exponents; TLC evaluates this. *)
ASSUME BackoffAssumption ==
  \A n \in 0 .. maxRetries :
    /\ Backoff(n) \in Nat
    /\ Backoff(n + 1) = 2 * Backoff(n)
    /\ \A m \in 0 .. n : Backoff(m) <= Backoff(n)

VARIABLES
  now,        \* Date.now()
  served,     \* version the endpoint serves
  retired,    \* history: when each version stopped being served, or None
  store,      \* entry of each adapter, or None
  inflight,   \* per instance: the call whose promise is registered, or None
  clears,     \* history: number of clear() calls on each instance
  clearing,   \* instances whose clear() awaits store.clear()
  pc,         \* where each call is
  via, op,    \* instance and operation of each call once it has begun
  entry,      \* entry the call read (cached, previous), then the one it writes
  attempt,    \* loop variable of fetchWithRetry
  timer,      \* when the wait the call is in ends at the latest
  reply,      \* what the endpoint answered to the current attempt
  leader,     \* the call whose promise this one awaits, or None
  outcome,    \* key set returned, Transient or Fatal for a rejection, or None
  started,    \* history: when the call began
  led,        \* history: [at, clears] when the call began to fetch, or None
  reports     \* history: the attempt in progress called onKeyRotation

endpointVars == <<served, retired>>
cacheVars    == <<store, inflight, clears, clearing>>
fetchVars    == <<attempt, reply, reports>>
argVars      == <<via, op>>
callVars == <<pc, argVars, entry, fetchVars, timer, leader, outcome, started, led>>
vars     == <<now, endpointVars, cacheVars, callVars>>

-----------------------------------------------------------------------------
(***************************************************************************)
(* Where a call is:                                                        *)
(*   reading   awaits store.get                                            *)
(*   read      the get has taken effect, its answer is on the way          *)
(*   joined    awaits the promise of another call (its leader)             *)
(*   sent      awaits globalThis.fetch                                     *)
(*   answered  the endpoint has answered, response.json() is on the way    *)
(*   sleeping  between two attempts                                        *)
(*   writing   awaits store.set                                            *)
(*   settled   the set has taken effect, or the last attempt has failed;   *)
(*             the finally of fetchDeduplicated has not run                *)
(* Every wait of Waiting ends by timer.                                    *)
(***************************************************************************)
Fetching == {"sent", "answered", "sleeping", "writing"}
Leading  == Fetching \cup {"settled"}
Waiting  == Leading \cup {"reading", "read"}
Places   == Waiting \cup {"idle", "joined", "returned"}
Failures == {Transient, Fatal}

StoreFor(c) == StoreOf[via[c]]

TypeOK ==
  /\ now \in Nat
  /\ served \in Versions
  /\ retired \in [Versions -> Nat \cup {None}]
  /\ store \in [Stores -> Entries \cup {None}]
  /\ inflight \in [Caches -> Calls \cup {None}]
  /\ clears \in [Caches -> 0 .. MaxClears]
  /\ clearing \subseteq Caches
  /\ pc \in [Calls -> Places]
  /\ via \in [Calls -> Caches \cup {None}]
  /\ op \in [Calls -> Ops \cup {None}]
  /\ entry \in [Calls -> Entries \cup {None}]
  /\ attempt \in [Calls -> Attempts]
  /\ timer \in [Calls -> Nat]
  /\ reply \in [Calls -> Versions \cup Failures \cup {None}]
  /\ leader \in [Calls -> Calls \cup {None}]
  /\ outcome \in [Calls -> Versions \cup Failures \cup {None}]
  /\ started \in [Calls -> Nat]
  /\ led \in [Calls -> [at : Nat, clears : Nat] \cup {None}]
  /\ reports \in [Calls -> BOOLEAN]

Init ==
  /\ now = 0
  /\ served = 0
  /\ retired = [v \in Versions |-> None]
  /\ store = [s \in Stores |-> None]
  /\ inflight = [i \in Caches |-> None]
  /\ clears = [i \in Caches |-> 0]
  /\ clearing = {}
  /\ pc = [c \in Calls |-> "idle"]
  /\ via = [c \in Calls |-> None]
  /\ op = [c \in Calls |-> None]
  /\ entry = [c \in Calls |-> None]
  /\ attempt = [c \in Calls |-> 0]
  /\ timer = [c \in Calls |-> 0]
  /\ reply = [c \in Calls |-> None]
  /\ leader = [c \in Calls |-> None]
  /\ outcome = [c \in Calls |-> None]
  /\ started = [c \in Calls |-> 0]
  /\ led = [c \in Calls |-> None]
  /\ reports = [c \in Calls |-> FALSE]

-----------------------------------------------------------------------------
(* getKeys and refresh *)

Goto(c, place, deadline) ==
  /\ pc' = [pc EXCEPT ![c] = place]
  /\ timer' = [timer EXCEPT ![c] = deadline]

Start(c, i, o) ==
  /\ pc[c] = "idle"
  /\ now <= LastStart
  /\ via' = [via EXCEPT ![c] = i]
  /\ op' = [op EXCEPT ![c] = o]
  /\ Goto(c, "reading", now + StoreMs)
  /\ started' = [started EXCEPT ![c] = now]
  /\ UNCHANGED <<now, endpointVars, cacheVars, entry, fetchVars,
                 leader, outcome, led>>

(* A get that throws reads as a missing entry. *)
StoreGet(c) ==
  /\ pc[c] = "reading"
  /\ pc' = [pc EXCEPT ![c] = "read"]
  /\ \E e \in {store[StoreFor(c)]} \cup IF StoreMayFail THEN {None} ELSE {} :
       entry' = [entry EXCEPT ![c] = e]
  /\ UNCHANGED <<now, endpointVars, cacheVars, argVars, fetchVars, timer,
                 leader, outcome, started, led>>

(* The age below which a cached entry is returned. *)
Limit(c) == IF op[c] = "getKeys" THEN ttlMs ELSE minRefreshIntervalMs

(* Mutant: getKeys leaves it to the adapter to drop what is too old. *)
UsableUntilDropped(c) ==
  /\ entry[c] # None
  /\ op[c] = "refresh" => now - entry[c].fetchedAt < Limit(c)

(* Mutant: the two limits are swapped. *)
UsableLimitsSwapped(c) ==
  /\ entry[c] # None
  /\ now - entry[c].fetchedAt <
       IF op[c] = "refresh" THEN ttlMs ELSE minRefreshIntervalMs

Usable(c) ==
  /\ entry[c] # None
  /\ now - entry[c].fetchedAt < Limit(c)

Hit(c) ==
  /\ pc[c] = "read"
  /\ Usable(c)
  /\ pc' = [pc EXCEPT ![c] = "returned"]
  /\ outcome' = [outcome EXCEPT ![c] = entry[c].version]
  /\ UNCHANGED <<now, endpointVars, cacheVars, argVars, entry, fetchVars, timer,
                 leader, started, led>>

(* Mutant: what is registered is not looked at. *)
ExistingIgnored(c) == None

(* The promise registered for the URI. *)
Existing(c) == inflight[via[c]]

Join(c) ==
  /\ pc[c] = "read"
  /\ ~Usable(c)
  /\ Existing(c) # None
  /\ pc' = [pc EXCEPT ![c] = "joined"]
  /\ leader' = [leader EXCEPT ![c] = Existing(c)]
  /\ UNCHANGED <<now, endpointVars, cacheVars, argVars, entry, fetchVars, timer,
                 outcome, started, led>>

(* With maxRetries = 0 the loop body never runs and null is thrown. *)
Lead(c) ==
  /\ pc[c] = "read"
  /\ ~Usable(c)
  /\ Existing(c) = None
  /\ inflight' = [inflight EXCEPT ![via[c]] = c]
  /\ led' = [led EXCEPT ![c] = [at |-> now, clears |-> clears[via[c]]]]
  /\ IF maxRetries > 0
     THEN Goto(c, "sent", now + timeoutMs) /\ UNCHANGED outcome
     ELSE Goto(c, "settled", now) /\ outcome' = [outcome EXCEPT ![c] = Fatal]
  /\ UNCHANGED <<now, endpointVars, store, clears, clearing, argVars, entry,
                 fetchVars, leader, started>>

-----------------------------------------------------------------------------
(* fetchWithRetry and fetchOnce *)

(* Mutants: one attempt too many, and no retry. *)
RetriesOnceMore(c, failure) == failure = Transient /\ attempt[c] < maxRetries
RetriesNever(c, failure) == FALSE

(* The catch block of the retry loop: isRetryable and attempts are left. *)
Retries(c, failure) == failure = Transient /\ attempt[c] < maxRetries - 1

FailAttempt(c, failure) ==
  IF Retries(c, failure)
  THEN /\ Goto(c, "sleeping", now + Backoff(attempt[c]))
       /\ UNCHANGED outcome
  ELSE /\ Goto(c, "settled", now)
       /\ outcome' = [outcome EXCEPT ![c] = failure]

(* Mutant: a kid that disappears is not a rotation. *)
RotatedIfAdded(c, v) == entry[c] # None /\ Kids[v] \ Kids[entry[c].version] # {}

(* What the new key set is compared with, and whether the callback is called. *)
Rotated(c, v) == entry[c] # None /\ Kids[entry[c].version] # Kids[v]

Fetched(c) == [version |-> reply[c], fetchedAt |-> now]

ReceiveKeys(c) ==
  /\ pc[c] = "answered"
  /\ reply[c] \in Versions
  /\ reports' = [reports EXCEPT ![c] = Rotated(c, reply[c])]
  /\ Goto(c, "writing", now + StoreMs)
  /\ entry' = [entry EXCEPT ![c] = Fetched(c)]
  /\ UNCHANGED <<now, endpointVars, cacheVars, argVars, attempt, reply,
                 leader, outcome, started, led>>

(* An exception of onKeyRotation is caught as a failed attempt. *)
CallbackThrows(c) ==
  /\ CallbackMayThrow
  /\ pc[c] = "answered"
  /\ reply[c] \in Versions
  /\ Rotated(c, reply[c])
  /\ reports' = [reports EXCEPT ![c] = TRUE]
  /\ FailAttempt(c, Transient)
  /\ UNCHANGED <<now, endpointVars, cacheVars, argVars, entry, attempt, reply,
                 leader, started, led>>

ReceiveError(c) ==
  /\ pc[c] = "answered"
  /\ reply[c] \in Failures
  /\ FailAttempt(c, reply[c])
  /\ UNCHANGED <<now, endpointVars, cacheVars, argVars, entry, fetchVars,
                 leader, started, led>>

(* controller.abort() *)
Abort(c) ==
  /\ pc[c] \in {"sent", "answered"}
  /\ now = timer[c]
  /\ FailAttempt(c, Transient)
  /\ UNCHANGED <<now, endpointVars, cacheVars, argVars, entry, fetchVars,
                 leader, started, led>>

Wake(c) ==
  /\ pc[c] = "sleeping"
  /\ now = timer[c]
  /\ Goto(c, "sent", now + timeoutMs)
  /\ attempt' = [attempt EXCEPT ![c] = @ + 1]
  /\ reply' = [reply EXCEPT ![c] = None]
  /\ reports' = [reports EXCEPT ![c] = FALSE]
  /\ UNCHANGED <<now, endpointVars, cacheVars, argVars, entry, leader, outcome,
                 started, led>>

(* A set that throws is swallowed: the keys are returned all the same. *)
StoreSet(c) ==
  /\ pc[c] = "writing"
  /\ \/ store' = [store EXCEPT ![StoreFor(c)] = entry[c]]
     \/ StoreMayFail /\ UNCHANGED store
  /\ pc' = [pc EXCEPT ![c] = "settled"]
  /\ outcome' = [outcome EXCEPT ![c] = entry[c].version]
  /\ UNCHANGED <<now, endpointVars, inflight, clears, clearing, argVars, entry,
                 fetchVars, timer, leader, started, led>>

(* Mutants: no fetch is deregistered, or only one that succeeded. *)
DeregisteredNever(c) == inflight

DeregisteredOnSuccess(c) ==
  IF outcome[c] \in Versions THEN [inflight EXCEPT ![via[c]] = None] ELSE inflight

Deregistered(c) == [inflight EXCEPT ![via[c]] = None]

(* The promise settles; its creator, first to await it, deletes the        *)
(* registration by URI, whichever promise is registered by now.            *)
Finally(c) ==
  /\ pc[c] = "settled"
  /\ inflight' = Deregistered(c)
  /\ pc' = [pc EXCEPT ![c] = "returned"]
  /\ UNCHANGED <<now, endpointVars, store, clears, clearing, argVars, entry,
                 fetchVars, timer, leader, outcome, started, led>>

(* Mutant: a joiner is told only while the promise is registered. *)
SettledIfRegistered(l) == pc[l] = "settled" /\ inflight[via[l]] = l

(* The promise has settled for those that joined it. *)
Settled(l) == pc[l] = "returned"

Resume(c) ==
  /\ pc[c] = "joined"
  /\ Settled(leader[c])
  /\ pc' = [pc EXCEPT ![c] = "returned"]
  /\ outcome' = [outcome EXCEPT ![c] = outcome[leader[c]]]
  /\ UNCHANGED <<now, endpointVars, cacheVars, argVars, entry, fetchVars, timer,
                 leader, started, led>>

-----------------------------------------------------------------------------
(* clear *)

(* inflight.clear() and the call of store.clear are one turn; a memory     *)
(* store is empty at its end, and is read and written in the turn that     *)
(* calls get and set.  Bound: one clear per instance at a time, MaxClears  *)
(* in all.                                                                 *)
Clear(i) ==
  /\ clears[i] < MaxClears
  /\ i \notin clearing
  /\ SyncStore => \A c \in Calls : pc[c] \notin {"reading", "writing"}
  /\ clears' = [clears EXCEPT ![i] = @ + 1]
  /\ inflight' = [inflight EXCEPT ![i] = None]
  /\ IF SyncStore
     THEN store' = [store EXCEPT ![StoreOf[i]] = None] /\ UNCHANGED clearing
     ELSE clearing' = clearing \cup {i} /\ UNCHANGED store
  /\ UNCHANGED <<now, endpointVars, callVars>>

(* The adapter's clear takes effect, or fails, or does not exist. *)
StoreClear(i) ==
  /\ i \in clearing
  /\ clearing' = clearing \ {i}
  /\ \/ store' = [store EXCEPT ![StoreOf[i]] = None]
     \/ StoreMayFail /\ UNCHANGED store
  /\ UNCHANGED <<now, endpointVars, inflight, clears, callVars>>

-----------------------------------------------------------------------------
(* The world outside *)

(* The endpoint answers a request with what it serves, or with an error. *)
Answer(c) ==
  /\ pc[c] = "sent"
  /\ pc' = [pc EXCEPT ![c] = "answered"]
  /\ \E r \in {served} \cup IF EndpointMayFail THEN Failures ELSE {} :
       reply' = [reply EXCEPT ![c] = r]
  /\ UNCHANGED <<now, endpointVars, cacheVars, argVars, entry, attempt, reports,
                 timer, leader, outcome, started, led>>

Rotate ==
  /\ served < LastVersion
  /\ served' = served + 1
  /\ retired' = [retired EXCEPT ![served] = now]
  /\ UNCHANGED <<now, cacheVars, callVars>>

(* A store that expires entries itself uses the ttlMs it was given. *)
Expire(s) ==
  /\ ~SyncStore
  /\ store[s] # None
  /\ now - store[s].fetchedAt >= ttlMs
  /\ store' = [store EXCEPT ![s] = None]
  /\ UNCHANGED <<now, endpointVars, inflight, clears, clearing, callVars>>

(* No wait is overrun: timers fire and adapters answer when they are due,  *)
(* and a continuation that is ready runs before the clock moves.           *)
Due(c) ==
  \/ pc[c] \in Waiting /\ now >= timer[c]
  \/ pc[c] = "joined" /\ Settled(leader[c])

Tick ==
  /\ \A c \in Calls : ~Due(c)
  /\ now < LastStart \/ \E c \in Calls : pc[c] \in Waiting
  /\ now' = now + 1
  /\ UNCHANGED <<endpointVars, cacheVars, callVars>>

Terminated ==
  /\ now >= LastStart
  /\ clearing = {}
  /\ \A c \in Calls : pc[c] \in {"idle", "returned"}
  /\ UNCHANGED vars

-----------------------------------------------------------------------------
(* What the call does by itself once it has begun. *)
Progress(c) ==
  \/ StoreGet(c) \/ Hit(c) \/ Join(c) \/ Lead(c)
  \/ ReceiveKeys(c) \/ CallbackThrows(c) \/ ReceiveError(c) \/ Abort(c) \/ Wake(c)
  \/ StoreSet(c) \/ Finally(c) \/ Resume(c)

(* With a memory store the two turns from get to the look at inflight end  *)
(* before the four turns from another call's set to its finally, so what   *)
(* a call reads is still there when it acts on it.                         *)
Turn(c) ==
  SyncStore => \A d \in Calls \ {c} : pc[d] \notin {"reading", "read", "writing"}

Step(c) ==
  Turn(c) /\ (Progress(c) \/ \E i \in Caches, o \in Ops : Start(c, i, o))

Next ==
  \/ \E c \in Calls : Step(c) \/ Answer(c)
  \/ \E i \in Caches : Clear(i) \/ StoreClear(i)
  \/ \E s \in Stores : Expire(s)
  \/ Rotate
  \/ Tick
  \/ Terminated

Spec == Init /\ [][Next]_vars

(* The event loop runs every ready continuation and the clock advances.    *)
(* Nothing makes the endpoint answer or a caller call.                     *)
Fairness ==
  /\ \A c \in Calls : WF_vars(Turn(c) /\ Progress(c))
  /\ WF_vars(Tick)

FairSpec == Spec /\ Fairness

-----------------------------------------------------------------------------
(***************************************************************************)
(* Safety.                                                                 *)
(***************************************************************************)

(* A registered promise is one its creator still drives: the finally of    *)
(* fetchDeduplicated never leaves a settled promise behind, which every    *)
(* later call would be answered with.                                      *)
InflightIsLive ==
  \A i \in Caches : inflight[i] # None =>
    pc[inflight[i]] \in Leading /\ via[inflight[i]] = i

(* Deduplication: two fetches of one instance that began between the same  *)
(* two clear() calls are the same fetch.                                   *)
OneFetchPerEpoch ==
  \A c, d \in Calls :
    /\ pc[c] \in Fetching /\ pc[d] \in Fetching
    /\ via[c] = via[d]
    /\ led[c].clears = led[d].clears
    => c = d

(* How old a returned key set may be: with retired[v] the time version v   *)
(* was rotated out, getKeys returns no v retired more than ttlMs before    *)
(* the call (minRefreshIntervalMs for refresh), plus the timeoutMs a       *)
(* response may take.  A call that joins a fetch inherits keys that may    *)
(* have waited StoreMs in store.set.                                       *)
WindowOf(limit) == (IF limit > StoreMs THEN limit ELSE StoreMs) + timeoutMs

StalenessBound(c) == WindowOf(Limit(c))

BoundedStaleness ==
  \A c \in Calls :
    /\ pc[c] = "returned"
    /\ outcome[c] \in Versions
    /\ retired[outcome[c]] # None
    => retired[outcome[c]] + StalenessBound(c) >= started[c]

(* A call rejects only with what a fetch ended with: its own or its        *)
(* leader's, after maxRetries attempts or after an error that is not       *)
(* retried.  No failure of the store rejects a call.                       *)
RejectionEarned ==
  \A c \in Calls : outcome[c] \in Failures =>
    LET f == IF leader[c] = None THEN c ELSE leader[c] IN
    /\ led[f] # None
    /\ outcome[c] = Transient => attempt[f] = maxRetries - 1
    /\ outcome[c] = Fatal => maxRetries = 0 \/ reply[f] = Fatal

(* The longest a fetch may last: every attempt times out and every backoff *)
(* is slept, which is backoffMs * (1 + 2 + ... + 2^(maxRetries - 2)).      *)
FetchMs ==
  IF maxRetries = 0 THEN 0
  ELSE maxRetries * timeoutMs + Backoff(maxRetries - 1) - Backoff(0)

(* No call lasts longer than the read of the store, one fetch and the      *)
(* write, when the adapter answers within StoreMs.                         *)

BoundedLatency ==
  \A c \in Calls :
    pc[c] \notin {"idle", "returned"} => now <= started[c] + FetchMs + 2 * StoreMs

(* To its callers the cache is a KeySource: each call begins once and is    *)
(* answered once, with a rejection or with keys the endpoint has published *)
(* and has not withdrawn longer before the call than the call allows,      *)
(* whoever fetched them and whatever the adapter, other instances and      *)
(* clear() do in between.                                                  *)
Source ==
  INSTANCE KeySource WITH
    Window <- [o \in Ops |->
                 IF o = "getKeys" THEN WindowOf(ttlMs) ELSE WindowOf(minRefreshIntervalMs)],
    wanted <- op,
    since  <- started,
    answer <- [c \in Calls |-> IF pc[c] = "returned" THEN outcome[c] ELSE None]

ImplementsKeySource == Source!Spec

(***************************************************************************)
(* What a step may never do.                                               *)
(***************************************************************************)
Begins(c) == led[c] = None /\ led'[c] # None

(* A fetch begins only when the last key set fetched by the instance is    *)
(* older than the limit of the call: ttlMs for getKeys and                 *)
(* minRefreshIntervalMs for refresh ("one fetch per TTL").                 *)
FetchSpacing ==
  [][\A c, d \in Calls :
       /\ Begins(d)
       /\ led[c] # None /\ via[c] = via[d]
       /\ pc[c] = "returned" /\ outcome[c] \in Versions
       => now - entry[c].fetchedAt >= Limit(d)]_vars

(* "Within minRefreshIntervalMs of the last fetch [refresh] returns the    *)
(* cached keys instead, so unknown kid values cannot force a fetch per     *)
(* request": with keys cached, no refresh begins a fetch within            *)
(* minRefreshIntervalMs of the beginning of an earlier one.                *)
RefreshCooldown ==
  [][\A c, d \in Calls :
       /\ Begins(d) /\ op[d] = "refresh" /\ entry[d] # None
       /\ led[c] # None /\ via[c] = via[d]
       => now - led[c].at >= minRefreshIntervalMs]_vars

(* onKeyRotation: when a write replaces stored keys, the attempt that      *)
(* fetched them called it if and only if the kids changed.                 *)
RotationReported ==
  [][\A c \in Calls :
       LET s == StoreFor(c) IN
       /\ pc[c] = "writing" /\ pc'[c] = "settled"
       /\ store[s] # None
       => (reports[c] <=> Kids[store[s].version] # Kids[entry[c].version])]_vars

(* A store never goes back to a key set fetched earlier.                   *)
StoreNeverRegresses ==
  [][\A s \in Stores :
       store[s] # None /\ store'[s] # None =>
         /\ store'[s].fetchedAt >= store[s].fetchedAt
         /\ store'[s].version >= store[s].version]_vars

(***************************************************************************)
(* Liveness.                                                               *)
(***************************************************************************)

(* Every call returns or rejects, although the endpoint may never answer   *)
(* and a promise it joined may be dropped from inflight by clear().        *)
AllCallsReturn == \A c \in Calls : pc[c] = "reading" ~> pc[c] = "returned"
=============================================================================
