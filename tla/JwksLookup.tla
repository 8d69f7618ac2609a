------------------------------ MODULE JwksLookup ------------------------------
(***************************************************************************)
(* How a verification by jwksUri obtains its keys: fetchJwksKeys, and the  *)
(* default cache of getDefaultJwksCache and clearJwksCache, of             *)
(* src/vendors/jwks/jwks.ts, composed with JwksCache.                      *)
(*                                                                         *)
(* A lookup is one run of fetchJwksKeys.  It calls getKeys, and refresh    *)
(* when the set it gets lacks the kid of the token.  Each `new JwksCache`  *)
(* of getDefaultJwksCache takes an unused element of Defaults.             *)
(***************************************************************************)
EXTENDS JwksCache

CONSTANTS
  Lookups,           \* runs of fetchJwksKeys
  GetOf, RefreshOf,  \* the two cache calls a lookup may make
  Supplied,          \* instances a caller passes as opts.jwksCache
  TokenKids,         \* values of header.kid; None: the token has no kid
  LastBegin          \* bound: no lookup begins after this time

Defaults == Caches \ Supplied

ASSUME LookupAssumption ==
  /\ GetOf \in [Lookups -> Calls]
  /\ RefreshOf \in [Lookups -> Calls]
  /\ \A v, w \in Lookups :
       /\ GetOf[v] # RefreshOf[w]
       /\ v # w => GetOf[v] # GetOf[w] /\ RefreshOf[v] # RefreshOf[w]
  /\ Supplied \subseteq Caches
  /\ \A i \in Defaults, j \in Caches : StoreOf[i] = StoreOf[j] => i = j
  /\ LastBegin \in Nat

VARIABLES
  phase,    \* where each lookup is
  wanted,   \* header.kid of its token
  result,   \* the key set it ended with, a failure, or None
  default,  \* defaultJwksCache
  used,     \* default instances created so far
  cleared,  \* history: when clearJwksCache was last called, or 0
  since     \* history: cleared when the lookup began

lookupVars == <<phase, wanted, result, default, used, cleared, since>>
allVars    == <<vars, lookupVars>>

Phases == {"idle", "getting", "refreshing", "done"}

LookupTypeOK ==
  /\ TypeOK
  /\ phase \in [Lookups -> Phases]
  /\ wanted \in [Lookups -> TokenKids \cup {None}]
  /\ result \in [Lookups -> Versions \cup Failures \cup {None}]
  /\ default \in Defaults \cup {None}
  /\ used \subseteq Defaults
  /\ cleared \in Nat
  /\ since \in [Lookups -> Nat]

LookupInit ==
  /\ Init
  /\ phase = [v \in Lookups |-> "idle"]
  /\ wanted = [v \in Lookups |-> None]
  /\ result = [v \in Lookups |-> None]
  /\ default = None
  /\ used = {}
  /\ cleared = 0
  /\ since = [v \in Lookups |-> 0]

-----------------------------------------------------------------------------
(* What getDefaultJwksCache may return: the instance there is, or a new one. *)
DefaultCache == IF default # None THEN {default} ELSE Defaults \ used

(* `opts.jwksCache ?? getDefaultJwksCache()`, then getKeys. *)
Begin(v) ==
  /\ phase[v] = "idle"
  /\ now <= LastBegin
  /\ phase' = [phase EXCEPT ![v] = "getting"]
  /\ \E k \in TokenKids : wanted' = [wanted EXCEPT ![v] = k]
  /\ since' = [since EXCEPT ![v] = cleared]
  /\ \/ \E i \in Supplied :
          Start(GetOf[v], i, "getKeys") /\ UNCHANGED <<default, used>>
     \/ \E i \in DefaultCache :
          /\ Start(GetOf[v], i, "getKeys")
          /\ default' = i
          /\ used' = used \cup {i}
  /\ UNCHANGED <<result, cleared>>

(* Mutant: an unknown kid is left to the verifier. *)
LacksNever(v, keys) == FALSE

(* The token has a kid and no key of the set has that kid. *)
Lacks(v, keys) == wanted[v] # None /\ wanted[v] \notin Kids[keys]

Ends(v, value) ==
  /\ phase' = [phase EXCEPT ![v] = "done"]
  /\ result' = [result EXCEPT ![v] = value]

(* getKeys has rejected, or the set it returned will do. *)
Got(v) ==
  LET got == outcome[GetOf[v]] IN
  /\ phase[v] = "getting"
  /\ pc[GetOf[v]] = "returned"
  /\ got \in Versions => ~Lacks(v, got)
  /\ Ends(v, got)
  /\ UNCHANGED <<vars, wanted, default, used, cleared, since>>

(* "The issuer may have rotated keys since the set was cached." *)
Retry(v) ==
  LET got == outcome[GetOf[v]] IN
  /\ phase[v] = "getting"
  /\ pc[GetOf[v]] = "returned"
  /\ got \in Versions
  /\ Lacks(v, got)
  /\ Start(RefreshOf[v], via[GetOf[v]], "refresh")
  /\ phase' = [phase EXCEPT ![v] = "refreshing"]
  /\ UNCHANGED <<wanted, result, default, used, cleared, since>>

Refreshed(v) ==
  /\ phase[v] = "refreshing"
  /\ pc[RefreshOf[v]] = "returned"
  /\ Ends(v, outcome[RefreshOf[v]])
  /\ UNCHANGED <<vars, wanted, default, used, cleared, since>>

(* Mutant: the cache is emptied but stays the default. *)
SuccessorKept == default

(* The default cache after clearJwksCache: none, the next lookup makes one. *)
Successor == None

(* clearJwksCache.  Bound: at most Cardinality(Defaults) - 1 times. *)
ClearDefault ==
  /\ default # None
  /\ used # Defaults
  /\ Clear(default)
  /\ default' = Successor
  /\ cleared' = now
  /\ UNCHANGED <<phase, wanted, result, used, since>>

-----------------------------------------------------------------------------
(* A lookup whose call has returned goes on before the clock moves. *)
LookupDue(v) ==
  \/ phase[v] = "getting" /\ pc[GetOf[v]] = "returned"
  \/ phase[v] = "refreshing" /\ pc[RefreshOf[v]] = "returned"

LookupTick ==
  /\ \A v \in Lookups : ~LookupDue(v)
  /\ Tick
  /\ UNCHANGED lookupVars

LookupTerminated ==
  /\ Terminated
  /\ \A v \in Lookups : phase[v] \in {"idle", "done"}
  /\ UNCHANGED lookupVars

Continue(v) ==
  \/ Got(v) \/ Refreshed(v)
  \/ Turn(RefreshOf[v]) /\ Retry(v)

LookupNext ==
  \/ \E v \in Lookups : Turn(GetOf[v]) /\ Begin(v)
  \/ \E v \in Lookups : Continue(v)
  \/ \E c \in Calls : Turn(c) /\ Progress(c) /\ UNCHANGED lookupVars
  \/ \E c \in Calls : Answer(c) /\ UNCHANGED lookupVars
  \/ ClearDefault
  \/ Rotate /\ UNCHANGED lookupVars
  \/ LookupTick
  \/ LookupTerminated

LookupSpec == LookupInit /\ [][LookupNext]_allVars

(* As in JwksCache; a lookup goes on when the call it awaits has returned. *)
LookupFairness ==
  /\ \A v \in Lookups : WF_allVars(Continue(v))
  /\ \A c \in Calls : WF_allVars(Turn(c) /\ Progress(c) /\ UNCHANGED lookupVars)
  /\ WF_allVars(LookupTick)

FairLookupSpec == LookupSpec /\ LookupFairness

-----------------------------------------------------------------------------
(* A lookup ends without the kid of its token only if the endpoint served  *)
(* a set without it at most minRefreshIntervalMs + timeoutMs before the    *)
(* lookup began: a rotation stays invisible no longer than that, whatever  *)
(* was cached and whichever fetch the lookup joined.                       *)
RotationVisible ==
  \A v \in Lookups :
    /\ phase[v] = "done"
    /\ result[v] \in Versions
    /\ wanted[v] # None /\ wanted[v] \notin Kids[result[v]]
    /\ retired[result[v]] # None
    => retired[result[v]] + StalenessBound(RefreshOf[v]) >= started[GetOf[v]]

(* A verification by the default cache that begins after clearJwksCache    *)
(* never uses keys withdrawn before it, although a fetch that was under    *)
(* way may still write the old set: it writes to the discarded cache.      *)
FreshAfterClear ==
  \A v \in Lookups :
    /\ phase[v] = "done"
    /\ via[GetOf[v]] \in Defaults
    /\ result[v] \in Versions
    /\ retired[result[v]] # None
    => retired[result[v]] >= since[v]

(* A verification waits for its keys no longer than two calls of the cache *)
(* may last, although getKeys may have joined a fetch and refresh another. *)
LookupLatency ==
  \A v \in Lookups :
    phase[v] \in {"getting", "refreshing"} =>
      now <= started[GetOf[v]] + 2 * (FetchMs + 2 * StoreMs)

(* Every lookup ends, with keys or with an error, whatever is cleared      *)
(* meanwhile and although the endpoint may not answer.                     *)
LookupsEnd == \A v \in Lookups : phase[v] = "getting" ~> phase[v] = "done"
=============================================================================
