--------------------------- MODULE JwksLookupProofs ---------------------------
(***************************************************************************)
(* Proofs about JwksLookup for every value of its constants: any number of *)
(* lookups over any number of default and supplied caches.                 *)
(***************************************************************************)
EXTENDS JwksLookup, TimingProofs

-----------------------------------------------------------------------------
(***************************************************************************)
(* Lookups use the caches as any caller may: what is proved of JwksCache   *)
(* holds of the composition.                                               *)
(***************************************************************************)
DefaultInv == default \in Defaults \cup {None}

LEMMA BeginIsStart ==
  ASSUME DefaultInv, NEW v \in Lookups, Begin(v)
  PROVE  /\ \E i \in Caches : Start(GetOf[v], i, "getKeys")
         /\ DefaultInv'
<1>1. Supplied \subseteq Caches /\ Defaults \subseteq Caches /\ DefaultCache \subseteq Defaults
  BY LookupAssumption DEF Defaults, DefaultInv, DefaultCache
<1>2. CASE \E i \in Supplied : Start(GetOf[v], i, "getKeys") /\ UNCHANGED <<default, used>>
  BY <1>1, <1>2 DEF DefaultInv
<1>3. CASE \E i \in DefaultCache : Start(GetOf[v], i, "getKeys") /\ default' = i
  BY <1>1, <1>3 DEF DefaultInv
<1>4. QED  BY <1>2, <1>3 DEF Begin

(* A step of the composition is a step of the caches, or none of theirs.   *)
LEMMA Simulates ==
  ASSUME TypeInv, DefaultInv, [LookupNext]_allVars
  PROVE  [Next]_vars /\ DefaultInv'
<1>1. \A v \in Lookups : GetOf[v] \in Calls /\ RefreshOf[v] \in Calls
  BY LookupAssumption
<1>2. ASSUME NEW v \in Lookups, Turn(GetOf[v]), Begin(v)
      PROVE  [Next]_vars /\ DefaultInv'
  <2>1. DefaultInv' /\ Step(GetOf[v])
    BY <1>2, BeginIsStart DEF Step, Ops
  <2>2. QED  BY <1>1, <2>1 DEF Next
<1>3. ASSUME NEW v \in Lookups, Continue(v)
      PROVE  [Next]_vars /\ DefaultInv'
  <2>1. UNCHANGED default
    BY <1>3 DEF Continue, Got, Refreshed, Retry
  <2>2. CASE Got(v) \/ Refreshed(v)
    BY <2>1, <2>2 DEF Got, Refreshed, DefaultInv
  <2>3. CASE Turn(RefreshOf[v]) /\ Retry(v)
    <3>1. via[GetOf[v]] \in Caches
      BY <1>1, <2>3 DEF Retry, TypeInv, PlaceInv
    <3>2. Step(RefreshOf[v])
      BY <2>3, <3>1 DEF Retry, Step, Ops
    <3>3. QED  BY <1>1, <2>1, <3>2 DEF Next, DefaultInv
  <2>4. QED  BY <1>3, <2>2, <2>3 DEF Continue
<1>4. ASSUME NEW c \in Calls, (Turn(c) /\ Progress(c)) \/ Answer(c), UNCHANGED lookupVars
      PROVE  [Next]_vars /\ DefaultInv'
  BY <1>4 DEF Next, Step, lookupVars, DefaultInv
<1>5. ASSUME ClearDefault PROVE [Next]_vars /\ DefaultInv'
  BY <1>5 DEF ClearDefault, Successor, DefaultInv, Defaults, Next
<1>6. ASSUME Rotate \/ Tick \/ Terminated \/ UNCHANGED vars, UNCHANGED lookupVars
      PROVE  [Next]_vars /\ DefaultInv'
  BY <1>6 DEF Next, lookupVars, DefaultInv
<1>7. QED
  BY <1>2, <1>3, <1>4, <1>5, <1>6
     DEF LookupNext, LookupTick, LookupTerminated, allVars

LEMMA CachesCorrect == LookupSpec => [](IInv /\ DefaultInv)
<1>1. LookupInit => IInv /\ DefaultInv
  BY InitIInv DEF LookupInit, DefaultInv
<1>2. IInv /\ DefaultInv /\ [LookupNext]_allVars => IInv' /\ DefaultInv'
  BY Simulates, AgeCorrect, NextRegistry, NextStale DEF IInv, AgeInv
<1>3. QED  BY <1>1, <1>2, PTL DEF LookupSpec

(* The composition implements JwksCache: whatever the lookups do is what   *)
(* callers of getKeys and refresh may do, so every safety property of the  *)
(* caches holds when fetchJwksKeys drives them.                            *)
THEOREM LookupImplementsCache == LookupSpec => Spec
<1>1. LookupInit => Init
  BY DEF LookupInit
<1>2. IInv /\ DefaultInv /\ [LookupNext]_allVars => [Next]_vars
  BY Simulates DEF IInv, AgeInv
<1>3. QED  BY <1>1, <1>2, CachesCorrect, PTL DEF LookupSpec, Spec

-----------------------------------------------------------------------------
(***************************************************************************)
(* Rotation.  The second call of a lookup is a refresh that began after    *)
(* the lookup; a lookup that ends without its kid ends with its result.    *)
(***************************************************************************)
Asked(v) ==
  /\ pc[RefreshOf[v]] # "idle"
  /\ op[RefreshOf[v]] = "refresh"
  /\ started[GetOf[v]] <= started[RefreshOf[v]]

Unanswered(v) ==
  /\ result[v] \in Versions
  /\ wanted[v] # None /\ wanted[v] \notin Kids[result[v]]

LookupTypes ==
  /\ phase \in [Lookups -> Phases]
  /\ wanted \in [Lookups -> TokenKids \cup {None}]
  /\ result \in [Lookups -> Versions \cup Failures \cup {None}]

AskInv ==
  \A v \in Lookups :
    /\ phase[v] # "idle" => pc[GetOf[v]] # "idle"
    /\ phase[v] = "refreshing" => Asked(v)
    /\ phase[v] = "done" /\ Unanswered(v) =>
         /\ Asked(v)
         /\ pc[RefreshOf[v]] = "returned" /\ outcome[RefreshOf[v]] = result[v]

(* What a step of d leaves alone in the other calls. *)
LEMMA OthersKept ==
  ASSUME TypeInv, NEW d \in Calls, Starts(d) \/ Progress(d) \/ Answer(d)
  PROVE  \A c \in Calls \ {d} : reply'[c] = reply[c] /\ via'[c] = via[c]
<1> USE DEF endpointVars, cacheVars, fetchVars, argVars
<1>1. CASE Starts(d)
  BY <1>1 DEF Starts, Start, TypeInv, TypeOK
<1>2. CASE Progress(d) \/ Answer(d)
  BY <1>2 DEF Progress, StoreGet, Hit, Join, Lead, ReceiveKeys, CallbackThrows, ReceiveError,
       Abort, Wake, StoreSet, Finally, Resume, Answer, TypeInv, TypeOK
<1>3. QED  BY <1>1, <1>2

(* What a call that has begun keeps. *)
LEMMA CallKept ==
  ASSUME TypeInv, [Next]_vars, NEW c \in Calls, pc[c] # "idle"
  PROVE  /\ pc'[c] # "idle" /\ op'[c] = op[c] /\ via'[c] = via[c]
         /\ started'[c] = started[c]
         /\ pc[c] = "returned" => pc'[c] = "returned" /\ outcome'[c] = outcome[c]
<1> USE DEF endpointVars, cacheVars, fetchVars, argVars
<1>1. ASSUME NEW d \in Calls, Starts(d) \/ Progress(d) \/ Answer(d)
      PROVE  /\ pc'[c] # "idle" /\ op'[c] = op[c] /\ via'[c] = via[c]
             /\ started'[c] = started[c]
             /\ pc[c] = "returned" => pc'[c] = "returned" /\ outcome'[c] = outcome[c]
  <2>1. CASE d # c
    BY <1>1, <2>1, CallFrame, OthersKept DEF Frame
  <2>2. CASE d = c
    <3>1. ~Starts(d)
      BY <2>2 DEF Starts, Start
    <3>2. pc[d] \notin {"idle", "returned"} /\ UNCHANGED <<op, via, started>>
      BY <1>1, <3>1 DEF Progress, StoreGet, Hit, Join, Lead, ReceiveKeys, CallbackThrows,
           ReceiveError, Abort, Wake, StoreSet, Finally, Resume, Answer
    <3>3. pc'[d] # "idle"
      BY <1>1, <3>1 DEF Progress, StoreGet, Hit, Join, Lead, ReceiveKeys, CallbackThrows,
           ReceiveError, Abort, Wake, StoreSet, Finally, Resume, Answer, FailAttempt, Goto,
           TypeInv, TypeOK
    <3>4. QED  BY <2>2, <3>2, <3>3
  <2>3. QED  BY <2>1, <2>2
<1>2. ASSUME UNCHANGED callVars
      PROVE  /\ pc'[c] # "idle" /\ op'[c] = op[c] /\ via'[c] = via[c]
             /\ started'[c] = started[c]
             /\ pc[c] = "returned" => pc'[c] = "returned" /\ outcome'[c] = outcome[c]
  BY <1>2 DEF callVars
<1>3. QED
  BY <1>1, <1>2 DEF Next, Step, Starts, Clear, StoreClear, Expire, Rotate, Tick, Terminated, vars

LEMMA NextAsk ==
  ASSUME IInv, DefaultInv, LookupTypes, AskInv, [LookupNext]_allVars
  PROVE  LookupTypes' /\ AskInv'
<1>1. \A v \in Lookups : GetOf[v] \in Calls /\ RefreshOf[v] \in Calls
  BY LookupAssumption
<1>2. TypeInv /\ [Next]_vars
  BY Simulates DEF IInv, AgeInv
<1>3. \A v \in Lookups : Asked(v) /\ pc[GetOf[v]] # "idle" => Asked(v)'
  BY <1>1, <1>2, CallKept DEF Asked
<1>4. ASSUME UNCHANGED <<phase, wanted, result>> PROVE LookupTypes' /\ AskInv'
  <2>1. ASSUME NEW v \in Lookups
        PROVE  /\ phase[v] # "idle" => pc'[GetOf[v]] # "idle"
               /\ phase[v] = "refreshing" => Asked(v)'
               /\ phase[v] = "done" /\ Unanswered(v) =>
                    /\ Asked(v)'
                    /\ pc'[RefreshOf[v]] = "returned"
                    /\ outcome'[RefreshOf[v]] = result[v]
    BY <1>1, <1>2, <1>3, <2>1, CallKept DEF AskInv, Asked
  <2>2. QED  BY <1>4, <2>1 DEF LookupTypes, AskInv, Unanswered
<1>5. ASSUME NEW v \in Lookups, \A w \in Lookups \ {v} :
               phase'[w] = phase[w] /\ wanted'[w] = wanted[w] /\ result'[w] = result[w],
             phase'[v] # "idle" => pc'[GetOf[v]] # "idle",
             phase'[v] = "refreshing" => Asked(v)',
             phase'[v] = "done" /\ Unanswered(v)' =>
               /\ Asked(v)'
               /\ pc'[RefreshOf[v]] = "returned" /\ outcome'[RefreshOf[v]] = result'[v]
      PROVE  AskInv'
  <2>1. ASSUME NEW w \in Lookups \ {v}
        PROVE  /\ phase'[w] # "idle" => pc'[GetOf[w]] # "idle"
               /\ phase'[w] = "refreshing" => Asked(w)'
               /\ phase'[w] = "done" /\ Unanswered(w)' =>
                    /\ Asked(w)'
                    /\ pc'[RefreshOf[w]] = "returned"
                    /\ outcome'[RefreshOf[w]] = result'[w]
    BY <1>1, <1>2, <1>3, <1>5, <2>1, CallKept DEF AskInv, Asked, Unanswered
  <2>2. QED  BY <1>5, <2>1 DEF AskInv
<1>6. ASSUME NEW v \in Lookups, Begin(v) PROVE LookupTypes' /\ AskInv'
  <2>1. pc'[GetOf[v]] = "reading"
    BY <1>1, <1>2, <1>6 DEF Begin, Start, Goto, TypeInv, TypeOK
  <2>2. phase'[v] = "getting" /\ LookupTypes'
    BY <1>6 DEF Begin, LookupTypes, Phases
  <2>3. \A w \in Lookups \ {v} :
          phase'[w] = phase[w] /\ wanted'[w] = wanted[w] /\ result'[w] = result[w]
    BY <1>6 DEF Begin, LookupTypes
  <2>4. QED  BY <1>5, <2>1, <2>2, <2>3
<1>7. ASSUME NEW v \in Lookups, Got(v) PROVE LookupTypes' /\ AskInv'
  <2>1. /\ phase' = [phase EXCEPT ![v] = "done"]
        /\ result' = [result EXCEPT ![v] = outcome[GetOf[v]]]
        /\ UNCHANGED <<vars, wanted>> /\ pc[GetOf[v]] = "returned"
        /\ outcome[GetOf[v]] \in Versions => ~Lacks(v, outcome[GetOf[v]])
    BY <1>7 DEF Got, Ends
  <2>2. LookupTypes'
    BY <1>1, <1>2, <2>1 DEF LookupTypes, Phases, TypeInv, TypeOK
  <2>3. ~Unanswered(v)' /\ phase'[v] = "done"
    BY <2>1 DEF Unanswered, Lacks, LookupTypes
  <2>4. pc'[GetOf[v]] # "idle"
    BY <2>1 DEF vars, callVars
  <2>5. QED  BY <1>5, <2>1, <2>2, <2>3, <2>4 DEF LookupTypes
<1>8. ASSUME NEW v \in Lookups, Retry(v) PROVE LookupTypes' /\ AskInv'
  <2>1. /\ phase' = [phase EXCEPT ![v] = "refreshing"] /\ UNCHANGED <<wanted, result>>
        /\ pc[GetOf[v]] = "returned"
        /\ Start(RefreshOf[v], via[GetOf[v]], "refresh")
    BY <1>8 DEF Retry
  <2>2. LookupTypes'
    BY <2>1 DEF LookupTypes, Phases
  <2>3. started[GetOf[v]] <= now /\ GetOf[v] # RefreshOf[v]
    BY <1>1, LookupAssumption DEF IInv, AgeInv, TimeInv, OnTime
  <2>4. Asked(v)' /\ pc'[GetOf[v]] # "idle"
    BY <1>1, <1>2, <2>1, <2>3 DEF Start, Goto, Asked, argVars, TypeInv, TypeOK
  <2>5. QED  BY <1>5, <2>1, <2>2, <2>4 DEF LookupTypes
<1>9. ASSUME NEW v \in Lookups, Refreshed(v) PROVE LookupTypes' /\ AskInv'
  <2>1. /\ phase' = [phase EXCEPT ![v] = "done"] /\ phase[v] = "refreshing"
        /\ result' = [result EXCEPT ![v] = outcome[RefreshOf[v]]]
        /\ UNCHANGED <<vars, wanted>> /\ pc[RefreshOf[v]] = "returned"
    BY <1>9 DEF Refreshed, Ends
  <2>2. LookupTypes'
    BY <1>1, <1>2, <2>1 DEF LookupTypes, Phases, TypeInv, TypeOK
  <2>3. UNCHANGED <<pc, outcome>> /\ Asked(v) /\ pc[GetOf[v]] # "idle"
    BY <2>1 DEF vars, callVars, AskInv
  <2>4. Asked(v)'
    BY <1>3, <2>3
  <2>5. QED  BY <1>5, <2>1, <2>2, <2>3, <2>4 DEF LookupTypes
<1>10. QED
  BY <1>4, <1>6, <1>7, <1>8, <1>9
     DEF LookupNext, Continue, ClearDefault, LookupTick, LookupTerminated, allVars, lookupVars

(* A key the endpoint publishes becomes visible to every verification      *)
(* within minRefreshIntervalMs + timeoutMs.                                *)
THEOREM RotationIsVisible == LookupSpec => []RotationVisible
<1>1. LookupInit => LookupTypes /\ AskInv
  BY DEF LookupInit, LookupTypes, AskInv, Phases
<1>2. LookupSpec => [](IInv /\ DefaultInv /\ LookupTypes /\ AskInv)
  BY <1>1, NextAsk, CachesCorrect, PTL DEF LookupSpec
<1>3. IInv /\ LookupTypes /\ AskInv => RotationVisible
  <2> SUFFICES ASSUME IInv, LookupTypes, AskInv, NEW v \in Lookups, phase[v] = "done",
                      Unanswered(v), retired[result[v]] # None
               PROVE  retired[result[v]] + StalenessBound(RefreshOf[v]) >= started[GetOf[v]]
    BY DEF RotationVisible, Unanswered
  <2> DEFINE r == RefreshOf[v]
  <2>1. /\ r \in Calls /\ GetOf[v] \in Calls
        /\ pc[r] = "returned" /\ outcome[r] = result[v] /\ result[v] \in Versions
        /\ started[GetOf[v]] <= started[r]
    BY LookupAssumption DEF AskInv, Asked, Unanswered
  <2>2. retired[result[v]] + StalenessBound(r) >= started[r]
    BY <2>1 DEF IInv, BoundedStaleness
  <2>3. retired[result[v]] \in Nat /\ started[r] \in Nat /\ started[GetOf[v]] \in Nat
    BY <2>1 DEF IInv, AgeInv, TypeInv, TypeOK
  <2>4. StalenessBound(r) \in Nat
    BY ConstantsAssumption DEF StalenessBound, WindowOf, Limit
  <2>5. QED  BY <2>1, <2>2, <2>3, <2>4
<1>4. QED  BY <1>2, <1>3, PTL

-----------------------------------------------------------------------------
(***************************************************************************)
(* Clearing.  Every key set in a default cache, in its adapter or in one   *)
(* of its calls, was still served when the cache was created or later.     *)
(***************************************************************************)
Recent(x, t) == x \in Versions /\ retired[x] # None => retired[x] >= t

Has(c, t) ==
  /\ Recent(reply[c], t)
  /\ Recent(outcome[c], t)
  /\ entry[c] # None => Recent(entry[c].version, t)

AtLeast(i, t) ==
  /\ store[StoreOf[i]] # None => Recent(store[StoreOf[i]].version, t)
  /\ \A c \in Calls : via[c] = i => Has(c, t)

(* A call that has not begun has nothing, and one that joined a promise    *)
(* joined it in its own instance.                                          *)
OwnInv ==
  \A c \in Calls :
    /\ pc[c] = "idle" => entry[c] = None /\ reply[c] = None /\ outcome[c] = None
    /\ pc[c] = "joined" => via[leader[c]] = via[c]

LEMMA NextOwn ==
  ASSUME IInv, OwnInv, [Next]_vars
  PROVE  OwnInv'
<1> USE DEF endpointVars, cacheVars, fetchVars, argVars
<1>1. TypeInv /\ RegistryInv
  BY DEF IInv, AgeInv
<1>2. ASSUME NEW d \in Calls, Starts(d) \/ Progress(d) \/ Answer(d) PROVE OwnInv'
  <2>1. pc'[d] # "idle"
    <3>1. CASE Starts(d)
      BY <1>1, <3>1 DEF Starts, Start, Goto, TypeInv, TypeOK
    <3>2. CASE Progress(d) \/ Answer(d)
      <4>1. pc[d] # "idle"
        BY <3>2 DEF Progress, StoreGet, Hit, Join, Lead, ReceiveKeys, CallbackThrows,
             ReceiveError, Abort, Wake, StoreSet, Finally, Resume, Answer
      <4>2. QED  BY <1>1, <4>1, CallKept
    <3>3. QED  BY <1>2, <3>1, <3>2
  <2>2. ASSUME NEW c \in Calls, pc'[c] = "idle"
        PROVE  entry'[c] = None /\ reply'[c] = None /\ outcome'[c] = None
    BY <1>1, <1>2, <2>1, <2>2, CallFrame, OthersKept DEF Frame, OwnInv
  <2>3. ASSUME NEW c \in Calls, pc'[c] = "joined"
        PROVE  via'[leader'[c]] = via'[c]
    <3>1. CASE c = d
      <4>1. Join(d)
        BY <1>1, <1>2, <2>3, <3>1 DEF Starts, Start, Goto, Progress, StoreGet, Hit, Lead,
             ReceiveKeys, CallbackThrows, ReceiveError, Abort, Wake, StoreSet, Finally,
             Resume, Answer, FailAttempt, TypeInv, TypeOK
      <4>2. /\ leader'[d] = inflight[via[d]] /\ via[inflight[via[d]]] = via[d]
            /\ UNCHANGED via
        BY <1>1, <4>1 DEF Join, Existing, RegistryInv, InflightIsLive, TypeInv, TypeOK, PlaceInv
      <4>3. QED  BY <3>1, <4>2
    <3>2. CASE c # d
      <4>1. /\ pc[c] = "joined" /\ leader'[c] = leader[c] /\ via'[c] = via[c]
            /\ leader[c] \in Calls /\ via[leader[c]] = via[c]
        BY <1>1, <1>2, <2>3, <3>2, CallFrame, OthersKept
           DEF Frame, OwnInv, TypeInv, PlaceInv
      <4>2. pc[leader[c]] # "idle"
        BY <4>1 DEF IInv, HandInv, Hands, Leading, Fetching
      <4>3. QED  BY <1>1, <4>1, <4>2, CallKept
    <3>3. QED  BY <3>1, <3>2
  <2>4. QED  BY <2>2, <2>3 DEF OwnInv
<1>3. ASSUME UNCHANGED callVars PROVE OwnInv'
  BY <1>3 DEF callVars, OwnInv
<1>4. QED
  BY <1>2, <1>3 DEF Next, Step, Starts, Clear, StoreClear, Expire, Rotate, Tick, Terminated, vars

(* No step brings an older set into a default cache: what is answered is   *)
(* what the endpoint serves, and everything else is a copy.                *)
LEMMA AtLeastKept ==
  ASSUME IInv, OwnInv, [Next]_vars, NEW i \in Defaults, NEW t \in Nat, t <= now,
         AtLeast(i, t)
  PROVE  AtLeast(i, t)'
<1> USE DEF endpointVars, cacheVars, fetchVars, argVars
<1>1. TypeInv /\ i \in Caches
  BY DEF IInv, AgeInv, Defaults
<1>2. \A x : x \notin Versions => Recent(x, t) /\ Recent(x, t)'
  BY DEF Recent
<1>3. None \notin Versions /\ Transient \notin Versions /\ Fatal \notin Versions
  BY DistinctAssumption, ConstantsAssumption DEF Versions
<1>4. ASSUME NEW d \in Calls, Starts(d) \/ Progress(d) \/ Answer(d),
             via'[d] = i => Has(d, t)',
             store' # store => StoreSet(d)
      PROVE  AtLeast(i, t)'
  <2>1. retired' = retired
    BY <1>1, <1>4, CallFrame DEF Frame
  <2>2. \A x : Recent(x, t) => Recent(x, t)'
    BY <2>1 DEF Recent
  <2>3. ASSUME store'[StoreOf[i]] # None
        PROVE  Recent(store'[StoreOf[i]].version, t)
    <3>1. CASE store' = store
      BY <2>3, <3>1 DEF AtLeast
    <3>2. CASE StoreSet(d) /\ store' # store
      <4>1. /\ via[d] \in Caches /\ entry[d] \in Entries /\ entry[d] # None
            /\ store' = [store EXCEPT ![StoreOf[via[d]]] = entry[d]]
        BY <1>1, <3>2, DistinctAssumption DEF StoreSet, StoreFor, TypeInv, PlaceInv
      <4>2. CASE StoreOf[via[d]] = StoreOf[i]
        <5>1. via[d] = i
          BY <4>1, <4>2, LookupAssumption
        <5>2. store'[StoreOf[i]] = entry[d]
          BY <1>1, <4>1, <4>2, ConstantsAssumption DEF TypeInv, TypeOK
        <5>3. QED  BY <4>1, <5>1, <5>2 DEF AtLeast, Has
      <4>3. CASE StoreOf[via[d]] # StoreOf[i]
        <5>1. store'[StoreOf[i]] = store[StoreOf[i]]
          BY <1>1, <4>1, <4>3, ConstantsAssumption DEF TypeInv, TypeOK
        <5>2. QED  BY <2>3, <5>1 DEF AtLeast
      <4>4. QED  BY <4>2, <4>3
    <3>3. QED  BY <1>4, <3>1, <3>2
  <2>4. ASSUME NEW c \in Calls, via'[c] = i PROVE Has(c, t)'
    <3>1. CASE c = d
      BY <1>4, <2>4, <3>1
    <3>2. CASE c # d
      <4>1. /\ via[c] = i /\ reply'[c] = reply[c] /\ outcome'[c] = outcome[c]
            /\ entry'[c] = entry[c]
        BY <1>1, <1>4, <2>4, <3>2, CallFrame, OthersKept DEF Frame
      <4>2. QED  BY <2>2, <4>1 DEF AtLeast, Has
    <3>3. QED  BY <3>1, <3>2
  <2>5. QED  BY <2>2, <2>3, <2>4 DEF AtLeast
<1>5. ASSUME NEW d \in Calls, Starts(d) PROVE AtLeast(i, t)'
  <2>1. /\ entry'[d] = None /\ reply'[d] = None /\ outcome'[d] = None
        /\ UNCHANGED store
    BY <1>5 DEF Starts, Start, OwnInv
  <2>2. Has(d, t)'
    BY <1>2, <1>3, <2>1 DEF Has
  <2>3. QED  BY <1>4, <1>5, <2>1, <2>2
<1>6. ASSUME NEW d \in Calls, Progress(d) \/ Answer(d),
             via[d] = i => Has(d, t)', store' # store => StoreSet(d)
      PROVE  AtLeast(i, t)'
  <2>1. via'[d] = via[d]
    BY <1>6 DEF Progress, StoreGet, Hit, Join, Lead, ReceiveKeys, CallbackThrows,
         ReceiveError, Abort, Wake, StoreSet, Finally, Resume, Answer
  <2>2. QED  BY <1>4, <1>6, <2>1
<1>7. \A d \in Calls : via[d] = i => Has(d, t)
  BY DEF AtLeast
<1>8. ASSUME NEW d \in Calls, StoreGet(d) PROVE AtLeast(i, t)'
  <2>1. /\ entry'[d] \in {store[StoreOf[via[d]]], None}
        /\ UNCHANGED <<reply, outcome, retired, store>>
    BY <1>1, <1>8 DEF StoreGet, StoreFor, TypeInv, TypeOK
  <2>2. via[d] = i => Has(d, t)'
    BY <1>7, <2>1 DEF AtLeast, Has, Recent
  <2>3. QED  BY <1>6, <1>8, <2>1, <2>2 DEF Progress
<1>9. ASSUME NEW d \in Calls, Hit(d) \/ StoreSet(d) PROVE AtLeast(i, t)'
  <2>1. /\ outcome'[d] = entry[d].version /\ entry[d] # None
        /\ UNCHANGED <<reply, entry, retired>> /\ (store' # store => StoreSet(d))
    BY <1>1, <1>9, DistinctAssumption DEF Hit, Usable, StoreSet, TypeInv, TypeOK, PlaceInv
  <2>2. via[d] = i => Has(d, t)'
    BY <1>7, <2>1 DEF Has, Recent
  <2>3. QED  BY <1>6, <1>9, <2>1, <2>2 DEF Progress
<1>10. ASSUME NEW d \in Calls, Join(d) \/ Finally(d) PROVE AtLeast(i, t)'
  <2>1. UNCHANGED <<reply, outcome, entry, retired, store>>
    BY <1>10 DEF Join, Finally
  <2>2. via[d] = i => Has(d, t)'
    BY <1>7, <2>1 DEF Has, Recent
  <2>3. QED  BY <1>6, <1>10, <2>1, <2>2 DEF Progress
<1>11. ASSUME NEW d \in Calls, Lead(d) \/ CallbackThrows(d) \/ ReceiveError(d) \/ Abort(d)
       PROVE  AtLeast(i, t)'
  <2>1. /\ outcome'[d] = outcome[d] \/ outcome'[d] \notin Versions
        /\ UNCHANGED <<reply, entry, retired, store>>
    BY <1>1, <1>3, <1>11
       DEF Lead, CallbackThrows, ReceiveError, Abort, FailAttempt, Failures, TypeInv, TypeOK
  <2>2. via[d] = i => Has(d, t)'
    BY <1>7, <2>1 DEF Has, Recent
  <2>3. QED  BY <1>6, <1>11, <2>1, <2>2 DEF Progress
<1>12. ASSUME NEW d \in Calls, ReceiveKeys(d) PROVE AtLeast(i, t)'
  <2>1. /\ entry'[d].version = reply[d]
        /\ UNCHANGED <<reply, outcome, retired, store>>
    BY <1>1, <1>12 DEF ReceiveKeys, Fetched, TypeInv, TypeOK
  <2>2. via[d] = i => Has(d, t)'
    BY <1>7, <2>1 DEF Has, Recent
  <2>3. QED  BY <1>6, <1>12, <2>1, <2>2 DEF Progress
<1>13. ASSUME NEW d \in Calls, Wake(d) PROVE AtLeast(i, t)'
  <2>1. /\ reply'[d] = None
        /\ UNCHANGED <<entry, outcome, retired, store>>
    BY <1>1, <1>13 DEF Wake, TypeInv, TypeOK
  <2>2. via[d] = i => Has(d, t)'
    BY <1>3, <1>7, <2>1 DEF Has, Recent
  <2>3. QED  BY <1>6, <1>13, <2>1, <2>2 DEF Progress
<1>14. ASSUME NEW d \in Calls, Resume(d) PROVE AtLeast(i, t)'
  <2>1. /\ outcome'[d] = outcome[leader[d]] /\ leader[d] \in Calls
        /\ via[leader[d]] = via[d]
        /\ UNCHANGED <<reply, entry, retired, store>>
    BY <1>1, <1>14 DEF Resume, OwnInv, TypeInv, TypeOK, PlaceInv
  <2>2. via[d] = i => Has(d, t)'
    BY <1>7, <2>1 DEF Has, Recent
  <2>3. QED  BY <1>6, <1>14, <2>1, <2>2 DEF Progress
<1>15. ASSUME NEW d \in Calls, Answer(d) PROVE AtLeast(i, t)'
  <2>1. /\ reply'[d] \in {served, Transient, Fatal}
        /\ UNCHANGED <<entry, outcome, retired, store>>
    BY <1>1, <1>15 DEF Answer, Failures, TypeInv, TypeOK
  <2>2. retired[served] = None
    BY <1>1 DEF IInv, AgeInv, TimeInv, TypeInv, TypeOK, Versions
  <2>3. via[d] = i => Has(d, t)'
    BY <1>3, <1>7, <2>1, <2>2 DEF Has, Recent
  <2>4. QED  BY <1>6, <1>15, <2>1, <2>3
<1>16. ASSUME Rotate PROVE AtLeast(i, t)'
  <2>1. /\ retired' = [retired EXCEPT ![served] = now]
        /\ UNCHANGED <<store, reply, outcome, entry, via>>
    BY <1>16 DEF Rotate, callVars
  <2>2. \A x : Recent(x, t) => Recent(x, t)'
    BY <1>1, <2>1 DEF Recent, TypeInv, TypeOK
  <2>3. QED  BY <2>1, <2>2 DEF AtLeast, Has
<1>17. ASSUME UNCHANGED <<retired, callVars>>,
              \A s \in Stores : store'[s] \in {store[s], None}
       PROVE  AtLeast(i, t)'
  BY <1>1, <1>17, ConstantsAssumption DEF AtLeast, Has, Recent, callVars
<1>18. ASSUME \/ \E j \in Caches : Clear(j) \/ StoreClear(j)
              \/ \E s \in Stores : Expire(s)
              \/ Tick \/ UNCHANGED vars
       PROVE  AtLeast(i, t)'
  BY <1>1, <1>17, <1>18
     DEF Clear, StoreClear, Expire, Tick, vars, TypeInv, TypeOK
<1>19. QED
  BY <1>5, <1>8, <1>9, <1>10, <1>11, <1>12, <1>13, <1>14, <1>15, <1>16, <1>18
     DEF Next, Step, Starts, Progress, Terminated

LEMMA RecentKept ==
  ASSUME TypeInv, [Next]_vars, NEW x, NEW t \in Nat, t <= now, Recent(x, t)
  PROVE  Recent(x, t)'
<1>1. CASE retired' = retired
  BY <1>1 DEF Recent
<1>2. CASE Rotate
  BY <1>2 DEF Rotate, Recent, TypeInv, TypeOK
<1>3. ASSUME NEW d \in Calls, Starts(d) \/ Progress(d) \/ Answer(d) PROVE retired' = retired
  BY <1>3, CallFrame DEF Frame
<1>4. QED
  BY <1>1, <1>2, <1>3
     DEF Next, Step, Starts, Clear, StoreClear, Expire, Tick, Terminated, vars, endpointVars

Unused(i) == store[StoreOf[i]] = None /\ \A c \in Calls : via[c] # i

LEMMA UnusedKept ==
  ASSUME TypeInv, [Next]_vars, NEW i \in Defaults, Unused(i),
         \A c \in Calls : via'[c] # i
  PROVE  Unused(i)'
<1> USE DEF endpointVars, cacheVars, fetchVars, argVars
<1>1. i \in Caches
  BY DEF Defaults
<1>2. ASSUME NEW d \in Calls, StoreSet(d) PROVE store'[StoreOf[i]] = None
  <2>1. /\ via[d] \in Caches /\ via[d] # i
        /\ store' = store \/ store' = [store EXCEPT ![StoreOf[via[d]]] = entry[d]]
    BY <1>2 DEF StoreSet, StoreFor, TypeInv, PlaceInv, Unused
  <2>2. StoreOf[via[d]] # StoreOf[i]
    BY <2>1, LookupAssumption
  <2>3. QED
    BY <1>1, <2>1, <2>2, ConstantsAssumption DEF Unused, TypeInv, TypeOK
<1>3. ASSUME NEW d \in Calls, Starts(d) \/ Progress(d) \/ Answer(d), ~StoreSet(d)
      PROVE  store'[StoreOf[i]] = None
  BY <1>3 DEF Starts, Start, Progress, StoreGet, Hit, Join, Lead, ReceiveKeys,
       CallbackThrows, ReceiveError, Abort, Wake, Finally, Resume, Answer, Unused
<1>4. ASSUME \A s \in Stores : store'[s] \in {store[s], None}
      PROVE  store'[StoreOf[i]] = None
  BY <1>1, <1>4, ConstantsAssumption DEF Unused
<1>5. ASSUME \/ \E j \in Caches : Clear(j) \/ StoreClear(j)
             \/ \E s \in Stores : Expire(s)
             \/ Rotate \/ Tick \/ UNCHANGED vars
      PROVE  store'[StoreOf[i]] = None
  BY <1>4, <1>5 DEF Clear, StoreClear, Expire, Rotate, Tick, vars, TypeInv, TypeOK
<1>6. store'[StoreOf[i]] = None
  BY <1>2, <1>3, <1>5 DEF Next, Step, Starts, Terminated
<1>7. QED  BY <1>6 DEF Unused

(* A lookup by a default cache uses one created after the last             *)
(* clearJwksCache it began after.                                          *)
FloorTypes ==
  /\ used \subseteq Defaults
  /\ default \in used \cup {None}
  /\ cleared \in Nat /\ cleared <= now
  /\ since \in [Lookups -> Nat]
  /\ \A v \in Lookups : since[v] <= cleared

Floor(v) ==
  phase[v] # "idle" /\ via[GetOf[v]] \in Defaults =>
    /\ via[GetOf[v]] \in used
    /\ AtLeast(via[GetOf[v]], since[v])
    /\ phase[v] = "refreshing" =>
         pc[RefreshOf[v]] # "idle" /\ via[RefreshOf[v]] = via[GetOf[v]]
    /\ phase[v] = "done" => Recent(result[v], since[v])

FloorInv ==
  /\ FloorTypes
  /\ \A i \in Defaults \ used : Unused(i)
  /\ default # None => AtLeast(default, cleared)
  /\ \A v \in Lookups : Floor(v)

LInv == IInv /\ OwnInv /\ LookupTypes /\ AskInv /\ FloorInv

LEMMA NowGrows ==
  ASSUME TypeInv, [Next]_vars
  PROVE  now' \in Nat /\ now <= now'
<1>1. ASSUME NEW d \in Calls, Starts(d) \/ Progress(d) \/ Answer(d) PROVE now' = now
  BY <1>1 DEF Starts, Start, Progress, StoreGet, Hit, Join, Lead, ReceiveKeys,
       CallbackThrows, ReceiveError, Abort, Wake, StoreSet, Finally, Resume, Answer
<1>2. now \in Nat
  BY DEF TypeInv, TypeOK
<1>3. QED
  BY <1>1, <1>2
     DEF Next, Step, Starts, Clear, StoreClear, Expire, Rotate, Tick, Terminated, vars

LEMMA NextFloor ==
  ASSUME LInv, [LookupNext]_allVars
  PROVE  FloorInv'
<1> USE DEF argVars
<1>1. \A v \in Lookups : GetOf[v] \in Calls /\ RefreshOf[v] \in Calls
  BY LookupAssumption
<1>2. TypeInv /\ IInv /\ OwnInv /\ AskInv /\ FloorInv /\ LookupTypes /\ DefaultInv
  BY DEF LInv, IInv, AgeInv, FloorInv, FloorTypes, DefaultInv
<1>3. [Next]_vars /\ now' \in Nat /\ now <= now' /\ cleared <= now'
  <2>1. [Next]_vars
    BY <1>2, Simulates
  <2>2. now \in Nat /\ cleared \in Nat /\ cleared <= now
    BY <1>2 DEF TypeInv, TypeOK, FloorInv, FloorTypes
  <2>3. QED  BY <1>2, <2>1, <2>2, NowGrows
<1>4. \A v \in Lookups : since[v] \in Nat /\ since[v] <= now
  BY <1>2 DEF FloorInv, FloorTypes, TypeInv, TypeOK
<1>5. ASSUME NEW i \in Defaults, NEW t \in Nat, t <= now, AtLeast(i, t)
      PROVE  AtLeast(i, t)'
  BY <1>2, <1>3, <1>5, AtLeastKept
<1>6. ASSUME NEW v \in Lookups, NEW i \in Defaults, NEW t \in Nat, t <= now,
             via'[GetOf[v]] = i, since'[v] = t, i \in used', AtLeast(i, t),
             phase'[v] = "refreshing" =>
               pc'[RefreshOf[v]] # "idle" /\ via'[RefreshOf[v]] = i,
             phase'[v] = "done" => Recent(result'[v], t)
      PROVE  Floor(v)'
  <2>1. AtLeast(i, t)'
    BY <1>5, <1>6
  <2>2. AtLeast(via[GetOf[v]], since[v])'
    BY <1>6, <2>1 DEF AtLeast, Has, Recent
  <2>3. phase'[v] = "done" => Recent(result[v], since[v])'
    <3>1. PICK x : x = result'[v]
      OBVIOUS
    <3>2. phase'[v] = "done" => Recent(x, t)'
      BY <1>2, <1>3, <1>6, <3>1, RecentKept
    <3>3. QED  BY <1>6, <3>1, <3>2 DEF Recent
  <2>4. QED  BY <1>6, <2>2, <2>3 DEF Floor
<1>7. ASSUME NEW v \in Lookups, phase[v] # "idle", via[GetOf[v]] \in Defaults,
             phase'[v] = phase[v], result'[v] = result[v], since'[v] = since[v],
             used \subseteq used'
      PROVE  Floor(v)'
  <2>1. Floor(v) /\ pc[GetOf[v]] # "idle"
    BY <1>2, <1>7 DEF FloorInv, AskInv
  <2>2. via'[GetOf[v]] = via[GetOf[v]]
    BY <1>1, <1>2, <1>3, <2>1, CallKept
  <2>3. phase[v] = "refreshing" =>
          pc'[RefreshOf[v]] # "idle" /\ via'[RefreshOf[v]] = via[GetOf[v]]
    BY <1>1, <1>2, <1>3, <1>7, <2>1, CallKept DEF Floor
  <2>4. PICK i \in Defaults, t \in Nat : i = via[GetOf[v]] /\ t = since[v]
    BY <1>4, <1>7
  <2>5. AtLeast(i, t) /\ i \in used'
    BY <1>7, <2>1, <2>4 DEF Floor
  <2>6. phase'[v] = "done" => Recent(result'[v], t)
    BY <1>7, <2>1, <2>4 DEF Floor
  <2>7. QED  BY <1>4, <1>6, <1>7, <2>2, <2>3, <2>4, <2>5, <2>6
<1>8. ASSUME NEW v \in Lookups,
             phase'[v] = phase[v], result'[v] = result[v], since'[v] = since[v],
             used \subseteq used'
      PROVE  Floor(v)'
  <2>1. CASE phase[v] = "idle" \/ via'[GetOf[v]] \notin Defaults
    BY <1>8, <2>1 DEF Floor, Defaults
  <2>2. CASE phase[v] # "idle" /\ via'[GetOf[v]] \in Defaults
    <3>1. via'[GetOf[v]] = via[GetOf[v]]
      BY <1>1, <1>2, <1>3, <2>2, CallKept DEF AskInv
    <3>2. QED  BY <1>7, <1>8, <2>2, <3>1
  <2>3. QED  BY <2>1, <2>2
<1>9. ASSUME default' = default, cleared' = cleared
      PROVE  (default # None => AtLeast(default, cleared))'
  <2>1. SUFFICES ASSUME default # None PROVE AtLeast(default, cleared)'
    BY <1>9
  <2>2. PICK i \in Defaults, t \in Nat : i = default /\ t = cleared
    BY <1>2, <2>1 DEF FloorInv, FloorTypes
  <2>3. AtLeast(i, t) /\ t <= now
    BY <1>2, <2>1, <2>2 DEF FloorInv, FloorTypes
  <2>4. AtLeast(i, t)'
    BY <1>5, <2>3
  <2>5. QED  BY <1>9, <2>2, <2>4 DEF AtLeast
<1>10. ASSUME used \subseteq used',
              \A c \in Calls : via'[c] = via[c] \/ via'[c] \notin Defaults \ used'
       PROVE  \A i \in Defaults \ used' : Unused(i)'
  <2> TAKE i \in Defaults \ used'
  <2>1. Unused(i)
    BY <1>2, <1>10 DEF FloorInv
  <2>2. \A c \in Calls : via'[c] # i
    BY <1>10, <2>1 DEF Unused
  <2>3. QED  BY <1>2, <1>3, <2>1, <2>2, UnusedKept
<1>11. ASSUME NEW v \in Lookups, Begin(v) PROVE FloorInv'
  <2>1. PICK i \in Caches : /\ Start(GetOf[v], i, "getKeys")
                            /\ \/ i \in Supplied /\ UNCHANGED <<default, used>>
                               \/ /\ i \in DefaultCache
                                  /\ default' = i /\ used' = used \cup {i}
    <3>1. DefaultCache \subseteq Defaults
      BY <1>2 DEF FloorInv, FloorTypes, DefaultCache
    <3>2. QED  BY <1>11, <3>1, LookupAssumption DEF Begin, Defaults
  <2>2. /\ phase' = [phase EXCEPT ![v] = "getting"] /\ since' = [since EXCEPT ![v] = cleared]
        /\ UNCHANGED <<result, cleared, now>>
        /\ via' = [via EXCEPT ![GetOf[v]] = i]
    BY <1>11, <2>1 DEF Begin, Start
  <2>3. i \in Defaults =>
          i \in DefaultCache /\ default' = i /\ used' = used \cup {i} /\ AtLeast(i, cleared)
    <3>1. Unused(i) => AtLeast(i, cleared)
      BY DEF Unused, AtLeast
    <3>2. i \in Defaults => i \notin Supplied
      BY DEF Defaults
    <3>3. CASE default # None
      BY <1>2, <2>1, <3>2, <3>3 DEF FloorInv, DefaultCache
    <3>4. CASE default = None
      BY <1>2, <2>1, <3>1, <3>2, <3>4 DEF FloorInv, DefaultCache
    <3>5. QED  BY <3>3, <3>4
  <2>4. FloorTypes'
    BY <1>2, <1>3, <2>1, <2>2, <2>3 DEF FloorInv, FloorTypes, DefaultCache
  <2>5. used \subseteq used' /\ (i \in Defaults => i \in used')
    BY <2>1, <2>3
  <2>6. \A j \in Defaults \ used' : Unused(j)'
    BY <1>1, <1>2, <1>10, <2>2, <2>5 DEF TypeInv, TypeOK
  <2>7. (default # None => AtLeast(default, cleared))'
    <3>1. CASE default' = default
      BY <1>9, <2>2, <3>1
    <3>2. CASE default' = i /\ i \in Defaults
      <4>1. PICK t \in Nat : t = cleared /\ t <= now
        BY <1>2 DEF FloorInv, FloorTypes
      <4>2. AtLeast(i, t)'
        BY <1>5, <2>3, <3>2, <4>1
      <4>3. QED  BY <2>2, <3>2, <4>1, <4>2 DEF AtLeast
    <3>3. QED
      BY <1>2, <2>1, <3>1, <3>2 DEF FloorInv, FloorTypes, DefaultCache
  <2>8. ASSUME NEW w \in Lookups PROVE Floor(w)'
    <3>1. CASE w # v
      BY <1>8, <2>2, <2>5, <3>1, <1>2 DEF LookupTypes, FloorInv, FloorTypes
    <3>2. CASE w = v /\ i \in Defaults
      <4>1. PICK t \in Nat : t = cleared /\ t <= now
        BY <1>2 DEF FloorInv, FloorTypes
      <4>2. phase'[v] = "getting" /\ since'[v] = t /\ via'[GetOf[v]] = i
        BY <1>1, <1>2, <2>2, <4>1 DEF LookupTypes, FloorInv, FloorTypes, TypeInv, TypeOK
      <4>3. QED  BY <1>6, <2>3, <2>5, <3>2, <4>1, <4>2
    <3>3. CASE w = v /\ i \notin Defaults
      <4>1. via'[GetOf[v]] \notin Defaults
        BY <1>1, <1>2, <2>2, <3>3 DEF TypeInv, TypeOK
      <4>2. QED  BY <3>3, <4>1 DEF Floor, Defaults
    <3>4. QED  BY <3>1, <3>2, <3>3
  <2>9. QED  BY <2>4, <2>6, <2>7, <2>8 DEF FloorInv
<1>12. ASSUME NEW v \in Lookups, Got(v) \/ Refreshed(v) PROVE FloorInv'
  <2>1. /\ phase[v] # "idle" /\ phase' = [phase EXCEPT ![v] = "done"]
        /\ UNCHANGED <<vars, default, used, cleared, since>>
        /\ \/ result' = [result EXCEPT ![v] = outcome[GetOf[v]]]
           \/ /\ phase[v] = "refreshing"
              /\ result' = [result EXCEPT ![v] = outcome[RefreshOf[v]]]
    BY <1>12 DEF Got, Refreshed, Ends
  <2>2. FloorTypes'
    BY <1>2, <2>1 DEF FloorInv, FloorTypes, vars
  <2>3. UNCHANGED via
    BY <2>1 DEF vars, callVars
  <2>4. \A j \in Defaults \ used' : Unused(j)'
    BY <1>10, <2>1, <2>3
  <2>5. (default # None => AtLeast(default, cleared))'
    BY <1>9, <2>1
  <2>6. ASSUME NEW w \in Lookups PROVE Floor(w)'
    <3>1. CASE w # v
      BY <1>2, <1>8, <2>1, <3>1 DEF LookupTypes
    <3>2. CASE w = v /\ via[GetOf[v]] \in Defaults
      <4>1. Floor(v)
        BY <1>2 DEF FloorInv
      <4>2. PICK i \in Defaults, t \in Nat : i = via[GetOf[v]] /\ t = since[v] /\ t <= now
        BY <1>4, <3>2
      <4>3. AtLeast(i, t) /\ i \in used
        BY <2>1, <3>2, <4>1, <4>2 DEF Floor
      <4>4. phase[v] = "refreshing" => via[RefreshOf[v]] = i
        BY <2>1, <3>2, <4>1, <4>2 DEF Floor
      <4>5. Recent(result'[v], t)
        BY <1>1, <1>2, <2>1, <4>2, <4>3, <4>4 DEF AtLeast, Has, LookupTypes
      <4>6. phase'[v] = "done" /\ via'[GetOf[v]] = i /\ since'[v] = t /\ i \in used'
        BY <1>2, <2>1, <2>3, <4>2, <4>3 DEF LookupTypes
      <4>7. QED  BY <1>6, <3>2, <4>2, <4>3, <4>5, <4>6
    <3>3. CASE w = v /\ via[GetOf[v]] \notin Defaults
      BY <2>3, <3>3 DEF Floor, Defaults
    <3>4. QED  BY <3>1, <3>2, <3>3
  <2>7. QED  BY <2>2, <2>4, <2>5, <2>6 DEF FloorInv
<1>13. ASSUME NEW v \in Lookups, Retry(v) PROVE FloorInv'
  <2>1. /\ phase[v] = "getting" /\ phase' = [phase EXCEPT ![v] = "refreshing"]
        /\ pc[GetOf[v]] = "returned" /\ pc' = [pc EXCEPT ![RefreshOf[v]] = "reading"]
        /\ via' = [via EXCEPT ![RefreshOf[v]] = via[GetOf[v]]]
        /\ UNCHANGED <<now, result, default, used, cleared, since>>
    BY <1>13 DEF Retry, Start, Goto
  <2>2. FloorTypes'
    BY <1>2, <2>1 DEF FloorInv, FloorTypes
  <2>3. ASSUME via[GetOf[v]] \in Defaults PROVE via[GetOf[v]] \in used
    BY <1>2, <2>1, <2>3 DEF FloorInv, Floor
  <2>4. \A j \in Defaults \ used' : Unused(j)'
    BY <1>1, <1>2, <1>10, <2>1, <2>3 DEF TypeInv, TypeOK
  <2>5. (default # None => AtLeast(default, cleared))'
    BY <1>9, <2>1
  <2>6. ASSUME NEW w \in Lookups PROVE Floor(w)'
    <3>1. CASE w # v
      BY <1>2, <1>8, <2>1, <3>1 DEF LookupTypes
    <3>2. CASE w = v /\ via[GetOf[v]] \in Defaults
      <4>1. Floor(v) /\ GetOf[v] # RefreshOf[v]
        BY <1>2, LookupAssumption DEF FloorInv
      <4>2. PICK i \in Defaults, t \in Nat : i = via[GetOf[v]] /\ t = since[v] /\ t <= now
        BY <1>4, <3>2
      <4>3. AtLeast(i, t) /\ i \in used'
        BY <2>1, <3>2, <4>1, <4>2 DEF Floor
      <4>4. /\ phase'[v] = "refreshing" /\ since'[v] = t /\ via'[GetOf[v]] = i
            /\ pc'[RefreshOf[v]] = "reading" /\ via'[RefreshOf[v]] = i
        BY <1>1, <1>2, <2>1, <4>1, <4>2 DEF LookupTypes, TypeInv, TypeOK
      <4>5. QED  BY <1>6, <3>2, <4>2, <4>3, <4>4
    <3>3. CASE w = v /\ via[GetOf[v]] \notin Defaults
      <4>1. via'[GetOf[v]] \notin Defaults
        BY <1>1, <1>2, <2>1, <3>3, LookupAssumption DEF TypeInv, TypeOK
      <4>2. QED  BY <3>3, <4>1 DEF Floor, Defaults
    <3>4. QED  BY <3>1, <3>2, <3>3
  <2>7. QED  BY <2>2, <2>4, <2>5, <2>6 DEF FloorInv
<1>14. ASSUME ClearDefault PROVE FloorInv'
  <2>1. /\ default' = None /\ cleared' = now
        /\ UNCHANGED <<now, via, phase, result, used, since>>
    BY <1>14 DEF ClearDefault, Successor, Clear, callVars
  <2>2. FloorTypes'
    BY <1>2, <1>4, <2>1 DEF FloorInv, FloorTypes, TypeInv, TypeOK
  <2>3. \A j \in Defaults \ used' : Unused(j)'
    BY <1>10, <2>1
  <2>4. QED  BY <1>8, <2>1, <2>2, <2>3 DEF FloorInv
<1>15. ASSUME UNCHANGED lookupVars, UNCHANGED via PROVE FloorInv'
  <2>1. FloorTypes'
    BY <1>2, <1>3, <1>15 DEF FloorInv, FloorTypes, lookupVars
  <2>2. \A j \in Defaults \ used' : Unused(j)'
    BY <1>10, <1>15 DEF lookupVars
  <2>3. QED  BY <1>8, <1>9, <1>15, <2>1, <2>2 DEF FloorInv, lookupVars
<1>16. ASSUME NEW c \in Calls, Progress(c) \/ Answer(c) PROVE UNCHANGED via
  BY <1>16 DEF Progress, StoreGet, Hit, Join, Lead, ReceiveKeys, CallbackThrows,
       ReceiveError, Abort, Wake, StoreSet, Finally, Resume, Answer
<1>17. ASSUME Rotate \/ Tick \/ Terminated \/ UNCHANGED vars PROVE UNCHANGED via
  BY <1>17 DEF Rotate, Tick, Terminated, vars, callVars
<1>18. QED
  BY <1>11, <1>12, <1>13, <1>14, <1>15, <1>16, <1>17
     DEF LookupNext, Continue, LookupTick, LookupTerminated, allVars

LEMMA LInvCorrect == LookupSpec => []LInv
<1>1. LookupInit => LInv
  <2> SUFFICES ASSUME LookupInit PROVE LInv
    OBVIOUS
  <2>1. IInv /\ OwnInv
    BY InitIInv, DistinctAssumption DEF LookupInit, Init, OwnInv
  <2>2. LookupTypes /\ AskInv
    BY DEF LookupInit, LookupTypes, AskInv, Phases
  <2>3. FloorTypes /\ \A v \in Lookups : Floor(v)
    BY DEF LookupInit, Init, FloorTypes, Floor
  <2>4. \A i \in Defaults : Unused(i)
    BY ConstantsAssumption, DistinctAssumption DEF LookupInit, Init, Unused, Defaults
  <2>5. QED  BY <2>1, <2>2, <2>3, <2>4 DEF LInv, FloorInv, LookupInit
<1>2. LInv /\ [LookupNext]_allVars => LInv'
  <2> SUFFICES ASSUME LInv, [LookupNext]_allVars PROVE LInv'
    OBVIOUS
  <2>1. TypeInv /\ IInv /\ DefaultInv /\ OwnInv /\ LookupTypes /\ AskInv
    BY DEF LInv, IInv, AgeInv, FloorInv, FloorTypes, DefaultInv
  <2>2. [Next]_vars
    BY <2>1, Simulates
  <2>3. IInv'
    BY <2>1, <2>2, AgeCorrect, NextRegistry, NextStale DEF IInv, AgeInv
  <2>4. OwnInv' /\ LookupTypes' /\ AskInv'
    BY <2>1, <2>2, NextOwn, NextAsk
  <2>5. QED  BY <2>3, <2>4, NextFloor DEF LInv
<1>3. QED  BY <1>1, <1>2, PTL DEF LookupSpec

(* After clearJwksCache no verification by the default cache uses keys     *)
(* withdrawn before it, whatever was in flight.                            *)
THEOREM ClearIsFresh == LookupSpec => []FreshAfterClear
<1>1. LInv => FreshAfterClear
  BY DEF LInv, FloorInv, Floor, Recent, FreshAfterClear
<1>2. QED  BY <1>1, LInvCorrect, PTL

-----------------------------------------------------------------------------
(***************************************************************************)
(* Latency.  The first call began with the lookup; the second begins in    *)
(* the instant in which the first returns, because a lookup whose call has *)
(* returned goes on before the clock moves.                                *)
(***************************************************************************)
CallMs == FetchMs + 2 * StoreMs

SpanInv ==
  \A v \in Lookups :
    /\ phase[v] = "getting" => now <= started[GetOf[v]] + CallMs
    /\ phase[v] = "refreshing" =>
         /\ started[RefreshOf[v]] <= started[GetOf[v]] + CallMs
         /\ now <= started[RefreshOf[v]] + CallMs

LEMMA NextSpan ==
  ASSUME IInv, DefaultInv, LookupTypes, AskInv, SpanInv, [LookupNext]_allVars,
         BoundedLatency'
  PROVE  SpanInv'
<1>1. \A v \in Lookups : GetOf[v] \in Calls /\ RefreshOf[v] \in Calls
                           /\ GetOf[v] # RefreshOf[v]
  BY LookupAssumption
<1>2. TypeInv /\ [Next]_vars
  BY Simulates DEF IInv, AgeInv
<1>3. CallMs \in Nat /\ now \in Nat /\ \A c \in Calls : started[c] \in Nat
  BY FetchMsType, ConstantsAssumption DEF CallMs, IInv, AgeInv, TypeInv, TypeOK
<1>4. \A v \in Lookups :
        /\ phase[v] # "idle" => pc[GetOf[v]] # "idle" /\ started'[GetOf[v]] = started[GetOf[v]]
        /\ phase[v] = "refreshing" =>
             pc[RefreshOf[v]] # "idle" /\ started'[RefreshOf[v]] = started[RefreshOf[v]]
  BY <1>1, <1>2, CallKept DEF AskInv, Asked
<1>5. ASSUME now' = now, NEW v \in Lookups, phase'[v] = phase[v]
      PROVE  /\ phase'[v] = "getting" => now' <= started'[GetOf[v]] + CallMs
             /\ phase'[v] = "refreshing" =>
                  /\ started'[RefreshOf[v]] <= started'[GetOf[v]] + CallMs
                  /\ now' <= started'[RefreshOf[v]] + CallMs
  BY <1>4, <1>5 DEF SpanInv
<1>6. CallMs' = CallMs
  BY DEF CallMs, FetchMs, Backoff
<1>7. ASSUME NEW v \in Lookups, Begin(v) PROVE SpanInv'
  <2>1. /\ now' = now /\ started'[GetOf[v]] = now /\ phase'[v] = "getting"
        /\ \A w \in Lookups \ {v} : phase'[w] = phase[w]
    BY <1>1, <1>2, <1>7 DEF Begin, Start, LookupTypes, TypeInv, TypeOK
  <2>2. QED  BY <1>3, <1>5, <1>6, <2>1 DEF SpanInv
<1>8. ASSUME NEW v \in Lookups, Retry(v) PROVE SpanInv'
  <2>1. /\ phase[v] = "getting" /\ phase'[v] = "refreshing"
        /\ now' = now /\ started'[RefreshOf[v]] = now
        /\ \A w \in Lookups \ {v} : phase'[w] = phase[w]
    BY <1>1, <1>2, <1>8 DEF Retry, Start, LookupTypes, TypeInv, TypeOK
  <2>2. now <= started'[GetOf[v]] + CallMs
    BY <1>4, <2>1 DEF SpanInv
  <2>3. QED  BY <1>3, <1>5, <1>6, <2>1, <2>2 DEF SpanInv
<1>9. ASSUME NEW v \in Lookups, Got(v) \/ Refreshed(v) PROVE SpanInv'
  <2>1. /\ now' = now /\ phase'[v] = "done"
        /\ \A w \in Lookups \ {v} : phase'[w] = phase[w]
    BY <1>9 DEF Got, Refreshed, Ends, LookupTypes, vars
  <2>2. QED  BY <1>5, <1>6, <2>1 DEF SpanInv
<1>10. CASE LookupTick
  <2>1. /\ UNCHANGED <<phase, pc, started>> /\ \A v \in Lookups : ~LookupDue(v)
    BY <1>10 DEF LookupTick, Tick, lookupVars, callVars
  <2>2. ASSUME NEW v \in Lookups, phase[v] \in {"getting", "refreshing"}
        PROVE  LET c == IF phase[v] = "getting" THEN GetOf[v] ELSE RefreshOf[v] IN
               now' <= started'[c] + CallMs
    <3> DEFINE c == IF phase[v] = "getting" THEN GetOf[v] ELSE RefreshOf[v]
    <3>1. c \in Calls /\ pc'[c] \notin {"idle", "returned"}
      BY <1>1, <1>4, <2>1, <2>2 DEF LookupDue
    <3>2. now' <= started'[c] + FetchMs' + 2 * StoreMs
      BY <3>1 DEF BoundedLatency
    <3>3. FetchMs' = FetchMs /\ FetchMs \in Nat /\ StoreMs \in Nat /\ started'[c] \in Nat
      BY <1>3, <2>1, <3>1, FetchMsType, ConstantsAssumption DEF FetchMs, Backoff
    <3>4. QED  BY <3>2, <3>3 DEF CallMs
  <2>3. QED  BY <1>4, <1>6, <2>1, <2>2 DEF SpanInv
<1>11. ASSUME now' = now, phase' = phase PROVE SpanInv'
  BY <1>5, <1>6, <1>11 DEF SpanInv
<1>12. ASSUME NEW c \in Calls, Progress(c) \/ Answer(c) PROVE now' = now
  BY <1>12 DEF Progress, StoreGet, Hit, Join, Lead, ReceiveKeys, CallbackThrows,
       ReceiveError, Abort, Wake, StoreSet, Finally, Resume, Answer
<1>13. QED
  BY <1>7, <1>8, <1>9, <1>10, <1>11, <1>12
     DEF LookupNext, Continue, ClearDefault, Clear, Rotate, LookupTerminated, Terminated,
         allVars, lookupVars, vars

(* No verification waits for its keys longer than two calls may last: two  *)
(* reads, two fetches with all their retries, and two writes.              *)
THEOREM LookupIsBounded == LookupSpec => []LookupLatency
<1>1. LookupInit => LookupTypes /\ AskInv /\ SpanInv
  BY DEF LookupInit, LookupTypes, AskInv, SpanInv, Phases
<1>2. LookupSpec => []BoundedLatency
  BY LookupImplementsCache, LatencyIsBounded, PTL
<1>3. LookupSpec => [](IInv /\ LookupTypes /\ AskInv /\ SpanInv)
  BY <1>1, <1>2, NextAsk, NextSpan, CachesCorrect, PTL DEF LookupSpec
<1>4. IInv /\ AskInv /\ SpanInv => LookupLatency
  <2> SUFFICES ASSUME IInv, SpanInv, NEW v \in Lookups,
                      phase[v] \in {"getting", "refreshing"}
               PROVE  now <= started[GetOf[v]] + 2 * (FetchMs + 2 * StoreMs)
    BY DEF LookupLatency
  <2>1. /\ CallMs \in Nat /\ now \in Nat
        /\ started[GetOf[v]] \in Nat /\ started[RefreshOf[v]] \in Nat
    BY FetchMsType, ConstantsAssumption, LookupAssumption
    DEF CallMs, IInv, AgeInv, TypeInv, TypeOK
  <2>2. now <= started[GetOf[v]] + 2 * CallMs
    BY <2>1 DEF SpanInv
  <2>3. QED  BY <2>2 DEF CallMs
<1>5. QED  BY <1>3, <1>4, PTL
=============================================================================
