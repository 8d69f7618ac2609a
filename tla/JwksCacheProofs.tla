--------------------------- MODULE JwksCacheProofs ---------------------------
(***************************************************************************)
(* Proofs about JwksCache for every value of its constants: any number of  *)
(* calls, instances and adapters, any limits, any number of clear() calls. *)
(***************************************************************************)
EXTENDS JwksCache, TLAPS

(* A call sleeps only when another attempt is left, so the attempt counter *)
(* stays below maxRetries; a call that has begun has an instance and an    *)
(* operation, one that writes an entry to write, one that joined a leader. *)
PlaceInv ==
  \A c \in Calls :
    /\ pc[c] = "sleeping" => attempt[c] + 1 \in Attempts
    /\ pc[c] = "writing" => entry[c] \in Entries
    /\ pc[c] = "joined" => leader[c] \in Calls
    /\ pc[c] # "idle" => via[c] \in Caches /\ op[c] \in Ops

TypeInv == TypeOK /\ PlaceInv

(* A call begins, with any arguments. *)
Starts(c) == \E i \in Caches, o \in Ops : Start(c, i, o)

LEMMA InitType == Init => TypeInv
  BY ConstantsAssumption
     DEF Init, TypeInv, TypeOK, PlaceInv, Versions, Ops, Places, Waiting, Leading,
         Fetching, Attempts

(* What every action of a call relies on. *)
LEMMA FailAttemptType ==
  ASSUME TypeInv, NEW c \in Calls, NEW f \in Failures, FailAttempt(c, f)
  PROVE  /\ pc' \in [Calls -> Places]
         /\ timer' \in [Calls -> Nat]
         /\ outcome' \in [Calls -> Versions \cup Failures \cup {None}]
         /\ pc'[c] = "sleeping" => attempt[c] + 1 \in Attempts
         /\ pc'[c] \notin {"writing", "joined"}
         /\ \A d \in Calls \ {c} : pc'[d] = pc[d]
<1>1. attempt[c] \in 0 .. maxRetries /\ Backoff(attempt[c]) \in Nat
  BY ConstantsAssumption, BackoffAssumption DEF TypeInv, TypeOK, Attempts
<1>2. CASE Retries(c, f)
  BY <1>1, <1>2, ConstantsAssumption
     DEF FailAttempt, Goto, Retries, TypeInv, TypeOK, Places, Waiting, Leading,
         Fetching, Attempts
<1>3. CASE ~Retries(c, f)
  BY <1>1, <1>3, ConstantsAssumption
     DEF FailAttempt, Goto, TypeInv, TypeOK, Places, Waiting, Leading, Fetching
<1>4. QED  BY <1>2, <1>3

LEMMA NextType == TypeInv /\ [Next]_vars => TypeInv'
<1> SUFFICES ASSUME TypeInv, [Next]_vars PROVE TypeInv'
  OBVIOUS
<1> USE DEF endpointVars, cacheVars, fetchVars, argVars
<1>1. ASSUME NEW c \in Calls, NEW i \in Caches, NEW o \in Ops, Start(c, i, o)
      PROVE  TypeInv'
  <2>1. TypeOK'
    BY <1>1, ConstantsAssumption
       DEF Start, Goto, TypeInv, TypeOK, Places, Waiting, Leading, Fetching
  <2>2. PlaceInv'
    BY <1>1 DEF Start, Goto, TypeInv, TypeOK, PlaceInv
  <2>3. QED  BY <2>1, <2>2 DEF TypeInv
<1>2. ASSUME NEW c \in Calls, StoreGet(c) PROVE TypeInv'
  BY <1>2, ConstantsAssumption
     DEF StoreGet, StoreFor, TypeInv, TypeOK, PlaceInv, Places, Waiting, Leading, Fetching
<1>3. ASSUME NEW c \in Calls, Hit(c) PROVE TypeInv'
  BY <1>3, DistinctAssumption
     DEF Hit, Usable, TypeInv, TypeOK, PlaceInv, Places, Entries
<1>4. ASSUME NEW c \in Calls, Join(c) PROVE TypeInv'
  BY <1>4
     DEF Join, Existing, TypeInv, TypeOK, PlaceInv, Places
<1>5. ASSUME NEW c \in Calls, Lead(c) PROVE TypeInv'
  <2>1. led' \in [Calls -> [at : Nat, clears : Nat] \cup {None}]
    BY <1>5, ConstantsAssumption DEF Lead, TypeInv, TypeOK, PlaceInv
  <2>2. inflight' \in [Caches -> Calls \cup {None}]
    BY <1>5 DEF Lead, TypeInv, TypeOK
  <2>3. /\ pc' \in [Calls -> Places] /\ timer' \in [Calls -> Nat]
        /\ outcome' \in [Calls -> Versions \cup Failures \cup {None}]
        /\ PlaceInv'
    BY <1>5, ConstantsAssumption
       DEF Lead, Goto, TypeInv, TypeOK, PlaceInv, Places, Waiting, Leading, Fetching, Failures
  <2>4. QED  BY <1>5, <2>1, <2>2, <2>3 DEF Lead, TypeInv, TypeOK
<1>6. ASSUME NEW c \in Calls, ReceiveKeys(c) PROVE TypeInv'
  BY <1>6, ConstantsAssumption
     DEF ReceiveKeys, Goto, Fetched, Rotated, Entries, TypeInv, TypeOK, PlaceInv,
         Places, Waiting, Leading, Fetching
<1>7. ASSUME NEW c \in Calls, CallbackThrows(c) PROVE TypeInv'
  <2>1. /\ pc' \in [Calls -> Places] /\ timer' \in [Calls -> Nat]
        /\ outcome' \in [Calls -> Versions \cup Failures \cup {None}]
        /\ pc'[c] = "sleeping" => attempt[c] + 1 \in Attempts
        /\ pc'[c] \notin {"writing", "joined"}
        /\ \A d \in Calls \ {c} : pc'[d] = pc[d]
    BY <1>7, FailAttemptType DEF CallbackThrows, Failures
  <2>2. TypeOK'
    BY <1>7, <2>1 DEF CallbackThrows, TypeInv, TypeOK
  <2>3. UNCHANGED <<entry, attempt, leader, via, op>> /\ pc[c] # "idle"
    BY <1>7 DEF CallbackThrows
  <2>4. PlaceInv'
    BY <2>1, <2>3 DEF TypeInv, PlaceInv
  <2>5. QED  BY <2>2, <2>4 DEF TypeInv
<1>8. ASSUME NEW c \in Calls, ReceiveError(c) PROVE TypeInv'
  <2>1. /\ pc' \in [Calls -> Places] /\ timer' \in [Calls -> Nat]
        /\ outcome' \in [Calls -> Versions \cup Failures \cup {None}]
        /\ pc'[c] = "sleeping" => attempt[c] + 1 \in Attempts
        /\ pc'[c] \notin {"writing", "joined"}
        /\ \A d \in Calls \ {c} : pc'[d] = pc[d]
    BY <1>8, FailAttemptType DEF ReceiveError
  <2>2. TypeOK'
    BY <1>8, <2>1 DEF ReceiveError, TypeInv, TypeOK
  <2>3. UNCHANGED <<entry, attempt, leader, via, op>> /\ pc[c] # "idle"
    BY <1>8 DEF ReceiveError
  <2>4. PlaceInv'
    BY <2>1, <2>3 DEF TypeInv, PlaceInv
  <2>5. QED  BY <2>2, <2>4 DEF TypeInv
<1>9. ASSUME NEW c \in Calls, Abort(c) PROVE TypeInv'
  <2>1. /\ pc' \in [Calls -> Places] /\ timer' \in [Calls -> Nat]
        /\ outcome' \in [Calls -> Versions \cup Failures \cup {None}]
        /\ pc'[c] = "sleeping" => attempt[c] + 1 \in Attempts
        /\ pc'[c] \notin {"writing", "joined"}
        /\ \A d \in Calls \ {c} : pc'[d] = pc[d]
    BY <1>9, FailAttemptType DEF Abort, Failures
  <2>2. TypeOK'
    BY <1>9, <2>1 DEF Abort, TypeInv, TypeOK
  <2>3. UNCHANGED <<entry, attempt, leader, via, op>> /\ pc[c] # "idle"
    BY <1>9 DEF Abort
  <2>4. PlaceInv'
    BY <2>1, <2>3 DEF TypeInv, PlaceInv
  <2>5. QED  BY <2>2, <2>4 DEF TypeInv
<1>10. ASSUME NEW c \in Calls, Wake(c) PROVE TypeInv'
  <2>1. attempt[c] + 1 \in Attempts
    BY <1>10 DEF Wake, TypeInv, PlaceInv
  <2>2. QED
    BY <1>10, <2>1, ConstantsAssumption
       DEF Wake, Goto, TypeInv, TypeOK, PlaceInv, Places, Waiting, Leading, Fetching
<1>11. ASSUME NEW c \in Calls, StoreSet(c) PROVE TypeInv'
  <2>1. entry[c] \in Entries /\ entry[c].version \in Versions
    BY <1>11 DEF StoreSet, Entries, TypeInv, PlaceInv
  <2>2. store' \in [Stores -> Entries \cup {None}]
    BY <1>11, <2>1 DEF StoreSet, TypeInv, TypeOK
  <2>3. TypeOK'
    BY <1>11, <2>1, <2>2 DEF StoreSet, TypeInv, TypeOK, Places, Waiting, Leading
  <2>4. PlaceInv'
    BY <1>11 DEF StoreSet, TypeInv, TypeOK, PlaceInv
  <2>5. QED  BY <2>3, <2>4 DEF TypeInv
<1>12. ASSUME NEW c \in Calls, Finally(c) PROVE TypeInv'
  BY <1>12 DEF Finally, Deregistered, TypeInv, TypeOK, PlaceInv, Places
<1>13. ASSUME NEW c \in Calls, Resume(c) PROVE TypeInv'
  <2>1. outcome' \in [Calls -> Versions \cup Failures \cup {None}]
    BY <1>13 DEF Resume, TypeInv, TypeOK, PlaceInv
  <2>2. TypeOK'
    BY <1>13, <2>1 DEF Resume, TypeInv, TypeOK, Places
  <2>3. PlaceInv'
    BY <1>13 DEF Resume, TypeInv, TypeOK, PlaceInv
  <2>4. QED  BY <2>2, <2>3 DEF TypeInv
<1>14. ASSUME NEW c \in Calls, Answer(c) PROVE TypeInv'
  <2>1. reply' \in [Calls -> Versions \cup Failures \cup {None}]
    BY <1>14 DEF Answer, TypeInv, TypeOK
  <2>2. TypeOK'
    BY <1>14, <2>1
       DEF Answer, TypeInv, TypeOK, Places, Waiting, Leading, Fetching
  <2>3. PlaceInv'
    BY <1>14 DEF Answer, TypeInv, TypeOK, PlaceInv
  <2>4. QED  BY <2>2, <2>3 DEF TypeInv
<1>15. ASSUME NEW i \in Caches, Clear(i) PROVE TypeInv'
  <2>1. clears' \in [Caches -> 0 .. MaxClears]
    BY <1>15, ConstantsAssumption DEF Clear, TypeInv, TypeOK
  <2>2. inflight' \in [Caches -> Calls \cup {None}] /\ clearing' \subseteq Caches
    BY <1>15 DEF Clear, TypeInv, TypeOK
  <2>3. store' \in [Stores -> Entries \cup {None}]
    BY <1>15 DEF Clear, TypeInv, TypeOK
  <2>4. QED
    BY <1>15, <2>1, <2>2, <2>3 DEF Clear, callVars, TypeInv, TypeOK, PlaceInv
<1>16. ASSUME NEW i \in Caches, StoreClear(i) PROVE TypeInv'
  BY <1>16 DEF StoreClear, callVars, TypeInv, TypeOK, PlaceInv
<1>17. ASSUME NEW s \in Stores, Expire(s) PROVE TypeInv'
  BY <1>17 DEF Expire, callVars, TypeInv, TypeOK, PlaceInv
<1>18. CASE Rotate
  BY <1>18, ConstantsAssumption
     DEF Rotate, callVars, Versions, TypeInv, TypeOK, PlaceInv
<1>19. CASE Tick
  BY <1>19 DEF Tick, callVars, TypeInv, TypeOK, PlaceInv
<1>20. CASE UNCHANGED vars
  BY <1>20 DEF vars, callVars, TypeInv, TypeOK, PlaceInv
<1>21. QED
  BY <1>1, <1>2, <1>3, <1>4, <1>5, <1>6, <1>7, <1>8, <1>9, <1>10, <1>11, <1>12,
     <1>13, <1>14, <1>15, <1>16, <1>17, <1>18, <1>19, <1>20
     DEF Next, Step, Starts, Progress, Terminated

(* Every variable keeps its type; in particular no call makes more than    *)
(* maxRetries attempts.                                                    *)
THEOREM TypeCorrect == Spec => []TypeOK
<1>1. Spec => []TypeInv
  BY InitType, NextType, PTL DEF Spec
<1>2. QED  BY <1>1, PTL DEF TypeInv

-----------------------------------------------------------------------------
(***************************************************************************)
(* Deduplication.  Without clear() the call that fetches is the registered *)
(* one; with clear() a registered promise is still never a settled one.    *)
(***************************************************************************)
LeaderRegistered ==
  MaxClears = 0 => \A c \in Calls : pc[c] \in Leading => inflight[via[c]] = c

RegistryInv == InflightIsLive /\ LeaderRegistered

LEMMA InitRegistry == Init => RegistryInv
  BY DEF Init, RegistryInv, InflightIsLive, LeaderRegistered, Leading, Fetching

(* Steps that keep calls inside, or outside, the fetch they are in. *)
LEMMA RegistryKept ==
  ASSUME TypeInv, RegistryInv, inflight' = inflight,
         \A c \in Calls : pc[c] \in Leading => via'[c] = via[c],
         \A c \in Calls : pc'[c] \in Leading <=> pc[c] \in Leading
  PROVE  RegistryInv'
  BY DEF TypeInv, TypeOK, RegistryInv, InflightIsLive, LeaderRegistered

LEMMA FailAttemptStays ==
  ASSUME TypeInv, NEW c \in Calls, NEW f \in Failures, FailAttempt(c, f),
         pc[c] \in Leading
  PROVE  \A d \in Calls : pc'[d] \in Leading <=> pc[d] \in Leading
  BY DEF FailAttempt, Goto, TypeInv, TypeOK, Leading, Fetching

LEMMA NextRegistry == TypeInv /\ RegistryInv /\ [Next]_vars => RegistryInv'
<1> SUFFICES ASSUME TypeInv, RegistryInv, [Next]_vars PROVE RegistryInv'
  OBVIOUS
<1> USE DEF endpointVars, cacheVars, fetchVars, argVars
<1>1. ASSUME NEW c \in Calls,
             Starts(c) \/ StoreGet(c) \/ Hit(c) \/ Join(c) \/ Resume(c)
      PROVE  RegistryInv'
  <2>1. inflight' = inflight /\ \A d \in Calls : pc[d] \in Leading => via'[d] = via[d]
    BY <1>1 DEF Starts, Start, StoreGet, Hit, Join, Resume, TypeInv, TypeOK, Leading, Fetching
  <2>2. \A d \in Calls : pc'[d] \in Leading <=> pc[d] \in Leading
    BY <1>1 DEF Starts, Start, Goto, StoreGet, Hit, Join, Resume, TypeInv, TypeOK,
                Leading, Fetching
  <2>3. QED  BY <2>1, <2>2, RegistryKept
<1>2. ASSUME NEW c \in Calls, Lead(c) PROVE RegistryInv'
  <2>1. /\ pc[c] = "read" /\ pc[c] \notin Leading /\ pc'[c] \in Leading
        /\ via[c] \in Caches
        /\ \A d \in Calls \ {c} : pc'[d] = pc[d]
        /\ via' = via
        /\ inflight[via[c]] = None
        /\ inflight' = [inflight EXCEPT ![via[c]] = c]
    BY <1>2 DEF Lead, Existing, Goto, TypeInv, TypeOK, PlaceInv, Leading, Fetching
  <2>2. InflightIsLive'
    BY <2>1 DEF RegistryInv, InflightIsLive, TypeInv, TypeOK
  <2>3. LeaderRegistered'
    BY <2>1, DistinctAssumption
       DEF RegistryInv, LeaderRegistered, TypeInv, TypeOK, PlaceInv, Leading, Fetching
  <2>4. QED  BY <2>2, <2>3 DEF RegistryInv
<1>3. ASSUME NEW c \in Calls, ReceiveKeys(c) \/ Wake(c) \/ StoreSet(c) \/ Answer(c)
      PROVE  RegistryInv'
  <2>1. UNCHANGED <<inflight, via>>
    BY <1>3 DEF ReceiveKeys, Wake, StoreSet, Answer
  <2>2. \A d \in Calls : pc'[d] \in Leading <=> pc[d] \in Leading
    BY <1>3 DEF ReceiveKeys, Wake, StoreSet, Answer, Goto, TypeInv, TypeOK, Leading, Fetching
  <2>3. QED  BY <2>1, <2>2, RegistryKept
<1>4. ASSUME NEW c \in Calls, CallbackThrows(c) \/ ReceiveError(c) \/ Abort(c)
      PROVE  RegistryInv'
  <2>1. UNCHANGED <<inflight, via>>
    BY <1>4 DEF CallbackThrows, ReceiveError, Abort
  <2>2. pc[c] \in Leading /\ \E f \in Failures : FailAttempt(c, f)
    BY <1>4 DEF CallbackThrows, ReceiveError, Abort, Leading, Fetching, Failures
  <2>3. QED  BY <2>1, <2>2, FailAttemptStays, RegistryKept
<1>5. ASSUME NEW c \in Calls, Finally(c) PROVE RegistryInv'
  <2>1. /\ pc[c] \in Leading
        /\ pc' = [pc EXCEPT ![c] = "returned"]
        /\ via' = via
        /\ inflight' = [inflight EXCEPT ![via[c]] = None]
    BY <1>5 DEF Finally, Deregistered, Leading
  <2>2. InflightIsLive'
    BY <2>1 DEF RegistryInv, InflightIsLive, TypeInv, TypeOK
  <2>3. LeaderRegistered'
    BY <2>1, DistinctAssumption
       DEF RegistryInv, LeaderRegistered, TypeInv, TypeOK, Leading, Fetching
  <2>4. QED  BY <2>2, <2>3 DEF RegistryInv
<1>6. ASSUME NEW i \in Caches, Clear(i) PROVE RegistryInv'
  <2>1. MaxClears # 0
    BY <1>6, ConstantsAssumption DEF Clear, TypeInv, TypeOK
  <2>2. QED
    BY <1>6, <2>1
       DEF Clear, callVars, RegistryInv, InflightIsLive, LeaderRegistered, TypeInv, TypeOK
<1>7. ASSUME \/ \E i \in Caches : StoreClear(i)
             \/ \E s \in Stores : Expire(s)
             \/ Rotate \/ Tick \/ UNCHANGED vars
      PROVE  RegistryInv'
  <2>1. UNCHANGED <<inflight, via, pc>>
    BY <1>7 DEF StoreClear, Expire, Rotate, Tick, vars, callVars
  <2>2. QED  BY <2>1, RegistryKept
<1>8. QED
  BY <1>1, <1>2, <1>3, <1>4, <1>5, <1>6, <1>7 DEF Next, Step, Starts, Progress, Terminated

LEMMA RegistryCorrect == Spec => [](TypeInv /\ RegistryInv)
  BY InitType, NextType, InitRegistry, NextRegistry, PTL DEF Spec

(* What is registered in inflight is always a promise whose creator has    *)
(* yet to run its finally, whatever clear() dropped before.                *)
THEOREM RegisteredIsLive == Spec => []InflightIsLive
  BY RegistryCorrect, PTL DEF RegistryInv

(* An instance whose clear() is never called never runs two fetches at     *)
(* once, however slow its adapter is.                                      *)
THEOREM Deduplicated ==
  ASSUME MaxClears = 0
  PROVE  Spec => []OneFetchPerEpoch
<1>1. TypeInv /\ RegistryInv => OneFetchPerEpoch
  BY DEF RegistryInv, LeaderRegistered, OneFetchPerEpoch, Leading
<1>2. QED  BY <1>1, RegistryCorrect, PTL

-----------------------------------------------------------------------------
(***************************************************************************)
(* Staleness.  The invariant says of every copy of a key set, in a store,  *)
(* in a call or on its way from the endpoint, that it was served at most   *)
(* timeoutMs before its fetchedAt.                                         *)
(***************************************************************************)
Fresh(e) ==
  /\ e.fetchedAt <= now
  /\ retired[e.version] # None => e.fetchedAt <= retired[e.version] + timeoutMs

FreshInv ==
  /\ \A s \in Stores : store[s] # None => Fresh(store[s])
  /\ \A c \in Calls : entry[c] # None => Fresh(entry[c])

(* No wait is overrun, and an answer is no older than its attempt. *)
OnTime(c) ==
  /\ started[c] <= now
  /\ pc[c] \in Waiting => now <= timer[c]
  /\ pc[c] \in {"sent", "answered"} => timer[c] <= now + timeoutMs
  /\ pc[c] = "answered" /\ reply[c] \in Versions /\ retired[reply[c]] # None
       => timer[c] <= retired[reply[c]] + timeoutMs

TimeInv ==
  /\ \A v \in Versions : served <= v => retired[v] = None
  /\ \A c \in Calls : OnTime(c)

AgeInv == TypeInv /\ FreshInv /\ TimeInv

LEMMA InitAge == Init => AgeInv
  BY InitType DEF Init, AgeInv, FreshInv, TimeInv, OnTime, Waiting, Leading, Fetching

(* The clock moves, or a version is retired: copies stay fresh. *)
LEMMA FreshKept ==
  ASSUME TypeInv, NEW e \in Entries, Fresh(e), now' \in Nat, now <= now',
         \A v \in Versions : retired'[v] = retired[v] \/ retired'[v] = now
  PROVE  Fresh(e)'
  BY ConstantsAssumption DEF Fresh, Entries, TypeInv, TypeOK

LEMMA NextFresh == AgeInv /\ [Next]_vars => FreshInv'
<1> SUFFICES ASSUME AgeInv, [Next]_vars PROVE FreshInv'
  OBVIOUS
<1> USE DEF endpointVars, cacheVars, fetchVars, argVars
<1>1. \A e \in Entries : Fresh(e) => Fresh(e)'
  <2>1. CASE Rotate
    BY <2>1, FreshKept DEF Rotate, AgeInv, TypeInv, TypeOK
  <2>2. CASE Tick
    BY <2>2, FreshKept DEF Tick, AgeInv, TypeInv, TypeOK
  <2>3. CASE ~Rotate /\ ~Tick
    <3>1. UNCHANGED <<now, retired>>
      BY <2>3
         DEF Next, Step, Starts, Progress, Start, StoreGet, Hit, Join, Lead, ReceiveKeys,
             CallbackThrows, ReceiveError, Abort, Wake, StoreSet, Finally, Resume,
             Answer, Clear, StoreClear, Expire, Terminated, vars
    <3>2. QED  BY <3>1, FreshKept DEF AgeInv, TypeInv, TypeOK
  <2>4. QED  BY <2>1, <2>2, <2>3
<1>2. /\ \A s \in Stores : store[s] # None => store[s] \in Entries
      /\ \A c \in Calls : entry[c] # None => entry[c] \in Entries
  BY DEF AgeInv, TypeInv, TypeOK
<1>3. ASSUME NEW c \in Calls, StoreGet(c) PROVE FreshInv'
  BY <1>1, <1>2, <1>3, ConstantsAssumption
     DEF StoreGet, StoreFor, AgeInv, FreshInv, TypeInv, TypeOK, PlaceInv
<1>4. ASSUME NEW c \in Calls, ReceiveKeys(c) PROVE FreshInv'
  <2>1. reply[c] \in Versions /\ pc[c] = "answered" /\ UNCHANGED <<now, retired, store>>
    BY <1>4 DEF ReceiveKeys
  <2>2. Fetched(c) \in Entries /\ Fetched(c).fetchedAt = now /\ Fetched(c).version = reply[c]
    BY <2>1 DEF Fetched, Entries, AgeInv, TypeInv, TypeOK
  <2>3. Fresh(Fetched(c))
    BY <2>1, <2>2, ConstantsAssumption
       DEF Fresh, AgeInv, TimeInv, OnTime, TypeInv, TypeOK, Waiting, Leading, Fetching
  <2>4. entry' = [entry EXCEPT ![c] = Fetched(c)]
    BY <1>4 DEF ReceiveKeys
  <2>5. \A d \in Calls : entry'[d] # None => entry'[d] \in Entries /\ Fresh(entry'[d])
    BY <1>2, <2>2, <2>3, <2>4 DEF AgeInv, FreshInv, TypeInv, TypeOK
  <2>6. \A d \in Calls : entry'[d] # None => Fresh(entry[d])'
    BY <2>1, <2>5 DEF Fresh
  <2>7. \A s \in Stores : store'[s] # None => Fresh(store[s])'
    BY <2>1 DEF Fresh, AgeInv, FreshInv
  <2>8. QED  BY <2>6, <2>7 DEF FreshInv
<1>5. ASSUME NEW c \in Calls, StoreSet(c) PROVE FreshInv'
  <2>1. entry[c] \in Entries /\ Fresh(entry[c])
    BY <1>5, DistinctAssumption
       DEF StoreSet, AgeInv, FreshInv, TypeInv, PlaceInv
  <2>2. QED
    BY <1>1, <1>2, <1>5, <2>1, ConstantsAssumption
       DEF StoreSet, StoreFor, AgeInv, FreshInv, TypeInv, TypeOK
<1>6. ASSUME \/ \E i \in Caches : Clear(i) \/ StoreClear(i)
             \/ \E s \in Stores : Expire(s)
      PROVE  FreshInv'
  <2>1. entry' = entry
    BY <1>6 DEF Clear, StoreClear, Expire, callVars
  <2>2. \A s \in Stores : store'[s] # None => store'[s] = store[s]
    BY <1>6 DEF Clear, StoreClear, Expire, AgeInv, TypeInv, TypeOK
  <2>3. QED  BY <1>1, <1>2, <2>1, <2>2 DEF AgeInv, FreshInv
<1>7. ASSUME UNCHANGED <<store, entry>> PROVE FreshInv'
  BY <1>1, <1>2, <1>7 DEF AgeInv, FreshInv
<1>8. ASSUME NEW c \in Calls, Starts(c) \/ Hit(c) \/ Join(c) \/ Lead(c)
             \/ CallbackThrows(c) \/ ReceiveError(c) \/ Abort(c) \/ Wake(c)
             \/ Finally(c) \/ Resume(c) \/ Answer(c)
      PROVE  UNCHANGED <<store, entry>>
  BY <1>8 DEF Starts, Start, Hit, Join, Lead, CallbackThrows, ReceiveError, Abort, Wake,
              Finally, Resume, Answer
<1>9. ASSUME Rotate \/ Tick \/ UNCHANGED vars PROVE UNCHANGED <<store, entry>>
  BY <1>9 DEF Rotate, Tick, vars, callVars
<1>10. QED
  BY <1>3, <1>4, <1>5, <1>6, <1>7, <1>8, <1>9 DEF Next, Step, Starts, Progress, Terminated

LEMMA TimeKept ==
  ASSUME AgeInv, NEW c \in Calls, UNCHANGED <<now, endpointVars>>,
         \A d \in Calls \ {c} :
           /\ started'[d] = started[d] /\ pc'[d] = pc[d]
           /\ timer'[d] = timer[d] /\ reply'[d] = reply[d],
         OnTime(c)'
  PROVE  TimeInv'
  BY DEF AgeInv, TimeInv, OnTime, endpointVars

LEMMA FailAttemptOnTime ==
  ASSUME AgeInv, NEW c \in Calls, NEW f \in Failures, FailAttempt(c, f),
         UNCHANGED <<now, endpointVars, started, reply>>
  PROVE  TimeInv'
<1>1. attempt[c] \in 0 .. maxRetries /\ Backoff(attempt[c]) \in Nat
  BY ConstantsAssumption, BackoffAssumption DEF AgeInv, TypeInv, TypeOK, Attempts
<1>2. pc'[c] \in {"sleeping", "settled"} /\ now <= timer'[c]
  BY <1>1 DEF FailAttempt, Goto, AgeInv, TypeInv, TypeOK
<1>3. OnTime(c)'
  BY <1>2 DEF AgeInv, TimeInv, OnTime
<1>4. \A d \in Calls \ {c} : pc'[d] = pc[d] /\ timer'[d] = timer[d]
  BY DEF FailAttempt, Goto, AgeInv, TypeInv, TypeOK
<1>5. QED  BY <1>3, <1>4, TimeKept

LEMMA NextTime == AgeInv /\ [Next]_vars => TimeInv'
<1> SUFFICES ASSUME AgeInv, [Next]_vars PROVE TimeInv'
  OBVIOUS
<1> USE DEF endpointVars, cacheVars, fetchVars, argVars
<1>1. ASSUME NEW c \in Calls, Starts(c) PROVE TimeInv'
  BY <1>1, ConstantsAssumption, TimeKept
     DEF Starts, Start, Goto, AgeInv, TimeInv, OnTime, TypeInv, TypeOK, Waiting, Leading, Fetching
<1>2. ASSUME NEW c \in Calls, StoreGet(c) PROVE TimeInv'
  BY <1>2, TimeKept
     DEF StoreGet, AgeInv, TimeInv, OnTime, TypeInv, TypeOK, Waiting, Leading, Fetching
<1>3. ASSUME NEW c \in Calls, Hit(c) \/ Join(c) \/ Finally(c) \/ Resume(c) PROVE TimeInv'
  <2>1. /\ pc'[c] \in {"joined", "returned"}
        /\ \A d \in Calls \ {c} : pc'[d] = pc[d]
        /\ UNCHANGED <<now, endpointVars, started, timer, reply>>
    BY <1>3 DEF Hit, Join, Finally, Resume, AgeInv, TypeInv, TypeOK
  <2>2. OnTime(c)'
    BY <2>1 DEF AgeInv, TimeInv, OnTime, Waiting, Leading, Fetching
  <2>3. QED  BY <2>1, <2>2, TimeKept
<1>4. ASSUME NEW c \in Calls, Lead(c) PROVE TimeInv'
  <2>1. /\ \/ pc'[c] = "sent" /\ timer'[c] = now + timeoutMs
           \/ pc'[c] = "settled" /\ timer'[c] = now
        /\ \A d \in Calls \ {c} : pc'[d] = pc[d] /\ timer'[d] = timer[d]
        /\ UNCHANGED <<now, endpointVars, started, reply>>
    BY <1>4 DEF Lead, Goto, AgeInv, TypeInv, TypeOK
  <2>2. OnTime(c)'
    BY <2>1, ConstantsAssumption DEF AgeInv, TimeInv, OnTime, TypeInv, TypeOK
  <2>3. QED  BY <2>1, <2>2, TimeKept
<1>5. ASSUME NEW c \in Calls, ReceiveKeys(c) PROVE TimeInv'
  <2>1. /\ pc'[c] = "writing" /\ timer'[c] = now + StoreMs
        /\ \A d \in Calls \ {c} : pc'[d] = pc[d] /\ timer'[d] = timer[d]
        /\ UNCHANGED <<now, endpointVars, started, reply>>
    BY <1>5 DEF ReceiveKeys, Goto, AgeInv, TypeInv, TypeOK
  <2>2. OnTime(c)'
    BY <2>1, ConstantsAssumption DEF AgeInv, TimeInv, OnTime, TypeInv, TypeOK
  <2>3. QED  BY <2>1, <2>2, TimeKept
<1>6. ASSUME NEW c \in Calls, CallbackThrows(c) \/ ReceiveError(c) \/ Abort(c)
      PROVE  TimeInv'
  <2>1. /\ \E f \in Failures : FailAttempt(c, f)
        /\ UNCHANGED <<now, endpointVars, started, reply>>
    BY <1>6 DEF CallbackThrows, ReceiveError, Abort, Failures
  <2>2. QED  BY <2>1, FailAttemptOnTime
<1>7. ASSUME NEW c \in Calls, Wake(c) PROVE TimeInv'
  <2>1. /\ pc'[c] = "sent" /\ timer'[c] = now + timeoutMs
        /\ \A d \in Calls \ {c} :
             pc'[d] = pc[d] /\ timer'[d] = timer[d] /\ reply'[d] = reply[d]
        /\ UNCHANGED <<now, endpointVars, started>>
    BY <1>7 DEF Wake, Goto, AgeInv, TypeInv, TypeOK
  <2>2. OnTime(c)'
    BY <2>1, ConstantsAssumption DEF AgeInv, TimeInv, OnTime, TypeInv, TypeOK
  <2>3. QED  BY <2>1, <2>2, TimeKept
<1>8. ASSUME NEW c \in Calls, StoreSet(c) PROVE TimeInv'
  BY <1>8, TimeKept
     DEF StoreSet, AgeInv, TimeInv, OnTime, TypeInv, TypeOK, Waiting, Leading, Fetching
<1>9. ASSUME NEW c \in Calls, Answer(c) PROVE TimeInv'
  <2>1. /\ pc[c] = "sent" /\ pc'[c] = "answered"
        /\ reply'[c] \in {served} \cup Failures
        /\ \A d \in Calls \ {c} : pc'[d] = pc[d] /\ reply'[d] = reply[d]
        /\ UNCHANGED <<now, endpointVars, started, timer>>
    BY <1>9 DEF Answer, AgeInv, TypeInv, TypeOK
  <2>2. reply'[c] \in Versions => retired[reply'[c]] = None
    BY <2>1, ConstantsAssumption, DistinctAssumption
       DEF AgeInv, TimeInv, OnTime, TypeInv, TypeOK, Versions, Failures
  <2>3. OnTime(c)'
    BY <2>1, <2>2 DEF AgeInv, TimeInv, OnTime, Waiting, Leading, Fetching
  <2>4. QED  BY <2>1, <2>3, TimeKept
<1>10. CASE Rotate
  <2>1. /\ \A v \in Versions : served' <= v => retired'[v] = None
        /\ \A v \in Versions : retired'[v] # None => retired'[v] = retired[v] \/ retired'[v] = now
    BY <1>10, ConstantsAssumption DEF Rotate, AgeInv, TimeInv, OnTime, TypeInv, TypeOK, Versions
  <2>2. UNCHANGED <<now, started, pc, timer, reply>>
    BY <1>10 DEF Rotate, callVars
  <2>3. QED
    BY <2>1, <2>2, ConstantsAssumption DEF AgeInv, TimeInv, OnTime, TypeInv, TypeOK
<1>11. CASE Tick
  <2>1. /\ now' = now + 1
        /\ UNCHANGED <<served, retired, started, pc, timer, reply>>
        /\ \A c \in Calls : pc[c] \in Waiting => now < timer[c]
    BY <1>11 DEF Tick, Due, callVars, AgeInv, TypeInv, TypeOK
  <2>2. QED
    BY <2>1, ConstantsAssumption
    DEF AgeInv, TimeInv, OnTime, TypeInv, TypeOK, Waiting, Leading, Fetching
<1>12. ASSUME \/ \E i \in Caches : Clear(i) \/ StoreClear(i)
              \/ \E s \in Stores : Expire(s)
              \/ UNCHANGED vars
       PROVE  TimeInv'
  BY <1>12 DEF Clear, StoreClear, Expire, vars, callVars, AgeInv, TimeInv, OnTime
<1>13. QED
  BY <1>1, <1>2, <1>3, <1>4, <1>5, <1>6, <1>7, <1>8, <1>9, <1>10, <1>11, <1>12
     DEF Next, Step, Starts, Progress, Terminated

LEMMA AgeCorrect == AgeInv /\ [Next]_vars => AgeInv'
  BY NextType, NextFresh, NextTime DEF AgeInv

(***************************************************************************)
(* What a fetch hands to those that joined it: keys in its entry, fetched  *)
(* no more than StoreMs before their calls began.                          *)
(***************************************************************************)
Holds(c) == entry[c] \in Entries /\ outcome[c] = entry[c].version

SettleInv ==
  \A c \in Calls :
    /\ pc[c] = "writing" => timer[c] = entry[c].fetchedAt + StoreMs
    /\ pc[c] = "settled" /\ outcome[c] \in Versions
         => Holds(c) /\ timer[c] = entry[c].fetchedAt + StoreMs

Hands(l, t) ==
  /\ pc[l] \in Leading \cup {"returned"}
  /\ pc[l] = "writing" => t <= entry[l].fetchedAt + StoreMs
  /\ pc[l] \in {"settled", "returned"} /\ outcome[l] \in Versions
       => Holds(l) /\ t <= entry[l].fetchedAt + StoreMs

HandInv == \A c \in Calls : pc[c] = "joined" => Hands(leader[c], started[c])

IInv == AgeInv /\ RegistryInv /\ SettleInv /\ HandInv /\ BoundedStaleness

LEMMA InitIInv == Init => IInv
  BY InitAge, InitRegistry
     DEF Init, IInv, SettleInv, HandInv, BoundedStaleness

(* A failed attempt ends in a sleep or in a rejection. *)
LEMMA FailAttemptOutcome ==
  ASSUME TypeInv, NEW c \in Calls, NEW f \in Failures, FailAttempt(c, f)
  PROVE  /\ \/ pc'[c] = "sleeping"
            \/ pc'[c] = "settled" /\ outcome'[c] \notin Versions
         /\ \A d \in Calls \ {c} :
              pc'[d] = pc[d] /\ timer'[d] = timer[d] /\ outcome'[d] = outcome[d]
<1>1. f \notin Versions
  BY DistinctAssumption, ConstantsAssumption DEF Failures, Versions
<1>2. QED  BY <1>1 DEF FailAttempt, Goto, TypeInv, TypeOK

(* What each step does to the variables of the call that takes it.         *)
Frame(c) ==
  /\ \A d \in Calls \ {c} :
       /\ pc'[d] = pc[d] /\ entry'[d] = entry[d] /\ timer'[d] = timer[d]
       /\ outcome'[d] = outcome[d] /\ leader'[d] = leader[d] /\ started'[d] = started[d]
       /\ op'[d] = op[d]
  /\ retired' = retired

LEMMA CallFrame ==
  ASSUME TypeInv, NEW c \in Calls, Starts(c) \/ Progress(c) \/ Answer(c)
  PROVE  Frame(c)
<1> USE DEF endpointVars, cacheVars, fetchVars, argVars
<1>1. CASE CallbackThrows(c) \/ ReceiveError(c) \/ Abort(c)
  BY <1>1, FailAttemptOutcome DEF CallbackThrows, ReceiveError, Abort, Failures, Frame
<1>2. CASE Starts(c) \/ StoreGet(c) \/ Hit(c) \/ Join(c) \/ Lead(c)
  BY <1>2 DEF Starts, Start, Goto, StoreGet, Hit, Join, Lead, Frame, TypeInv, TypeOK
<1>3. CASE ReceiveKeys(c) \/ Wake(c) \/ StoreSet(c) \/ Finally(c) \/ Resume(c) \/ Answer(c)
  BY <1>3 DEF ReceiveKeys, Goto, Wake, StoreSet, Finally, Resume, Answer, Frame,
              TypeInv, TypeOK
<1>4. QED  BY <1>1, <1>2, <1>3 DEF Progress

(* A step of a call keeps the three invariants when it keeps them for that *)
(* call, and keeps handing what it owes to those that joined it.           *)
LEMMA HandKept ==
  ASSUME IInv, NEW c \in Calls, Frame(c),
         (pc[c] = "writing" => timer[c] = entry[c].fetchedAt + StoreMs)',
         (pc[c] = "settled" /\ outcome[c] \in Versions
            => Holds(c) /\ timer[c] = entry[c].fetchedAt + StoreMs)',
         pc'[c] = "joined" => Hands(leader[c], started[c])',
         \A d \in Calls \ {c} : Hands(c, started[d]) => Hands(c, started[d])',
         (pc[c] = "returned" /\ outcome[c] \in Versions /\ retired[outcome[c]] # None
            => retired[outcome[c]] + StalenessBound(c) >= started[c])'
  PROVE  SettleInv' /\ HandInv' /\ BoundedStaleness'
<1>1. SettleInv'
  BY DEF Frame, Holds, IInv, SettleInv
<1>2. ASSUME NEW d \in Calls, pc'[d] = "joined" PROVE Hands(leader[d], started[d])'
  <2>1. CASE d = c
    BY <1>2, <2>1
  <2>2. CASE d # c
    <3>1. /\ pc[d] = "joined" /\ leader'[d] = leader[d] /\ started'[d] = started[d]
          /\ Hands(leader[d], started[d]) /\ leader[d] \in Calls
      BY <1>2, <2>2 DEF Frame, IInv, HandInv, AgeInv, TypeInv, PlaceInv
    <3>2. CASE leader[d] = c
      <4>1. Hands(c, started[d])'
        BY <2>2, <3>1, <3>2
      <4>2. QED  BY <3>1, <3>2, <4>1 DEF Hands, Holds
    <3>3. CASE leader[d] # c
      BY <3>1, <3>3 DEF Hands, Holds, Frame
    <3>4. QED  BY <3>2, <3>3
  <2>3. QED  BY <2>1, <2>2
<1>3. BoundedStaleness'
  BY DEF Frame, StalenessBound, WindowOf, Limit, IInv, BoundedStaleness
<1>4. QED  BY <1>1, <1>2, <1>3 DEF HandInv

LEMMA NextStale ==
  ASSUME IInv, [Next]_vars
  PROVE  SettleInv' /\ HandInv' /\ BoundedStaleness'
<1> USE DEF endpointVars, cacheVars, fetchVars, argVars
<1>1. ASSUME NEW c \in Calls, Starts(c) \/ StoreGet(c)
      PROVE  SettleInv' /\ HandInv' /\ BoundedStaleness'
  <2>1. /\ pc[c] \in {"idle", "reading"} /\ pc'[c] \in {"reading", "read"}
    BY <1>1 DEF Starts, Start, Goto, StoreGet, IInv, AgeInv, TypeInv, TypeOK
  <2>2. Frame(c)
    BY <1>1, CallFrame DEF Progress, IInv, AgeInv
  <2>3. QED
    BY <2>1, <2>2, HandKept DEF Hands, Leading, Fetching
<1>2. ASSUME NEW c \in Calls, Hit(c)
      PROVE  SettleInv' /\ HandInv' /\ BoundedStaleness'
  <2>1. /\ pc[c] = "read" /\ pc'[c] = "returned" /\ outcome'[c] = entry[c].version
        /\ UNCHANGED <<retired, op, started>>
        /\ entry[c] \in Entries /\ now - entry[c].fetchedAt < Limit(c)
    BY <1>2 DEF Hit, Usable, IInv, AgeInv, TypeInv, TypeOK
  <2>2. Frame(c)
    BY <1>2, CallFrame DEF Progress, IInv, AgeInv
  <2>3. retired[entry[c].version] # None
          => retired[entry[c].version] + StalenessBound(c) >= started[c]
    <3>1. Fresh(entry[c]) /\ started[c] <= now
      BY <2>1, DistinctAssumption DEF IInv, AgeInv, FreshInv, TimeInv, OnTime
    <3>2. QED
      BY <2>1, <3>1, ConstantsAssumption
         DEF Fresh, Entries, StalenessBound, WindowOf, Limit, Ops, IInv, AgeInv, TypeInv, TypeOK
  <2>4. (pc[c] = "returned" /\ outcome[c] \in Versions /\ retired[outcome[c]] # None
            => retired[outcome[c]] + StalenessBound(c) >= started[c])'
    BY <2>1, <2>3 DEF StalenessBound, WindowOf, Limit
  <2>5. QED
    BY <2>1, <2>2, <2>4, HandKept DEF Hands, Leading, Fetching
<1>3. ASSUME NEW c \in Calls, Join(c)
      PROVE  SettleInv' /\ HandInv' /\ BoundedStaleness'
  <2>1. /\ pc[c] = "read" /\ pc'[c] = "joined" /\ op' = op
        /\ UNCHANGED <<entry, timer, outcome, started>>
        /\ leader'[c] = inflight[via[c]] /\ inflight[via[c]] \in Calls
        /\ \A d \in Calls \ {c} : pc'[d] = pc[d]
    BY <1>3 DEF Join, Existing, IInv, AgeInv, TypeInv, TypeOK, PlaceInv
  <2>2. Frame(c)
    BY <1>3, CallFrame DEF Progress, IInv, AgeInv
  <2> DEFINE l == inflight[via[c]]
  <2>3. l \in Calls /\ pc[l] \in Leading /\ l # c
    BY <2>1, DistinctAssumption
       DEF IInv, RegistryInv, InflightIsLive, AgeInv, TypeInv, TypeOK, PlaceInv,
           Leading, Fetching
  <2>4. Hands(l, started[c])
    <3>1. started[c] <= now /\ now <= timer[l]
      BY <2>3 DEF IInv, AgeInv, TimeInv, OnTime, Waiting
    <3>2. CASE pc[l] = "writing"
      <4>1. entry[l] \in Entries /\ timer[l] = entry[l].fetchedAt + StoreMs
        BY <2>3, <3>2 DEF IInv, SettleInv, AgeInv, TypeInv, PlaceInv
      <4>2. QED
        BY <2>3, <3>1, <3>2, <4>1 DEF Hands, IInv, AgeInv, TypeInv, TypeOK
    <3>3. CASE pc[l] = "settled" /\ outcome[l] \in Versions
      <4>1. Holds(l) /\ timer[l] = entry[l].fetchedAt + StoreMs
        BY <2>3, <3>3 DEF IInv, SettleInv
      <4>2. QED
        BY <2>3, <3>1, <3>3, <4>1 DEF Hands, IInv, AgeInv, TypeInv, TypeOK
    <3>4. CASE pc[l] # "writing" /\ ~(pc[l] = "settled" /\ outcome[l] \in Versions)
      BY <2>3, <3>4 DEF Hands, Leading, Fetching
    <3>5. QED  BY <3>2, <3>3, <3>4
  <2>5. Hands(leader[c], started[c])'
    BY <2>1, <2>3, <2>4 DEF Hands, Holds
  <2>6. QED
    BY <2>1, <2>2, <2>5, HandKept DEF Hands, Leading, Fetching
<1>4. ASSUME NEW c \in Calls, Lead(c)
      PROVE  SettleInv' /\ HandInv' /\ BoundedStaleness'
  <2>1. /\ pc[c] = "read" /\ op' = op
        /\ \/ pc'[c] = "sent"
           \/ pc'[c] = "settled" /\ outcome'[c] = Fatal
    BY <1>4 DEF Lead, Goto, IInv, AgeInv, TypeInv, TypeOK
  <2>2. Fatal \notin Versions
    BY DistinctAssumption, ConstantsAssumption DEF Versions
  <2>3. Frame(c)
    BY <1>4, CallFrame DEF Progress, IInv, AgeInv
  <2>4. QED
    BY <2>1, <2>2, <2>3, HandKept DEF Hands, Leading, Fetching
<1>5. ASSUME NEW c \in Calls, ReceiveKeys(c)
      PROVE  SettleInv' /\ HandInv' /\ BoundedStaleness'
  <2>1. /\ pc[c] = "answered" /\ pc'[c] = "writing" /\ UNCHANGED <<op, started>>
        /\ entry'[c].fetchedAt = now /\ timer'[c] = now + StoreMs
    BY <1>5 DEF ReceiveKeys, Goto, Fetched, IInv, AgeInv, TypeInv, TypeOK
  <2>2. Frame(c)
    BY <1>5, CallFrame DEF Progress, IInv, AgeInv
  <2>3. \A d \in Calls : Hands(c, started[d])'
    BY <2>1, ConstantsAssumption
       DEF Hands, Leading, Fetching, IInv, AgeInv, TimeInv, OnTime, TypeInv, TypeOK
  <2>4. QED
    BY <2>1, <2>2, <2>3, HandKept
<1>6. ASSUME NEW c \in Calls, CallbackThrows(c) \/ ReceiveError(c) \/ Abort(c)
      PROVE  SettleInv' /\ HandInv' /\ BoundedStaleness'
  <2>1. /\ \/ pc'[c] = "sleeping"
           \/ pc'[c] = "settled" /\ outcome'[c] \notin Versions
        /\ op' = op
    BY <1>6, FailAttemptOutcome
       DEF CallbackThrows, ReceiveError, Abort, Failures, IInv, AgeInv
  <2>2. Frame(c)
    BY <1>6, CallFrame DEF Progress, IInv, AgeInv
  <2>3. QED
    BY <2>1, <2>2, HandKept DEF Hands, Leading, Fetching
<1>7. ASSUME NEW c \in Calls, Wake(c) \/ Answer(c)
      PROVE  SettleInv' /\ HandInv' /\ BoundedStaleness'
  <2>1. pc'[c] \in {"sent", "answered"} /\ op' = op
    BY <1>7 DEF Wake, Goto, Answer, IInv, AgeInv, TypeInv, TypeOK
  <2>2. Frame(c)
    BY <1>7, CallFrame DEF Progress, IInv, AgeInv
  <2>3. QED
    BY <2>1, <2>2, HandKept DEF Hands, Leading, Fetching
<1>8. ASSUME NEW c \in Calls, StoreSet(c)
      PROVE  SettleInv' /\ HandInv' /\ BoundedStaleness'
  <2>1. /\ pc[c] = "writing" /\ pc'[c] = "settled" /\ outcome'[c] = entry[c].version
        /\ UNCHANGED <<op, started, timer, entry>>
        /\ entry[c] \in Entries /\ timer[c] = entry[c].fetchedAt + StoreMs
    BY <1>8 DEF StoreSet, IInv, SettleInv, AgeInv, TypeInv, TypeOK, PlaceInv
  <2>2. Frame(c)
    BY <1>8, CallFrame DEF Progress, IInv, AgeInv
  <2>3. Holds(c)' /\ (timer[c] = entry[c].fetchedAt + StoreMs)'
    BY <2>1 DEF Holds
  <2>4. QED
    BY <2>1, <2>2, <2>3, HandKept DEF Hands, Leading, Fetching
<1>9. ASSUME NEW c \in Calls, Finally(c)
      PROVE  SettleInv' /\ HandInv' /\ BoundedStaleness'
  <2>1. /\ pc[c] = "settled" /\ pc'[c] = "returned"
        /\ UNCHANGED <<op, started, timer, entry, outcome, retired>>
    BY <1>9 DEF Finally, IInv, AgeInv, TypeInv, TypeOK
  <2>2. Frame(c)
    BY <1>9, CallFrame DEF Progress, IInv, AgeInv
  <2>3. ASSUME outcome[c] \in Versions, retired[outcome[c]] # None
        PROVE  retired[outcome[c]] + StalenessBound(c) >= started[c]
    <3>1. /\ Holds(c) /\ timer[c] = entry[c].fetchedAt + StoreMs
          /\ now <= timer[c] /\ started[c] <= now
      BY <2>1, <2>3 DEF IInv, SettleInv, AgeInv, TimeInv, OnTime, Waiting, Leading
    <3>2. Fresh(entry[c])
      BY <3>1, DistinctAssumption DEF Holds, IInv, AgeInv, FreshInv
    <3>3. QED
      BY <2>3, <3>1, <3>2, ConstantsAssumption
         DEF Fresh, Holds, Entries, StalenessBound, WindowOf, Limit, Ops, IInv, AgeInv,
             TypeInv, TypeOK
  <2>4. (pc[c] = "returned" /\ outcome[c] \in Versions /\ retired[outcome[c]] # None
            => retired[outcome[c]] + StalenessBound(c) >= started[c])'
    BY <2>1, <2>3 DEF StalenessBound, WindowOf, Limit
  <2>5. QED
    BY <2>1, <2>2, <2>4, HandKept DEF Hands, Holds, Leading, Fetching
<1>10. ASSUME NEW c \in Calls, Resume(c)
       PROVE  SettleInv' /\ HandInv' /\ BoundedStaleness'
  <2>1. /\ pc[c] = "joined" /\ pc'[c] = "returned"
        /\ UNCHANGED <<op, started, retired>>
        /\ outcome'[c] = outcome[leader[c]] /\ pc[leader[c]] = "returned"
        /\ leader[c] \in Calls
    BY <1>10 DEF Resume, Settled, IInv, AgeInv, TypeInv, TypeOK, PlaceInv
  <2>2. Frame(c)
    BY <1>10, CallFrame DEF Progress, IInv, AgeInv
  <2> DEFINE l == leader[c]
  <2>3. ASSUME outcome[l] \in Versions, retired[outcome[l]] # None
        PROVE  retired[outcome[l]] + StalenessBound(c) >= started[c]
    <3>1. Holds(l) /\ started[c] <= entry[l].fetchedAt + StoreMs
      BY <2>1, <2>3 DEF IInv, HandInv, Hands
    <3>2. Fresh(entry[l])
      BY <2>1, <3>1, DistinctAssumption DEF Holds, IInv, AgeInv, FreshInv
    <3>3. QED
      BY <2>1, <2>3, <3>1, <3>2, ConstantsAssumption
         DEF Fresh, Holds, Entries, StalenessBound, WindowOf, Limit, Ops, IInv, AgeInv,
             TypeInv, TypeOK
  <2>4. (pc[c] = "returned" /\ outcome[c] \in Versions /\ retired[outcome[c]] # None
            => retired[outcome[c]] + StalenessBound(c) >= started[c])'
    BY <2>1, <2>3 DEF StalenessBound, WindowOf, Limit
  <2>5. \A d \in Calls : ~Hands(c, started[d])
    BY <2>1 DEF Hands, Leading, Fetching
  <2>6. QED
    BY <2>1, <2>2, <2>4, <2>5, HandKept
<1>11. CASE Rotate
  <2>1. /\ UNCHANGED callVars /\ now' = now
        /\ \A v \in Versions : retired'[v] = retired[v] \/ retired'[v] = now
    BY <1>11 DEF Rotate, IInv, AgeInv, TypeInv, TypeOK
  <2>2. BoundedStaleness'
    BY <2>1, ConstantsAssumption
       DEF callVars, IInv, AgeInv, TypeInv, TypeOK, TimeInv, OnTime, BoundedStaleness,
           StalenessBound, WindowOf, Limit, Ops
  <2>3. QED
    BY <2>1, <2>2 DEF callVars, IInv, SettleInv, HandInv, Hands, Holds
<1>12. ASSUME \/ \E i \in Caches : Clear(i) \/ StoreClear(i)
              \/ \E s \in Stores : Expire(s)
              \/ Tick \/ UNCHANGED vars
       PROVE  SettleInv' /\ HandInv' /\ BoundedStaleness'
  <2>1. UNCHANGED <<callVars, retired>>
    BY <1>12 DEF Clear, StoreClear, Expire, Tick, vars
  <2>2. QED
    BY <2>1 DEF callVars, IInv, SettleInv, HandInv, Hands, Holds, BoundedStaleness,
                StalenessBound, WindowOf, Limit
<1>13. QED
  BY <1>1, <1>2, <1>3, <1>4, <1>5, <1>6, <1>7, <1>8, <1>9, <1>10, <1>11, <1>12
     DEF Next, Step, Starts, Progress, Terminated

LEMMA IInvCorrect == Spec => []IInv
<1>1. IInv /\ [Next]_vars => IInv'
  BY AgeCorrect, NextRegistry, NextStale DEF IInv, AgeInv
<1>2. QED  BY <1>1, InitIInv, PTL DEF Spec

(* No call returns keys that the endpoint stopped serving longer before    *)
(* the call than the limit that governs it, whoever fetched them, however  *)
(* calls, writes and clear() interleave, and whatever the adapter loses.   *)
THEOREM NeverTooStale == Spec => []BoundedStaleness
  BY IInvCorrect, PTL DEF IInv

-----------------------------------------------------------------------------
(***************************************************************************)
(* Rejections.  A rejection is earned where the fetch ends, and handed on  *)
(* unchanged: the call that fetches has no leader of its own.              *)
(***************************************************************************)
Earned(f) ==
  /\ led[f] # None
  /\ outcome[f] = Transient => attempt[f] = maxRetries - 1
  /\ outcome[f] = Fatal => maxRetries = 0 \/ reply[f] = Fatal

LedInv(c) ==
  /\ pc[c] \in {"idle", "reading", "read"} => leader[c] = None
  /\ pc[c] \in Leading => led[c] # None /\ leader[c] = None
  /\ pc[c] \in Fetching => maxRetries > 0
  /\ pc[c] \notin {"settled", "returned"} => outcome[c] = None

FollowInv(c) ==
  leader[c] # None =>
    /\ leader[c] \in Calls /\ leader[leader[c]] = None
    /\ pc[leader[c]] \in Leading \cup {"returned"}
    /\ outcome[c] # None =>
         pc[leader[c]] = "returned" /\ outcome[c] = outcome[leader[c]]

EarnInv ==
  \A c \in Calls :
    /\ LedInv(c)
    /\ FollowInv(c)
    /\ outcome[c] \in Failures =>
         Earned(IF leader[c] = None THEN c ELSE leader[c])

LEMMA InitEarn == Init => EarnInv
  BY DistinctAssumption
     DEF Init, EarnInv, LedInv, FollowInv, Failures, Leading, Fetching

(* A step of c that keeps its leader and earns what it is rejected with.   *)
LEMMA EarnKept ==
  ASSUME TypeInv, EarnInv, NEW c \in Calls,
         pc[c] # "returned",
         \A d \in Calls \ {c} :
           /\ pc'[d] = pc[d] /\ leader'[d] = leader[d] /\ outcome'[d] = outcome[d]
           /\ led'[d] = led[d] /\ attempt'[d] = attempt[d] /\ reply'[d] = reply[d],
         leader' = leader,
         pc[c] \in Leading => pc'[c] \in Leading \cup {"returned"},
         pc[c] = "settled" => UNCHANGED <<led, outcome, attempt, reply>>,
         LedInv(c)',
         outcome'[c] # None => leader[c] = None,
         outcome'[c] \in Failures => Earned(c)'
  PROVE  EarnInv'
<1>1. ASSUME NEW d \in Calls PROVE LedInv(d)'
  BY <1>1 DEF EarnInv, LedInv
<1>2. ASSUME NEW d \in Calls PROVE FollowInv(d)'
  BY <1>2 DEF EarnInv, FollowInv
<1>3. ASSUME NEW d \in Calls, outcome'[d] \in Failures
      PROVE  Earned(IF leader[d] = None THEN d ELSE leader[d])'
  <2>1. outcome'[d] # None
    BY <1>3, DistinctAssumption DEF Failures
  <2>2. CASE d = c
    <3>1. leader'[d] = None
      BY <2>1, <2>2
    <3>2. Earned(d)'
      BY <1>3, <2>2
    <3>3. QED  BY <3>1, <3>2 DEF Earned
  <2>3. CASE d # c
    <3> DEFINE f == IF leader[d] = None THEN d ELSE leader[d]
    <3>1. outcome[d] \in Failures /\ outcome[d] # None /\ leader'[d] = leader[d]
      BY <1>3, <2>1, <2>3
    <3>2. Earned(f)
      BY <3>1 DEF EarnInv
    <3>3. f \in Calls /\ f # c
      BY <2>3, <3>1 DEF EarnInv, FollowInv
    <3>4. Earned(f)'
      BY <3>1, <3>2, <3>3 DEF Earned
    <3>5. QED  BY <3>1, <3>4 DEF Earned
  <2>4. QED  BY <2>2, <2>3
<1>4. QED  BY <1>1, <1>2, <1>3 DEF EarnInv

LEMMA NextEarn ==
  ASSUME TypeInv, RegistryInv, EarnInv, [Next]_vars
  PROVE  EarnInv'
<1> USE DEF endpointVars, cacheVars, fetchVars, argVars
<1>1. Transient \notin Versions \cup {None, Fatal} /\ Fatal \notin Versions \cup {None}
  BY DistinctAssumption, ConstantsAssumption DEF Versions
<1>2. ASSUME NEW c \in Calls, Starts(c) \/ StoreGet(c) \/ Answer(c) PROVE EarnInv'
  <2>1. /\ pc[c] \in {"idle", "reading", "sent"} /\ pc'[c] \in {"reading", "read", "answered"}
        /\ pc'[c] = "answered" <=> pc[c] = "sent"
        /\ \A d \in Calls \ {c} : pc'[d] = pc[d] /\ reply'[d] = reply[d]
        /\ UNCHANGED <<leader, outcome, led, attempt>>
    BY <1>2 DEF Starts, Start, Goto, StoreGet, Answer, TypeInv, TypeOK
  <2>2. LedInv(c)' /\ outcome[c] = None /\ leader[c] = None
    BY <2>1 DEF EarnInv, LedInv, Leading, Fetching
  <2>3. QED
    BY <1>1, <2>1, <2>2, EarnKept DEF Failures, Leading, Fetching
<1>3. ASSUME NEW c \in Calls, Hit(c) PROVE EarnInv'
  <2>1. /\ pc[c] = "read" /\ pc'[c] = "returned" /\ outcome'[c] \in Versions
        /\ \A d \in Calls \ {c} : pc'[d] = pc[d] /\ outcome'[d] = outcome[d]
        /\ UNCHANGED <<leader, led, attempt, reply>>
    BY <1>3 DEF Hit, Usable, Entries, TypeInv, TypeOK
  <2>2. LedInv(c)' /\ leader[c] = None
    BY <2>1 DEF EarnInv, LedInv, Leading, Fetching
  <2>3. QED
    BY <1>1, <2>1, <2>2, EarnKept DEF Failures, Leading, Fetching
<1>4. ASSUME NEW c \in Calls, Join(c) PROVE EarnInv'
  <2>1. /\ pc' = [pc EXCEPT ![c] = "joined"] /\ pc[c] = "read"
        /\ leader' = [leader EXCEPT ![c] = inflight[via[c]]]
        /\ inflight[via[c]] \in Calls /\ via[c] \in Caches
        /\ UNCHANGED <<outcome, led, attempt, reply>>
    BY <1>4 DEF Join, Existing, TypeInv, TypeOK, PlaceInv
  <2> DEFINE l == inflight[via[c]]
  <2>2. l # c /\ pc[l] \in Leading /\ leader[l] = None /\ outcome[c] = None
    BY <2>1, DistinctAssumption
       DEF RegistryInv, InflightIsLive, EarnInv, LedInv, Leading, Fetching
  <2>3. \A d \in Calls : LedInv(d)'
    BY <2>1 DEF EarnInv, LedInv, Leading, Fetching, TypeInv, TypeOK
  <2>4. \A d \in Calls : FollowInv(d)'
    BY <2>1, <2>2 DEF EarnInv, FollowInv, Leading, Fetching, TypeInv, TypeOK
  <2>5. ASSUME NEW d \in Calls, outcome[d] \in Failures
        PROVE  Earned(IF leader[d] = None THEN d ELSE leader[d])' /\ d # c
    <3> DEFINE f == IF leader[d] = None THEN d ELSE leader[d]
    <3>1. outcome[d] # None /\ d # c
      BY <2>2, <2>5, DistinctAssumption DEF Failures
    <3>2. Earned(f) /\ leader'[d] = leader[d]
      BY <2>1, <2>5, <3>1 DEF EarnInv, TypeInv, TypeOK
    <3>3. Earned(f)'
      BY <2>1, <3>2 DEF Earned
    <3>4. QED  BY <3>1, <3>2, <3>3 DEF Earned
  <2>6. ASSUME NEW d \in Calls, outcome'[d] \in Failures
        PROVE  Earned(IF leader[d] = None THEN d ELSE leader[d])'
    <3>1. outcome[d] \in Failures
      BY <2>1, <2>6
    <3>2. QED  BY <2>5, <3>1
  <2>7. QED
    BY <2>3, <2>4, <2>6 DEF EarnInv
<1>5. ASSUME NEW c \in Calls, Lead(c) PROVE EarnInv'
  <2>1. /\ pc[c] = "read"
        /\ \/ maxRetries > 0 /\ pc'[c] = "sent" /\ outcome'[c] = outcome[c]
           \/ maxRetries = 0 /\ pc'[c] = "settled" /\ outcome'[c] = Fatal
        /\ led'[c] # None
        /\ \A d \in Calls \ {c} :
             pc'[d] = pc[d] /\ outcome'[d] = outcome[d] /\ led'[d] = led[d]
        /\ UNCHANGED <<leader, attempt, reply>>
    BY <1>5, ConstantsAssumption, DistinctAssumption
       DEF Lead, Goto, TypeInv, TypeOK, PlaceInv
  <2>2. LedInv(c)' /\ leader[c] = None /\ outcome[c] = None
    BY <2>1 DEF EarnInv, LedInv, Leading, Fetching
  <2>3. outcome'[c] \in Failures => Earned(c)'
    BY <1>1, <2>1, <2>2 DEF Earned, Failures
  <2>4. QED
    BY <2>1, <2>2, <2>3, EarnKept DEF Leading, Fetching
<1>6. ASSUME NEW c \in Calls, ReceiveKeys(c) \/ Wake(c) PROVE EarnInv'
  <2>1. /\ pc[c] \in Fetching /\ pc'[c] \in {"writing", "sent"}
        /\ \A d \in Calls \ {c} :
             pc'[d] = pc[d] /\ attempt'[d] = attempt[d] /\ reply'[d] = reply[d]
        /\ UNCHANGED <<leader, outcome, led>>
    BY <1>6 DEF ReceiveKeys, Wake, Goto, Fetching, TypeInv, TypeOK
  <2>2. LedInv(c)' /\ outcome[c] = None /\ leader[c] = None
    BY <2>1 DEF EarnInv, LedInv, Leading, Fetching
  <2>3. QED
    BY <1>1, <2>1, <2>2, EarnKept DEF Failures, Leading, Fetching
<1>7. ASSUME NEW c \in Calls, NEW f \in Failures, FailAttempt(c, f),
             pc[c] \in Fetching, f = Fatal => reply[c] = Fatal,
             UNCHANGED <<leader, led, attempt, reply>>
      PROVE  EarnInv'
  <2>1. /\ \/ pc'[c] = "sleeping" /\ outcome'[c] = outcome[c]
           \/ pc'[c] = "settled" /\ outcome'[c] = f /\ ~Retries(c, f)
        /\ \A d \in Calls \ {c} : pc'[d] = pc[d] /\ outcome'[d] = outcome[d]
    BY <1>7 DEF FailAttempt, Goto, TypeInv, TypeOK
  <2>2. LedInv(c)' /\ leader[c] = None /\ led[c] # None /\ outcome[c] = None /\ maxRetries > 0
    BY <1>7, <2>1 DEF EarnInv, LedInv, Leading, Fetching
  <2>3. ASSUME outcome'[c] \in Failures PROVE Earned(c)'
    <3>1. outcome'[c] = f /\ ~Retries(c, f)
      BY <1>1, <2>1, <2>2, <2>3 DEF Failures
    <3>2. f = Transient => attempt[c] = maxRetries - 1
      BY <2>2, <3>1, ConstantsAssumption DEF Retries, TypeInv, TypeOK, Attempts
    <3>3. QED  BY <1>1, <1>7, <2>2, <3>1, <3>2 DEF Earned
  <2>4. QED
    BY <1>7, <2>1, <2>2, <2>3, EarnKept DEF Leading, Fetching
<1>8. ASSUME NEW c \in Calls, CallbackThrows(c) \/ ReceiveError(c) \/ Abort(c)
      PROVE  EarnInv'
  <2>1. /\ \E f \in Failures : FailAttempt(c, f) /\ (f = Fatal => reply[c] = Fatal)
        /\ pc[c] \in Fetching /\ UNCHANGED <<leader, led, attempt, reply>>
    BY <1>1, <1>8 DEF CallbackThrows, ReceiveError, Abort, Failures, Fetching
  <2>2. QED  BY <1>7, <2>1
<1>9. ASSUME NEW c \in Calls, StoreSet(c) PROVE EarnInv'
  <2>1. /\ pc[c] = "writing" /\ pc'[c] = "settled" /\ outcome'[c] \in Versions
        /\ \A d \in Calls \ {c} : pc'[d] = pc[d] /\ outcome'[d] = outcome[d]
        /\ UNCHANGED <<leader, led, attempt, reply>>
    BY <1>9 DEF StoreSet, Entries, TypeInv, TypeOK, PlaceInv
  <2>2. LedInv(c)' /\ leader[c] = None
    BY <2>1 DEF EarnInv, LedInv, Leading, Fetching
  <2>3. QED
    BY <1>1, <2>1, <2>2, EarnKept DEF Failures, Leading, Fetching
<1>10. ASSUME NEW c \in Calls, Finally(c) PROVE EarnInv'
  <2>1. /\ pc[c] = "settled" /\ pc'[c] = "returned"
        /\ \A d \in Calls \ {c} : pc'[d] = pc[d]
        /\ UNCHANGED <<leader, outcome, led, attempt, reply>>
    BY <1>10 DEF Finally, TypeInv, TypeOK
  <2>2. LedInv(c)' /\ leader[c] = None
    BY <2>1 DEF EarnInv, LedInv, Leading, Fetching
  <2>3. outcome'[c] \in Failures => Earned(c)'
    BY <2>1, <2>2 DEF EarnInv, Earned
  <2>4. QED
    BY <2>1, <2>2, <2>3, EarnKept DEF Leading
<1>11. ASSUME NEW c \in Calls, Resume(c) PROVE EarnInv'
  <2>1. /\ pc[c] = "joined" /\ pc' = [pc EXCEPT ![c] = "returned"]
        /\ outcome' = [outcome EXCEPT ![c] = outcome[leader[c]]]
        /\ leader[c] \in Calls /\ pc[leader[c]] = "returned"
        /\ UNCHANGED <<leader, led, attempt, reply>>
    BY <1>11 DEF Resume, Settled, TypeInv, TypeOK, PlaceInv
  <2> DEFINE l == leader[c]
  <2>2. l # c /\ leader[l] = None /\ l # None
    BY <2>1, DistinctAssumption DEF EarnInv, FollowInv
  <2>3. \A d \in Calls : LedInv(d)'
    BY <2>1 DEF EarnInv, LedInv, Leading, Fetching, TypeInv, TypeOK
  <2>4. \A d \in Calls : FollowInv(d)'
    BY <2>1, <2>2 DEF EarnInv, FollowInv, TypeInv, TypeOK
  <2>5. outcome'[c] \in Failures => Earned(l)
    BY <2>1, <2>2 DEF EarnInv, TypeInv, TypeOK
  <2>6. ASSUME NEW d \in Calls, outcome'[d] \in Failures
        PROVE  Earned(IF leader[d] = None THEN d ELSE leader[d])'
    <3>1. CASE d = c
      BY <2>1, <2>2, <2>5, <2>6, <3>1 DEF Earned, TypeInv, TypeOK
    <3>2. CASE d # c
      <4>1. outcome[d] \in Failures
        BY <2>1, <2>6, <3>2 DEF TypeInv, TypeOK
      <4>2. (IF leader[d] = None THEN d ELSE leader[d]) # c
        BY <1>1, <2>1, <2>2, <3>2, <4>1 DEF EarnInv, FollowInv, LedInv, Failures
      <4>3. QED
        BY <2>1, <4>1, <4>2 DEF EarnInv, Earned, TypeInv, TypeOK
    <3>3. QED  BY <3>1, <3>2
  <2>7. QED
    BY <2>1, <2>3, <2>4, <2>6 DEF EarnInv
<1>12. ASSUME \/ \E i \in Caches : Clear(i) \/ StoreClear(i)
              \/ \E s \in Stores : Expire(s)
              \/ Rotate \/ Tick \/ UNCHANGED vars
       PROVE  EarnInv'
  <2>1. UNCHANGED callVars
    BY <1>12 DEF Clear, StoreClear, Expire, Rotate, Tick, vars
  <2>2. QED
    BY <2>1 DEF callVars, EarnInv, LedInv, FollowInv, Earned
<1>13. QED
  BY <1>2, <1>3, <1>4, <1>5, <1>6, <1>8, <1>9, <1>10, <1>11, <1>12
     DEF Next, Step, Starts, Progress, Terminated

(* A call rejects only because its fetch, or the one it joined, ended with *)
(* an error that is not retried or used up its attempts; an adapter that   *)
(* throws never rejects a call.                                            *)
THEOREM OnlyFetchesReject == Spec => []RejectionEarned
<1>1. EarnInv => RejectionEarned
  BY DistinctAssumption DEF EarnInv, FollowInv, Earned, RejectionEarned, Failures
<1>2. Spec => [](TypeInv /\ RegistryInv /\ EarnInv)
  BY InitType, NextType, InitRegistry, NextRegistry, InitEarn, NextEarn, PTL DEF Spec
<1>3. QED  BY <1>1, <1>2, PTL

-----------------------------------------------------------------------------
(***************************************************************************)
(* Refinement.  Every copy of a key set is one that has been published,    *)
(* and a call that has ended has an outcome.                               *)
(***************************************************************************)
Published(c) ==
  /\ entry[c] # None => entry[c].version <= served
  /\ reply[c] \in Versions => reply[c] <= served
  /\ outcome[c] \in Versions => outcome[c] <= served
  /\ pc[c] \in {"settled", "returned"} => outcome[c] # None
  /\ pc[c] = "idle" => op[c] = None

KnownInv ==
  /\ \A s \in Stores : store[s] # None => store[s].version <= served
  /\ \A c \in Calls : Published(c)

LEMMA InitKnown == Init => KnownInv
  BY DistinctAssumption DEF Init, Versions, KnownInv, Published

(* Most steps change what one call holds, and what is served not at all. *)
LEMMA KnownKept ==
  ASSUME KnownInv, NEW c \in Calls, UNCHANGED <<served, store>>, Published(c)',
         \A d \in Calls \ {c} :
           /\ pc'[d] = pc[d] /\ op'[d] = op[d] /\ entry'[d] = entry[d]
           /\ reply'[d] = reply[d] /\ outcome'[d] = outcome[d]
  PROVE  KnownInv'
  BY DEF KnownInv, Published

LEMMA FailAttemptKnown ==
  ASSUME TypeInv, KnownInv, NEW c \in Calls, NEW f \in Failures, FailAttempt(c, f),
         pc[c] # "idle", UNCHANGED <<served, store, entry, reply, op>>
  PROVE  KnownInv'
<1>1. f \notin Versions /\ f # None
  BY DistinctAssumption, ConstantsAssumption DEF Failures, Versions
<1>2. \A d \in Calls \ {c} : pc'[d] = pc[d] /\ outcome'[d] = outcome[d]
  BY FailAttemptOutcome
<1>3. \/ pc'[c] = "sleeping" /\ outcome'[c] = outcome[c]
      \/ pc'[c] = "settled" /\ outcome'[c] = f
  BY DEF FailAttempt, Goto, TypeInv, TypeOK
<1>4. Published(c)'
  BY <1>1, <1>3 DEF KnownInv, Published
<1>5. QED  BY <1>2, <1>4, KnownKept

LEMMA NextKnown == TypeInv /\ KnownInv /\ [Next]_vars => KnownInv'
<1> SUFFICES ASSUME TypeInv, KnownInv, [Next]_vars PROVE KnownInv'
  OBVIOUS
<1> USE DEF endpointVars, cacheVars, fetchVars, argVars
<1>1. ASSUME NEW c \in Calls, Starts(c) PROVE KnownInv'
  BY <1>1, KnownKept DEF Starts, Start, Goto, TypeInv, TypeOK, KnownInv, Published
<1>2. ASSUME NEW c \in Calls, StoreGet(c) PROVE KnownInv'
  <2>1. store[StoreFor(c)] # None => store[StoreFor(c)].version <= served
    BY <1>2, ConstantsAssumption DEF StoreGet, StoreFor, TypeInv, PlaceInv, KnownInv
  <2>2. QED
    BY <1>2, <2>1, KnownKept DEF StoreGet, TypeInv, TypeOK, KnownInv, Published
<1>3. ASSUME NEW c \in Calls, Hit(c) PROVE KnownInv'
  BY <1>3, KnownKept, DistinctAssumption
     DEF Hit, Usable, TypeInv, TypeOK, Entries, Versions, KnownInv, Published
<1>4. ASSUME NEW c \in Calls, Join(c) PROVE KnownInv'
  BY <1>4, KnownKept DEF Join, TypeInv, TypeOK, KnownInv, Published
<1>5. ASSUME NEW c \in Calls, Lead(c) PROVE KnownInv'
  BY <1>5, KnownKept, DistinctAssumption
     DEF Lead, Goto, Versions, TypeInv, TypeOK, KnownInv, Published
<1>6. ASSUME NEW c \in Calls, ReceiveKeys(c) PROVE KnownInv'
  BY <1>6, KnownKept DEF ReceiveKeys, Goto, Fetched, TypeInv, TypeOK, KnownInv, Published
<1>7. ASSUME NEW c \in Calls, CallbackThrows(c) \/ ReceiveError(c) \/ Abort(c)
      PROVE  KnownInv'
  <2>1. /\ \E f \in Failures : FailAttempt(c, f)
        /\ pc[c] # "idle" /\ UNCHANGED <<served, store, entry, reply, op>>
    BY <1>7 DEF CallbackThrows, ReceiveError, Abort, Failures
  <2>2. QED  BY <2>1, FailAttemptKnown
<1>8. ASSUME NEW c \in Calls, Wake(c) PROVE KnownInv'
  BY <1>8, KnownKept, DistinctAssumption
     DEF Wake, Goto, Versions, TypeInv, TypeOK, KnownInv, Published
<1>9. ASSUME NEW c \in Calls, StoreSet(c) PROVE KnownInv'
  <2>1. entry[c] \in Entries /\ entry[c] # None
    BY <1>9, DistinctAssumption DEF StoreSet, TypeInv, PlaceInv
  <2>2. entry[c].version <= served /\ entry[c].version # None
    BY <2>1, DistinctAssumption DEF Entries, Versions, KnownInv, Published
  <2>3. \A s \in Stores : store'[s] # None => store'[s].version <= served
    BY <1>9, <2>2 DEF StoreSet, TypeInv, TypeOK, KnownInv
  <2>4. \A d \in Calls : Published(d)'
    BY <1>9, <2>2 DEF StoreSet, TypeInv, TypeOK, KnownInv, Published
  <2>5. QED  BY <1>9, <2>3, <2>4 DEF StoreSet, KnownInv
<1>10. ASSUME NEW c \in Calls, Finally(c) PROVE KnownInv'
  BY <1>10, KnownKept DEF Finally, TypeInv, TypeOK, KnownInv, Published
<1>11. ASSUME NEW c \in Calls, Resume(c) PROVE KnownInv'
  BY <1>11, KnownKept DEF Resume, Settled, TypeInv, TypeOK, PlaceInv, KnownInv, Published
<1>12. ASSUME NEW c \in Calls, Answer(c) PROVE KnownInv'
  <2>1. reply'[c] \in {served} \cup Failures
    BY <1>12 DEF Answer, TypeInv, TypeOK
  <2>2. served \in Nat /\ (reply'[c] \in Versions => reply'[c] <= served)
    BY <2>1, DistinctAssumption DEF Failures, Versions, TypeInv, TypeOK
  <2>3. QED
    BY <1>12, <2>2, KnownKept DEF Answer, TypeInv, TypeOK, KnownInv, Published
<1>13. ASSUME \/ \E i \in Caches : Clear(i) \/ StoreClear(i)
              \/ \E s \in Stores : Expire(s)
       PROVE  KnownInv'
  BY <1>13 DEF Clear, StoreClear, Expire, callVars, TypeInv, TypeOK, KnownInv, Published
<1>14. CASE Rotate
  BY <1>14 DEF Rotate, callVars, Entries, Versions, TypeInv, TypeOK, KnownInv, Published
<1>15. CASE Tick \/ UNCHANGED vars
  BY <1>15 DEF Tick, vars, callVars, KnownInv, Published
<1>16. QED
  BY <1>1, <1>2, <1>3, <1>4, <1>5, <1>6, <1>7, <1>8, <1>9, <1>10, <1>11, <1>12, <1>13,
     <1>14, <1>15
     DEF Next, Step, Starts, Progress, Terminated

RInv == IInv /\ KnownInv

Answered(c) == IF pc[c] = "returned" THEN outcome[c] ELSE None

LEMMA SourceStutters ==
  ASSUME TypeInv, UNCHANGED <<now, served, retired, op, started>>,
         \A c \in Calls : Answered(c)' = Answered(c)
  PROVE  UNCHANGED Source!vars
  BY DEF Source!vars, Source!callVars, Answered

LEMMA SourceAnswers ==
  ASSUME RInv, RInv', NEW c \in Calls,
         UNCHANGED <<now, served, retired, op, started>>,
         pc[c] \notin {"idle", "returned"}, pc'[c] = "returned",
         \A d \in Calls \ {c} : Answered(d)' = Answered(d)
  PROVE  Source!Answer(c)
<1> USE DEF RInv, IInv, AgeInv
<1> DEFINE answer == [d \in Calls |-> Answered(d)]
           a == outcome'[c]
<1>1. op[c] \in Ops /\ op[c] # None
  BY DistinctAssumption DEF TypeInv, PlaceInv
<1>2. a \in Versions \cup Failures
  BY DEF TypeInv, TypeOK, KnownInv, Published
<1>3. answer' = [answer EXCEPT ![c] = a]
  <2>1. answer' = [d \in Calls |-> IF pc'[d] = "returned" THEN outcome'[d] ELSE None]
    BY DEF Answered
  <2>2. \A d \in Calls :
          (IF pc'[d] = "returned" THEN outcome'[d] ELSE None) = IF d = c THEN a ELSE answer[d]
    BY DEF Answered
  <2>3. QED  BY <2>1, <2>2
<1>4. ASSUME a \in Versions
      PROVE  a \in Source!Current(c)
  <2>1. a \in 0 .. served
    BY <1>4 DEF TypeInv, TypeOK, Versions, KnownInv, Published
  <2>2. retired[a] # None => retired[a] + StalenessBound(c)' >= started[c]
    BY <1>4 DEF BoundedStaleness
  <2>3. StalenessBound(c)' =
          IF op[c] = "getKeys" THEN WindowOf(ttlMs) ELSE WindowOf(minRefreshIntervalMs)
    BY DEF StalenessBound, Limit, WindowOf
  <2>4. QED  BY <1>1, <2>1, <2>2, <2>3 DEF Source!Current
<1>5. answer[c] = None
  BY DEF Answered
<1>6. answer = [d \in Calls |-> IF pc[d] = "returned" THEN outcome[d] ELSE None]
  BY DEF Answered
<1>7. QED  BY <1>1, <1>2, <1>3, <1>4, <1>5, <1>6 DEF Source!Answer, Answered

LEMMA SourceStep == RInv /\ RInv' /\ [Next]_vars => [Source!Next]_Source!vars
<1> SUFFICES ASSUME RInv, RInv', [Next]_vars PROVE Source!Next \/ UNCHANGED Source!vars
  OBVIOUS
<1> USE DEF endpointVars, cacheVars, fetchVars, argVars
<1>1. TypeInv /\ TypeInv'
  BY DEF RInv, IInv, AgeInv
<1>2. ASSUME NEW c \in Calls, Starts(c) PROVE Source!Ask(c)
  <2>1. PICK o \in Ops, i \in Caches : Start(c, i, o)
    BY <1>2 DEF Starts
  <2>2. op[c] = None
    BY <2>1 DEF Start, RInv, KnownInv, Published
  <2>3. \A d \in Calls : Answered(d)' = Answered(d)
    BY <1>1, <2>1 DEF Start, Goto, Answered, TypeInv, TypeOK
  <2>4. QED  BY <2>1, <2>2, <2>3 DEF Start, Source!Ask, Answered
<1>3. ASSUME NEW c \in Calls, Hit(c) \/ Finally(c) \/ Resume(c) PROVE Source!Answer(c)
  <2>1. /\ UNCHANGED <<now, served, retired, op, started>>
        /\ pc[c] \notin {"idle", "returned"} /\ pc'[c] = "returned"
        /\ \A d \in Calls \ {c} : pc'[d] = pc[d] /\ outcome'[d] = outcome[d]
    BY <1>1, <1>3 DEF Hit, Finally, Resume, TypeInv, TypeOK
  <2>2. QED  BY <2>1, SourceAnswers DEF Answered
<1>4. ASSUME NEW c \in Calls,
             \/ StoreGet(c) \/ Join(c) \/ Lead(c) \/ ReceiveKeys(c)
             \/ CallbackThrows(c) \/ ReceiveError(c) \/ Abort(c) \/ Wake(c)
             \/ StoreSet(c) \/ Answer(c)
      PROVE  UNCHANGED Source!vars
  <2>1. /\ UNCHANGED <<now, served, retired, op, started>>
        /\ pc[c] # "returned" /\ pc'[c] # "returned"
    BY <1>1, <1>4
       DEF StoreGet, Join, Lead, ReceiveKeys, CallbackThrows, ReceiveError, Abort, Wake,
           StoreSet, Answer, FailAttempt, Goto, TypeInv, TypeOK
  <2>2. \A d \in Calls \ {c} : pc'[d] = pc[d] /\ outcome'[d] = outcome[d]
    BY <1>1, <1>4
       DEF StoreGet, Join, Lead, ReceiveKeys, CallbackThrows, ReceiveError, Abort, Wake,
           StoreSet, Answer, FailAttempt, Goto, TypeInv, TypeOK
  <2>3. QED  BY <1>1, <2>1, <2>2, SourceStutters DEF Answered
<1>5. ASSUME \/ \E i \in Caches : Clear(i) \/ StoreClear(i)
             \/ \E s \in Stores : Expire(s)
             \/ UNCHANGED vars
      PROVE  UNCHANGED Source!vars
  BY <1>1, <1>5, SourceStutters
     DEF Clear, StoreClear, Expire, vars, callVars, Answered
<1>6. CASE Rotate
  BY <1>6 DEF Rotate, callVars, Source!Next, Source!Rotate, Source!callVars, Versions
<1>7. CASE Tick
  BY <1>7 DEF Tick, callVars, Source!Next, Source!Tick, Source!callVars
<1>8. QED
  BY <1>2, <1>3, <1>4, <1>5, <1>6, <1>7
     DEF Next, Step, Starts, Progress, Terminated, Source!Next

(* The cache, with its deduplication, retries, shared adapters and         *)
(* clear(), is a KeySource: a caller cannot tell it from a source that     *)
(* answers each call once, with a failure or with keys not withdrawn       *)
(* longer ago than the window of the call.                                 *)
THEOREM CacheIsKeySource == Spec => ImplementsKeySource
<1>1. Init => Source!Init
  BY DEF Init, Source!Init, Versions
<1>2. Spec => []RInv
  <2>1. Spec => [](TypeInv /\ KnownInv)
    BY InitType, NextType, InitKnown, NextKnown, PTL DEF Spec
  <2>2. QED  BY <2>1, IInvCorrect, PTL DEF RInv
<1>3. QED  BY <1>1, <1>2, SourceStep, PTL DEF Spec, ImplementsKeySource, Source!Spec
=============================================================================
