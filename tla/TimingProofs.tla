---------------------------- MODULE TimingProofs -----------------------------
(***************************************************************************)
(* What JwksCache promises about time and about what a step may never do,  *)
(* for every value of its constants: how long a call lasts, in which order *)
(* key sets are stored, how far apart fetches are, and when a rotation is  *)
(* reported.                                                               *)
(***************************************************************************)
EXTENDS JwksCacheProofs

(***************************************************************************)
(* Latency.  The invariant says when each wait of a call ends, counted     *)
(* from the moment its fetch began, and that a joiner waits for a fetch    *)
(* that began no later than its own read of the store ended.               *)
(***************************************************************************)

(* The longest a fetch may take before its attempt n, counted from 0. *)
Spent(n) == n * timeoutMs + Backoff(n) - Backoff(0)

(* When the wait of a fetching call ends at the latest. *)
Paced(c) ==
  /\ pc[c] \in {"sent", "answered"} =>
       timer[c] <= led[c].at + Spent(attempt[c]) + timeoutMs
  /\ pc[c] = "sleeping" => timer[c] <= led[c].at + Spent(attempt[c] + 1)
  /\ pc[c] \in {"writing", "settled"} => timer[c] <= led[c].at + FetchMs + StoreMs

Led(c) ==
  /\ led[c] # None
  /\ led[c].at <= now
  /\ led[c].at <= started[c] + StoreMs

Awaits(c, l) ==
  /\ led[l] # None
  /\ led[l].at <= started[c] + StoreMs
  /\ now <= led[l].at + FetchMs + StoreMs

PaceInv(c) ==
  /\ pc[c] \in {"idle", "reading", "read"} => attempt[c] = 0 /\ led[c] = None
  /\ pc[c] \in {"reading", "read"} => timer[c] <= started[c] + StoreMs
  /\ pc[c] \in Fetching => maxRetries > 0
  /\ pc[c] \in Leading => Led(c) /\ Paced(c)
  /\ pc[c] = "joined" => Awaits(c, leader[c])

LatencyInv == \A c \in Calls : PaceInv(c)

-----------------------------------------------------------------------------
(* One more attempt takes a timeout and a backoff more. *)
LEMMA SpentNext ==
  ASSUME NEW n \in Attempts
  PROVE  /\ Spent(n) \in Int /\ Spent(n + 1) \in Int
         /\ Spent(n + 1) = Spent(n) + timeoutMs + Backoff(n)
<1>1. n \in 0 .. maxRetries /\ n \in Nat /\ 0 \in 0 .. maxRetries
  BY ConstantsAssumption DEF Attempts
<1>2. /\ Backoff(n) \in Nat /\ Backoff(0) \in Nat
      /\ Backoff(n + 1) = 2 * Backoff(n)
  BY <1>1, BackoffAssumption
<1>3. timeoutMs \in Nat /\ (n + 1) * timeoutMs = n * timeoutMs + timeoutMs
      /\ n * timeoutMs \in Nat
  BY <1>1, ConstantsAssumption
<1>4. QED  BY <1>2, <1>3 DEF Spent

(* Before the last attempt ends no more is spent than a fetch may take. *)
LEMMA SpentBound ==
  ASSUME NEW n \in Attempts, maxRetries > 0
  PROVE  FetchMs \in Nat /\ Spent(n) + timeoutMs <= FetchMs
<1> DEFINE m == maxRetries - 1
<1>1. /\ n \in 0 .. m /\ 0 \in 0 .. m /\ m \in 0 .. maxRetries
      /\ n \in 0 .. maxRetries /\ 0 \in 0 .. maxRetries
  BY ConstantsAssumption DEF Attempts
<1>2. /\ timeoutMs \in Nat /\ maxRetries \in Nat
      /\ maxRetries * timeoutMs \in Nat /\ n * timeoutMs \in Nat
  BY <1>1, ConstantsAssumption
<1>3. (m - n) * timeoutMs \in Nat
  BY <1>1, <1>2
<1>4. maxRetries * timeoutMs = n * timeoutMs + timeoutMs + (m - n) * timeoutMs
  BY <1>1, <1>2
<1>5. n * timeoutMs + timeoutMs <= maxRetries * timeoutMs
  BY <1>2, <1>3, <1>4
<1>6. FetchMs = maxRetries * timeoutMs + Backoff(m) - Backoff(0)
  BY ConstantsAssumption DEF FetchMs
<1>7. Spent(n) = n * timeoutMs + Backoff(n) - Backoff(0)
  BY DEF Spent
<1> HIDE DEF m
<1>8. /\ Backoff(n) \in Nat /\ Backoff(0) \in Nat /\ Backoff(m) \in Nat
  BY <1>1, BackoffAssumption
<1>9. Backoff(n) <= Backoff(m) /\ Backoff(0) <= Backoff(m)
  BY <1>1, BackoffAssumption
<1>10. QED  BY <1>2, <1>5, <1>6, <1>7, <1>8, <1>9

LEMMA FetchMsType == FetchMs \in Nat
<1>1. CASE maxRetries = 0
  BY <1>1 DEF FetchMs
<1>2. CASE maxRetries # 0
  <2>1. 0 \in Attempts /\ maxRetries > 0
    BY <1>2, ConstantsAssumption DEF Attempts
  <2>2. QED  BY <2>1, SpentBound
<1>3. QED  BY <1>1, <1>2

(* A fetch of any place ends within FetchMs + StoreMs. *)
LEMMA PacedEnds ==
  ASSUME IInv, LatencyInv, NEW c \in Calls, pc[c] \in Leading
  PROVE  /\ led[c].at \in Nat
         /\ timer[c] <= led[c].at + FetchMs + StoreMs
         /\ now <= timer[c]
         /\ pc[c] \in {"sent", "answered"} => timer[c] <= led[c].at + FetchMs
<1>1. /\ led[c] \in [at : Nat, clears : Nat] /\ timer[c] \in Nat
      /\ attempt[c] \in Attempts /\ StoreMs \in Nat /\ timeoutMs \in Nat
      /\ now <= timer[c]
      /\ pc[c] = "sleeping" => attempt[c] + 1 \in Attempts
  BY ConstantsAssumption
     DEF IInv, AgeInv, TypeInv, TypeOK, PlaceInv, TimeInv, OnTime, Waiting, LatencyInv,
         PaceInv, Led
<1>2. Paced(c) /\ (pc[c] \in Fetching => maxRetries > 0)
  BY DEF LatencyInv, PaceInv
<1>3. CASE pc[c] \in {"sent", "answered"}
  <2>1. Spent(attempt[c]) \in Int /\ Spent(attempt[c]) + timeoutMs <= FetchMs
    BY <1>1, <1>2, <1>3, SpentNext, SpentBound DEF Fetching
  <2>2. QED  BY <1>1, <1>2, <1>3, <2>1, FetchMsType DEF Paced
<1>4. CASE pc[c] = "sleeping"
  <2>1. Spent(attempt[c] + 1) \in Int /\ Spent(attempt[c] + 1) + timeoutMs <= FetchMs
    BY <1>1, <1>2, <1>4, SpentNext, SpentBound DEF Fetching
  <2>2. QED  BY <1>1, <1>2, <1>4, <2>1, FetchMsType DEF Paced
<1>5. CASE pc[c] \in {"writing", "settled"}
  BY <1>1, <1>2, <1>5 DEF Paced
<1>6. QED  BY <1>3, <1>4, <1>5 DEF Leading, Fetching

LEMMA InitLatency == Init => LatencyInv
  BY DEF Init, LatencyInv, PaceInv, Leading, Fetching

(* A step of c that keeps its own pace keeps that of all: the other calls  *)
(* and what c began are as they were.                                      *)
LEMMA PaceKept ==
  ASSUME IInv, LatencyInv, NEW c \in Calls, Frame(c), now' = now,
         \A d \in Calls \ {c} : led'[d] = led[d] /\ attempt'[d] = attempt[d],
         led[c] # None => led'[c] = led[c],
         PaceInv(c)'
  PROVE  LatencyInv'
<1>1. ASSUME NEW d \in Calls, d # c PROVE PaceInv(d)'
  <2>1. /\ pc'[d] = pc[d] /\ timer'[d] = timer[d] /\ started'[d] = started[d]
        /\ leader'[d] = leader[d] /\ led'[d] = led[d] /\ attempt'[d] = attempt[d]
    BY <1>1 DEF Frame
  <2>2. PaceInv(d)
    BY DEF LatencyInv
  <2>3. pc[d] = "joined" => Awaits(d, leader[d])'
    <3>1. SUFFICES ASSUME pc[d] = "joined" PROVE Awaits(d, leader[d])'
      OBVIOUS
    <3>2. leader[d] \in Calls /\ Awaits(d, leader[d])
      BY <2>2, <3>1 DEF PaceInv, IInv, AgeInv, TypeInv, PlaceInv
    <3>3. led'[leader[d]] = led[leader[d]]
      BY <3>2 DEF Awaits
    <3>4. QED  BY <2>1, <3>2, <3>3 DEF Awaits
  <2>4. pc[d] \in Leading => (Led(d) /\ Paced(d))'
    BY <2>1, <2>2 DEF PaceInv, Led, Paced
  <2>5. QED  BY <2>1, <2>2, <2>3, <2>4 DEF PaceInv
<1>2. QED  BY <1>1 DEF LatencyInv

(* An attempt that fails within its timeout leads to a sleep that ends     *)
(* when the next attempt may begin, or to the end of the fetch.            *)
LEMMA FailAttemptPaced ==
  ASSUME IInv, LatencyInv, NEW c \in Calls, NEW f \in Failures, FailAttempt(c, f),
         pc[c] \in {"sent", "answered"},
         UNCHANGED <<now, led, started, attempt>>
  PROVE  PaceInv(c)'
<1>1. /\ attempt[c] \in Attempts /\ attempt[c] \in Nat /\ timer[c] \in Nat /\ now \in Nat
      /\ Led(c) /\ Paced(c) /\ maxRetries > 0 /\ pc[c] \in Leading
      /\ StoreMs \in Nat /\ timeoutMs \in Nat
  BY ConstantsAssumption
     DEF IInv, AgeInv, TypeInv, TypeOK, Attempts, LatencyInv, PaceInv, Leading, Fetching
<1>2. led[c].at \in Nat /\ now <= timer[c] /\ timer[c] <= led[c].at + FetchMs
  BY <1>1, PacedEnds
<1>3. CASE Retries(c, f)
  <2>1. pc'[c] = "sleeping" /\ timer'[c] = now + Backoff(attempt[c])
    BY <1>3 DEF FailAttempt, Goto, IInv, AgeInv, TypeInv, TypeOK
  <2>2. /\ Spent(attempt[c]) \in Int /\ Spent(attempt[c] + 1) \in Int
        /\ Spent(attempt[c] + 1) = Spent(attempt[c]) + timeoutMs + Backoff(attempt[c])
    BY <1>1, SpentNext
  <2>3. Backoff(attempt[c]) \in Nat
    BY <1>1, BackoffAssumption, ConstantsAssumption DEF Attempts
  <2>4. timer'[c] <= led[c].at + Spent(attempt[c] + 1)
    BY <1>1, <1>2, <2>1, <2>2, <2>3 DEF Paced
  <2>5. QED
    BY <1>1, <2>1, <2>4 DEF PaceInv, Led, Paced, Spent, Backoff, Leading, Fetching
<1>4. CASE ~Retries(c, f)
  <2>1. pc'[c] = "settled" /\ timer'[c] = now
    BY <1>4 DEF FailAttempt, Goto, IInv, AgeInv, TypeInv, TypeOK
  <2>2. timer'[c] <= led[c].at + FetchMs + StoreMs
    BY <1>1, <1>2, <2>1, FetchMsType
  <2>3. QED
    BY <1>1, <2>1, <2>2 DEF PaceInv, Led, Paced, FetchMs, Backoff, Leading, Fetching
<1>5. QED  BY <1>3, <1>4

LEMMA NextLatency == IInv /\ LatencyInv /\ [Next]_vars => LatencyInv'
<1> SUFFICES ASSUME IInv, LatencyInv, [Next]_vars PROVE LatencyInv'
  OBVIOUS
<1> USE DEF endpointVars, cacheVars, fetchVars, argVars
<1>0. /\ TypeInv /\ now \in Nat /\ StoreMs \in Nat /\ timeoutMs \in Nat
      /\ timer \in [Calls -> Nat] /\ started \in [Calls -> Nat]
  BY ConstantsAssumption DEF IInv, AgeInv, TypeInv, TypeOK
<1>1. ASSUME NEW c \in Calls, Starts(c) PROVE LatencyInv'
  <2>1. /\ pc[c] = "idle" /\ pc'[c] = "reading"
        /\ timer'[c] = now + StoreMs /\ started'[c] = now
        /\ UNCHANGED <<now, led, attempt>>
    BY <1>1 DEF Starts, Start, Goto, IInv, AgeInv, TypeInv, TypeOK
  <2>2. PaceInv(c)'
    BY <1>0, <2>1 DEF LatencyInv, PaceInv, Leading, Fetching
  <2>3. Frame(c)
    BY <1>0, <1>1, CallFrame
  <2>4. QED  BY <2>1, <2>2, <2>3, PaceKept
<1>2. ASSUME NEW c \in Calls, StoreGet(c) PROVE LatencyInv'
  <2>1. /\ pc[c] = "reading" /\ pc'[c] = "read"
        /\ UNCHANGED <<now, led, attempt, timer, started>>
    BY <1>2 DEF StoreGet, IInv, AgeInv, TypeInv, TypeOK
  <2>2. PaceInv(c)'
    BY <2>1 DEF LatencyInv, PaceInv, Leading, Fetching
  <2>3. Frame(c)
    BY <1>0, <1>2, CallFrame DEF Progress
  <2>4. QED  BY <2>1, <2>2, <2>3, PaceKept
<1>3. ASSUME NEW c \in Calls, Hit(c) \/ Finally(c) \/ Resume(c) PROVE LatencyInv'
  <2>1. pc'[c] = "returned" /\ UNCHANGED <<now, led, attempt>>
    BY <1>3 DEF Hit, Finally, Resume, IInv, AgeInv, TypeInv, TypeOK
  <2>2. PaceInv(c)'
    BY <2>1 DEF PaceInv, Leading, Fetching
  <2>3. Frame(c)
    BY <1>0, <1>3, CallFrame DEF Progress
  <2>4. QED  BY <2>1, <2>2, <2>3, PaceKept
<1>4. ASSUME NEW c \in Calls, Join(c) PROVE LatencyInv'
  <2>1. /\ pc[c] = "read" /\ pc'[c] = "joined" /\ leader'[c] = inflight[via[c]]
        /\ inflight[via[c]] \in Calls /\ inflight[via[c]] # None /\ via[c] \in Caches
        /\ UNCHANGED <<now, led, attempt, timer, started>>
    BY <1>4 DEF Join, Existing, IInv, AgeInv, TypeInv, TypeOK, PlaceInv
  <2> DEFINE l == inflight[via[c]]
  <2>2. pc[l] \in Leading
    BY <2>1 DEF IInv, RegistryInv, InflightIsLive
  <2>3. /\ Led(l) /\ led[l].at \in Nat
        /\ timer[l] <= led[l].at + FetchMs + StoreMs /\ now <= timer[l]
    BY <2>1, <2>2, PacedEnds DEF LatencyInv, PaceInv
  <2>4. now <= timer[c] /\ timer[c] <= started[c] + StoreMs
    BY <2>1 DEF LatencyInv, PaceInv, IInv, AgeInv, TimeInv, OnTime, Waiting
  <2>5. Awaits(c, l)
    BY <1>0, <2>1, <2>3, <2>4, FetchMsType DEF Awaits, Led
  <2>6. PaceInv(c)'
    <3>1. Awaits(c, leader[c])'
      BY <2>1, <2>5 DEF Awaits, FetchMs, Backoff
    <3>2. QED  BY <2>1, <3>1 DEF PaceInv, Leading, Fetching
  <2>7. Frame(c)
    BY <1>0, <1>4, CallFrame DEF Progress
  <2>8. QED  BY <2>1, <2>6, <2>7, PaceKept
<1>5. ASSUME NEW c \in Calls, Lead(c) PROVE LatencyInv'
  <2>1. /\ pc[c] = "read" /\ UNCHANGED <<now, attempt, started>>
        /\ led'[c] # None /\ led'[c].at = now
        /\ \A d \in Calls \ {c} : led'[d] = led[d]
        /\ \/ maxRetries > 0 /\ pc'[c] = "sent" /\ timer'[c] = now + timeoutMs
           \/ pc'[c] = "settled" /\ timer'[c] = now
    BY <1>5, ConstantsAssumption, DistinctAssumption
       DEF Lead, Goto, IInv, AgeInv, TypeInv, TypeOK, PlaceInv
  <2>2. attempt[c] = 0 /\ led[c] = None /\ now <= timer[c] /\ timer[c] <= started[c] + StoreMs
    BY <2>1 DEF LatencyInv, PaceInv, IInv, AgeInv, TimeInv, OnTime, Waiting
  <2>3. Spent(0) = 0
    BY BackoffAssumption, ConstantsAssumption DEF Spent
  <2>4. Led(c)'
    BY <1>0, <2>1, <2>2 DEF Led
  <2>5. Paced(c)'
    <3>1. CASE pc'[c] = "sent" /\ timer'[c] = now + timeoutMs
      BY <1>0, <2>1, <2>2, <2>3, <3>1 DEF Paced
    <3>2. CASE pc'[c] = "settled" /\ timer'[c] = now
      BY <1>0, <2>1, <3>2, FetchMsType DEF Paced
    <3>3. QED  BY <2>1, <3>1, <3>2
  <2>6. PaceInv(c)'
    BY <2>1, <2>4, <2>5 DEF PaceInv, Leading, Fetching
  <2>7. Frame(c)
    BY <1>0, <1>5, CallFrame DEF Progress
  <2>8. QED  BY <2>1, <2>2, <2>6, <2>7, PaceKept
<1>6. ASSUME NEW c \in Calls, ReceiveKeys(c) PROVE LatencyInv'
  <2>1. /\ pc[c] = "answered" /\ pc'[c] = "writing" /\ timer'[c] = now + StoreMs
        /\ UNCHANGED <<now, led, attempt, started>>
    BY <1>6 DEF ReceiveKeys, Goto, IInv, AgeInv, TypeInv, TypeOK
  <2>2. /\ led[c].at \in Nat /\ now <= timer[c] /\ timer[c] <= led[c].at + FetchMs
        /\ Led(c) /\ maxRetries > 0
    BY <2>1, PacedEnds DEF LatencyInv, PaceInv, Leading, Fetching
  <2>3. timer'[c] <= led[c].at + FetchMs + StoreMs
    BY <1>0, <2>1, <2>2, FetchMsType
  <2>4. PaceInv(c)'
    BY <2>1, <2>2, <2>3 DEF PaceInv, Led, Paced, FetchMs, Backoff, Leading, Fetching
  <2>5. Frame(c)
    BY <1>0, <1>6, CallFrame DEF Progress
  <2>6. QED  BY <2>1, <2>4, <2>5, PaceKept
<1>7. ASSUME NEW c \in Calls, CallbackThrows(c) \/ ReceiveError(c) \/ Abort(c)
      PROVE  LatencyInv'
  <2>1. /\ \E f \in Failures : FailAttempt(c, f)
        /\ pc[c] \in {"sent", "answered"}
        /\ UNCHANGED <<now, led, attempt, started>>
    BY <1>7 DEF CallbackThrows, ReceiveError, Abort, Failures
  <2>2. PaceInv(c)'
    BY <2>1, FailAttemptPaced
  <2>3. Frame(c)
    BY <1>0, <1>7, CallFrame DEF Progress
  <2>4. QED  BY <2>1, <2>2, <2>3, PaceKept
<1>8. ASSUME NEW c \in Calls, Wake(c) PROVE LatencyInv'
  <2>1. /\ pc[c] = "sleeping" /\ pc'[c] = "sent" /\ timer'[c] = now + timeoutMs
        /\ now = timer[c] /\ attempt'[c] = attempt[c] + 1
        /\ \A d \in Calls \ {c} : attempt'[d] = attempt[d]
        /\ UNCHANGED <<now, led, started>>
        /\ attempt[c] \in Attempts /\ attempt[c] + 1 \in Attempts
    BY <1>8 DEF Wake, Goto, IInv, AgeInv, TypeInv, TypeOK, PlaceInv
  <2>2. Led(c) /\ Paced(c) /\ maxRetries > 0 /\ led[c].at \in Nat
    BY <2>1, PacedEnds DEF LatencyInv, PaceInv, Leading, Fetching
  <2>3. Spent(attempt[c] + 1) \in Int
    BY <2>1, SpentNext
  <2>4. timer'[c] <= led[c].at + Spent(attempt[c] + 1) + timeoutMs
    BY <1>0, <2>1, <2>2, <2>3 DEF Paced
  <2>5. PaceInv(c)'
    BY <2>1, <2>2, <2>4 DEF PaceInv, Led, Paced, Leading, Fetching
  <2>6. Frame(c)
    BY <1>0, <1>8, CallFrame DEF Progress
  <2>7. QED  BY <2>1, <2>5, <2>6, PaceKept
<1>9. ASSUME NEW c \in Calls, StoreSet(c) \/ Answer(c) PROVE LatencyInv'
  <2>1. /\ \/ pc[c] = "writing" /\ pc'[c] = "settled"
           \/ pc[c] = "sent" /\ pc'[c] = "answered"
        /\ UNCHANGED <<now, led, attempt, started, timer>>
    BY <1>9 DEF StoreSet, Answer, IInv, AgeInv, TypeInv, TypeOK
  <2>2. PaceInv(c)'
    BY <2>1 DEF LatencyInv, PaceInv, Led, Paced, FetchMs, Backoff, Leading, Fetching
  <2>3. Frame(c)
    BY <1>0, <1>9, CallFrame DEF Progress
  <2>4. QED  BY <2>1, <2>2, <2>3, PaceKept
<1>10. CASE Tick
  <2>1. /\ now' = now + 1 /\ UNCHANGED <<pc, timer, started, attempt, led, leader>>
        /\ \A c \in Calls : pc[c] \in Waiting => now < timer[c]
        /\ \A c \in Calls : pc[c] = "joined" => pc[leader[c]] # "returned"
    BY <1>10 DEF Tick, Due, Settled, callVars, IInv, AgeInv, TypeInv, TypeOK
  <2>2. ASSUME NEW c \in Calls, pc[c] = "joined" PROVE Awaits(c, leader[c])'
    <3>1. /\ leader[c] \in Calls /\ pc[leader[c]] \in Leading /\ Awaits(c, leader[c])
      BY <2>1, <2>2 DEF LatencyInv, PaceInv, IInv, HandInv, Hands, AgeInv, TypeInv, PlaceInv
    <3>2. now < timer[leader[c]] /\ timer[leader[c]] \in Nat
      BY <1>0, <2>1, <3>1 DEF Waiting
    <3>3. /\ led[leader[c]].at \in Nat
          /\ timer[leader[c]] <= led[leader[c]].at + FetchMs + StoreMs
      BY <3>1, PacedEnds
    <3>4. now' <= led[leader[c]].at + FetchMs + StoreMs
      BY <1>0, <2>1, <3>2, <3>3, FetchMsType
    <3>5. QED  BY <2>1, <3>1, <3>4 DEF Awaits, FetchMs, Backoff
  <2>3. ASSUME NEW c \in Calls, pc[c] \in Leading PROVE (Led(c) /\ Paced(c))'
    <3>1. led[c].at \in Nat /\ Led(c) /\ Paced(c)
      BY <2>3, PacedEnds DEF LatencyInv, PaceInv
    <3>2. QED
      BY <1>0, <2>1, <3>1 DEF Led, Paced, FetchMs, Backoff
  <2>4. QED
    BY <2>1, <2>2, <2>3 DEF LatencyInv, PaceInv
<1>11. ASSUME \/ \E i \in Caches : Clear(i) \/ StoreClear(i)
              \/ \E s \in Stores : Expire(s)
              \/ Rotate \/ UNCHANGED vars
       PROVE  LatencyInv'
  <2>1. UNCHANGED <<now, pc, timer, started, attempt, led, leader>>
    BY <1>11 DEF Clear, StoreClear, Expire, Rotate, vars, callVars
  <2>2. QED
    BY <2>1 DEF LatencyInv, PaceInv, Led, Paced, Awaits, FetchMs, Backoff
<1>12. QED
  BY <1>1, <1>2, <1>3, <1>4, <1>5, <1>6, <1>7, <1>8, <1>9, <1>10, <1>11
     DEF Next, Step, Starts, Progress, Terminated

LEMMA LatencyBounds == IInv /\ LatencyInv => BoundedLatency
<1> SUFFICES ASSUME IInv, LatencyInv, NEW c \in Calls, pc[c] \notin {"idle", "returned"}
             PROVE  now <= started[c] + FetchMs + 2 * StoreMs
  BY DEF BoundedLatency
<1>1. /\ now \in Nat /\ StoreMs \in Nat /\ started[c] \in Nat /\ timer[c] \in Nat
      /\ FetchMs \in Nat /\ pc[c] \in Places
      /\ led \in [Calls -> [at : Nat, clears : Nat] \cup {None}]
  BY ConstantsAssumption, FetchMsType DEF IInv, AgeInv, TypeInv, TypeOK
<1>2. CASE pc[c] \in {"reading", "read"}
  <2>1. now <= timer[c] /\ timer[c] <= started[c] + StoreMs
    BY <1>2 DEF LatencyInv, PaceInv, IInv, AgeInv, TimeInv, OnTime, Waiting
  <2>2. QED  BY <1>1, <2>1
<1>3. CASE pc[c] \in Leading
  <2>1. /\ led[c].at \in Nat /\ now <= timer[c]
        /\ timer[c] <= led[c].at + FetchMs + StoreMs
        /\ led[c].at <= started[c] + StoreMs
    BY <1>3, PacedEnds DEF LatencyInv, PaceInv, Led
  <2>2. QED  BY <1>1, <2>1
<1>4. CASE pc[c] = "joined"
  <2>1. leader[c] \in Calls /\ Awaits(c, leader[c])
    BY <1>4 DEF LatencyInv, PaceInv, IInv, AgeInv, TypeInv, PlaceInv
  <2>2. led[leader[c]].at \in Nat
    BY <1>1, <2>1 DEF Awaits
  <2>3. QED  BY <1>1, <2>1, <2>2 DEF Awaits
<1>5. QED  BY <1>1, <1>2, <1>3, <1>4 DEF Places, Waiting

(* No call lasts longer than the read of the store, all attempts with      *)
(* their timeouts and backoffs, and the write, whether it fetches itself   *)
(* or joins another call, and whatever clear() does in between.            *)
THEOREM LatencyIsBounded == Spec => []BoundedLatency
<1>1. Spec => [](IInv /\ LatencyInv)
  BY IInvCorrect, InitLatency, NextLatency, PTL DEF Spec
<1>2. QED  BY <1>1, LatencyBounds, PTL

-----------------------------------------------------------------------------
(***************************************************************************)
(* The order of writes.  While a call fetches, no other call writes to its *)
(* adapter, if every instance has an adapter of its own and clear() is not *)
(* called: what it read from the endpoint is then never older than what    *)
(* the adapter holds when the set takes effect.                            *)
(***************************************************************************)
OwnStores == \A i, j \in Caches : StoreOf[i] = StoreOf[j] => i = j

NoNewerStored(c) ==
  LET e == store[StoreFor(c)] IN
  e # None =>
    /\ pc[c] = "answered" /\ reply[c] \in Versions => e.version <= reply[c]
    /\ pc[c] = "writing" =>
         e.version <= entry[c].version /\ e.fetchedAt <= entry[c].fetchedAt

OrderInv == \A c \in Calls : NoNewerStored(c)

LEMMA InitOrder == Init => OrderInv
  BY DEF Init, OrderInv, NoNewerStored

(* Two calls that fetch for one adapter are one call. *)
LEMMA SoleWriter ==
  ASSUME MaxClears = 0, OwnStores, TypeInv, RegistryInv,
         NEW c \in Calls, NEW d \in Calls,
         pc[c] \in Leading, pc[d] \in Leading, StoreFor(c) = StoreFor(d)
  PROVE  c = d
<1>1. via[c] \in Caches /\ via[d] \in Caches
  BY DEF TypeInv, PlaceInv, Leading, Fetching
<1>2. via[c] = via[d]
  BY <1>1 DEF OwnStores, StoreFor
<1>3. QED  BY <1>2 DEF RegistryInv, LeaderRegistered

(* A step of c that touches no adapter keeps the order when it does for c. *)
LEMMA OrderKept ==
  ASSUME TypeInv, OrderInv, NEW c \in Calls, store' = store,
         \A d \in Calls \ {c} : /\ pc'[d] = pc[d] /\ entry'[d] = entry[d]
                                /\ reply'[d] = reply[d] /\ via'[d] = via[d],
         NoNewerStored(c)'
  PROVE  OrderInv'
<1>1. ASSUME NEW d \in Calls, d # c PROVE NoNewerStored(d)'
  BY <1>1 DEF OrderInv, NoNewerStored, StoreFor
<1>2. QED  BY <1>1 DEF OrderInv

LEMMA NextOrder ==
  ASSUME MaxClears = 0, OwnStores, AgeInv, RegistryInv, KnownInv, OrderInv, [Next]_vars
  PROVE  OrderInv'
<1> USE DEF endpointVars, cacheVars, fetchVars, argVars
<1>0. TypeInv
  BY DEF AgeInv
<1>1. ASSUME NEW c \in Calls,
             \/ Starts(c) \/ StoreGet(c) \/ Hit(c) \/ Join(c) \/ Lead(c) \/ Wake(c)
             \/ Finally(c) \/ Resume(c)
      PROVE  OrderInv'
  <2>1. /\ store' = store /\ pc'[c] \notin {"answered", "writing"}
        /\ \A d \in Calls \ {c} : /\ pc'[d] = pc[d] /\ entry'[d] = entry[d]
                                  /\ reply'[d] = reply[d] /\ via'[d] = via[d]
    BY <1>0, <1>1
       DEF Starts, Start, StoreGet, Hit, Join, Lead, Wake, Finally, Resume, Goto,
           TypeInv, TypeOK
  <2>2. QED  BY <1>0, <2>1, OrderKept DEF NoNewerStored
<1>2. ASSUME NEW c \in Calls, CallbackThrows(c) \/ ReceiveError(c) \/ Abort(c)
      PROVE  OrderInv'
  <2>1. UNCHANGED <<store, entry, reply, via>> /\ \E f \in Failures : FailAttempt(c, f)
    BY <1>2 DEF CallbackThrows, ReceiveError, Abort, Failures
  <2>2. pc'[c] \in {"sleeping", "settled"} /\ \A d \in Calls \ {c} : pc'[d] = pc[d]
    BY <1>0, <2>1, FailAttemptOutcome
  <2>3. QED  BY <1>0, <2>1, <2>2, OrderKept DEF NoNewerStored
<1>3. ASSUME NEW c \in Calls, Answer(c) PROVE OrderInv'
  <2>1. /\ UNCHANGED <<store, entry, via>> /\ pc[c] = "sent" /\ pc'[c] = "answered"
        /\ reply'[c] \in {served} \cup Failures
        /\ \A d \in Calls \ {c} : pc'[d] = pc[d] /\ reply'[d] = reply[d]
    BY <1>0, <1>3 DEF Answer, TypeInv, TypeOK
  <2>2. reply'[c] \in Versions => reply'[c] = served
    BY <2>1, DistinctAssumption DEF Failures, Versions
  <2>3. StoreFor(c) \in Stores /\ StoreFor(c)' = StoreFor(c)
    BY <1>0, <2>1, ConstantsAssumption DEF StoreFor, TypeInv, PlaceInv
  <2>4. NoNewerStored(c)'
    BY <2>1, <2>2, <2>3 DEF NoNewerStored, KnownInv
  <2>5. QED  BY <1>0, <2>1, <2>4, OrderKept
<1>4. ASSUME NEW c \in Calls, ReceiveKeys(c) PROVE OrderInv'
  <2>1. /\ UNCHANGED <<store, reply, via>> /\ pc[c] = "answered" /\ pc'[c] = "writing"
        /\ reply[c] \in Versions
        /\ entry'[c].version = reply[c] /\ entry'[c].fetchedAt = now
        /\ \A d \in Calls \ {c} : pc'[d] = pc[d] /\ entry'[d] = entry[d]
    BY <1>0, <1>4 DEF ReceiveKeys, Goto, Fetched, TypeInv, TypeOK
  <2>2. StoreFor(c) \in Stores /\ StoreFor(c)' = StoreFor(c)
    BY <1>0, <2>1, ConstantsAssumption DEF StoreFor, TypeInv, PlaceInv
  <2>3. NoNewerStored(c)'
    BY <2>1, <2>2 DEF OrderInv, NoNewerStored, AgeInv, FreshInv, Fresh
  <2>4. QED  BY <1>0, <2>1, <2>3, OrderKept
<1>5. ASSUME NEW c \in Calls, StoreSet(c) PROVE OrderInv'
  <2>1. /\ UNCHANGED <<reply, via, entry>> /\ pc[c] = "writing" /\ pc'[c] = "settled"
        /\ \A d \in Calls \ {c} : pc'[d] = pc[d]
        /\ \A s \in Stores \ {StoreFor(c)} : store'[s] = store[s]
    BY <1>0, <1>5 DEF StoreSet, TypeInv, TypeOK
  <2>2. ASSUME NEW d \in Calls, pc'[d] \in {"answered", "writing"} PROVE NoNewerStored(d)'
    <3>1. d # c /\ pc[d] \in Leading /\ pc[c] \in Leading
      BY <2>1, <2>2 DEF Leading, Fetching
    <3>2. StoreFor(d) # StoreFor(c)
      BY <1>0, <3>1, SoleWriter
    <3>3. StoreFor(d) \in Stores
      BY <1>0, <3>1, ConstantsAssumption DEF StoreFor, TypeInv, PlaceInv, Leading, Fetching
    <3>4. store'[StoreFor(d)] = store[StoreFor(d)] /\ StoreFor(d)' = StoreFor(d)
      BY <2>1, <3>2, <3>3 DEF StoreFor
    <3>5. QED  BY <2>1, <3>1, <3>4 DEF OrderInv, NoNewerStored
  <2>3. QED  BY <2>2 DEF OrderInv, NoNewerStored
<1>6. ASSUME \/ \E i \in Caches : Clear(i) \/ StoreClear(i)
             \/ \E s \in Stores : Expire(s)
      PROVE  OrderInv'
  <2>1. UNCHANGED callVars /\ \A s \in Stores : store'[s] = store[s] \/ store'[s] = None
    BY <1>0, <1>6 DEF Clear, StoreClear, Expire, TypeInv, TypeOK
  <2>2. ASSUME NEW c \in Calls, pc'[c] \in {"answered", "writing"} PROVE NoNewerStored(c)'
    <3>1. StoreFor(c) \in Stores /\ StoreFor(c)' = StoreFor(c)
      BY <1>0, <2>1, <2>2, ConstantsAssumption
         DEF callVars, StoreFor, TypeInv, PlaceInv
    <3>2. QED  BY <2>1, <3>1 DEF callVars, OrderInv, NoNewerStored
  <2>3. QED  BY <2>2 DEF OrderInv, NoNewerStored
<1>7. ASSUME Rotate \/ Tick \/ UNCHANGED vars PROVE OrderInv'
  BY <1>7 DEF Rotate, Tick, vars, callVars, OrderInv, NoNewerStored, StoreFor
<1>8. QED
  BY <1>1, <1>2, <1>3, <1>4, <1>5, <1>6, <1>7
     DEF Next, Step, Starts, Progress, Terminated

(* Only a set puts anything into an adapter. *)
LEMMA OnlySetStores ==
  ASSUME TypeInv, [Next]_vars, NEW s \in Stores,
         store'[s] # store[s], store'[s] # None
  PROVE  \E c \in Calls : StoreSet(c) /\ s = StoreFor(c) /\ store'[s] = entry[c]
<1> USE DEF endpointVars, cacheVars, fetchVars, argVars
<1>1. ASSUME NEW c \in Calls,
             \/ Starts(c) \/ StoreGet(c) \/ Hit(c) \/ Join(c) \/ Lead(c)
             \/ ReceiveKeys(c) \/ CallbackThrows(c) \/ ReceiveError(c) \/ Abort(c)
             \/ Wake(c) \/ Finally(c) \/ Resume(c) \/ Answer(c)
      PROVE  store' = store
  BY <1>1 DEF Starts, Start, StoreGet, Hit, Join, Lead, ReceiveKeys, CallbackThrows,
              ReceiveError, Abort, Wake, Finally, Resume, Answer
<1>2. ASSUME Rotate \/ Tick \/ UNCHANGED vars PROVE store' = store
  BY <1>2 DEF Rotate, Tick, vars
<1>3. ASSUME \/ \E i \in Caches : Clear(i) \/ StoreClear(i)
             \/ \E t \in Stores : Expire(t)
      PROVE  store'[s] = store[s] \/ store'[s] = None
  BY <1>3 DEF Clear, StoreClear, Expire, TypeInv, TypeOK
<1>4. ASSUME NEW c \in Calls, StoreSet(c)
      PROVE  s = StoreFor(c) /\ store'[s] = entry[c]
  BY <1>4 DEF StoreSet, TypeInv, TypeOK
<1>5. QED
  BY <1>1, <1>2, <1>3, <1>4 DEF Next, Step, Starts, Progress, Terminated

(* With an adapter for each instance and no clear(), an adapter never goes *)
(* back to an older key set, whatever the endpoint's answers overtake and  *)
(* however long its get and set take.  Both hypotheses are needed: two     *)
(* instances over one adapter, or a fetch that clear() left running beside *)
(* its successor, may write in either order.                               *)
THEOREM StoreMovesForward ==
  ASSUME MaxClears = 0, OwnStores
  PROVE  Spec => StoreNeverRegresses
<1> DEFINE I == AgeInv /\ RegistryInv /\ KnownInv /\ OrderInv
<1>1. Spec => []I
  <2>1. Init => I
    BY InitAge, InitRegistry, InitKnown, InitOrder
  <2>2. I /\ [Next]_vars => I'
    BY AgeCorrect, NextRegistry, NextKnown, NextOrder DEF AgeInv
  <2>3. QED  BY <2>1, <2>2, PTL DEF Spec
<1>2. ASSUME I, [Next]_vars, NEW s \in Stores, store[s] # None, store'[s] # None
      PROVE  /\ store'[s].fetchedAt >= store[s].fetchedAt
             /\ store'[s].version >= store[s].version
  <2>1. store[s] \in Entries /\ TypeInv
    BY <1>2 DEF AgeInv, TypeInv, TypeOK
  <2>2. CASE store'[s] = store[s]
    BY <2>1, <2>2, ConstantsAssumption DEF Entries, Versions
  <2>3. CASE store'[s] # store[s]
    <3>1. PICK c \in Calls : StoreSet(c) /\ s = StoreFor(c) /\ store'[s] = entry[c]
      BY <1>2, <2>1, <2>3, OnlySetStores
    <3>2. pc[c] = "writing" /\ entry[c] \in Entries
      BY <2>1, <3>1 DEF StoreSet, TypeInv, PlaceInv
    <3>3. QED
      BY <1>2, <2>1, <3>1, <3>2, ConstantsAssumption
         DEF OrderInv, NoNewerStored, Entries, Versions
  <2>4. QED  BY <2>2, <2>3
<1>3. I /\ [Next]_vars =>
        [\A s \in Stores :
           store[s] # None /\ store'[s] # None =>
             /\ store'[s].fetchedAt >= store[s].fetchedAt
             /\ store'[s].version >= store[s].version]_vars
  BY <1>2
<1>4. QED  BY <1>1, <1>3, PTL DEF Spec, StoreNeverRegresses

-----------------------------------------------------------------------------
(***************************************************************************)
(* A memory adapter that is never cleared.  What a call reads is still     *)
(* stored when it acts on it, and what a fetch wrote is replaced only by   *)
(* what a later fetch wrote.                                               *)
(***************************************************************************)
MemoryStore == SyncStore /\ ~StoreMayFail

ReadIsStored(c) == pc[c] = "read" => entry[c] = store[StoreFor(c)]

(* A call that has fetched, and has stored what it fetched. *)
HasStored(c) ==
  led[c] # None /\ pc[c] \in {"settled", "returned"} /\ outcome[c] \in Versions

StaysStored(c) ==
  HasStored(c) =>
    /\ entry[c] \in Entries /\ store[StoreFor(c)] # None
    /\ entry[c].fetchedAt <= store[StoreFor(c)].fetchedAt

MemoryInv ==
  /\ clearing = {}
  /\ \A c \in Calls :
       /\ ReadIsStored(c)
       /\ StaysStored(c)
       /\ pc[c] \in {"idle", "reading", "read", "joined"} => led[c] = None

LEMMA InitMemory == Init => MemoryInv
  BY DEF Init, MemoryInv, ReadIsStored, StaysStored, HasStored

LEMMA MemoryKept ==
  ASSUME TypeInv, MemoryInv, NEW c \in Calls, UNCHANGED <<store, clearing>>,
         \A d \in Calls \ {c} :
           /\ pc'[d] = pc[d] /\ entry'[d] = entry[d] /\ via'[d] = via[d]
           /\ led'[d] = led[d] /\ outcome'[d] = outcome[d],
         ReadIsStored(c)', StaysStored(c)',
         pc'[c] \in {"idle", "reading", "read", "joined"} => led'[c] = None
  PROVE  MemoryInv'
<1>1. ASSUME NEW d \in Calls, d # c
      PROVE  /\ ReadIsStored(d)' /\ StaysStored(d)'
             /\ pc'[d] \in {"idle", "reading", "read", "joined"} => led'[d] = None
  BY <1>1 DEF MemoryInv, ReadIsStored, StaysStored, HasStored, StoreFor
<1>2. QED  BY <1>1 DEF MemoryInv

(* The write of a memory adapter happens in the turn that received the     *)
(* keys, so no stored entry is younger.                                    *)
LEMMA WritesAtOnce ==
  ASSUME SyncStore, IInv, NEW c \in Calls, pc[c] = "writing"
  PROVE  /\ entry[c] \in Entries /\ entry[c] # None
         /\ \A e \in Entries : Fresh(e) => e.fetchedAt <= entry[c].fetchedAt
<1>1. entry[c] \in Entries /\ entry[c] # None
  BY DistinctAssumption DEF IInv, AgeInv, TypeInv, PlaceInv
<1>2. timer[c] = entry[c].fetchedAt + StoreMs /\ now <= timer[c] /\ StoreMs = 0
  BY ConstantsAssumption
     DEF IInv, SettleInv, AgeInv, TimeInv, OnTime, Waiting, Leading, Fetching
<1>3. now <= entry[c].fetchedAt /\ now \in Nat
  BY <1>1, <1>2 DEF Entries, IInv, AgeInv, TypeInv, TypeOK
<1>4. QED  BY <1>1, <1>3 DEF Entries, Fresh

LEMMA NextMemory ==
  ASSUME MemoryStore, MaxClears = 0, IInv, MemoryInv, [Next]_vars
  PROVE  MemoryInv'
<1> USE DEF endpointVars, cacheVars, fetchVars, argVars
<1>0. TypeInv /\ SyncStore /\ ~StoreMayFail
  BY DEF IInv, AgeInv, MemoryStore
<1>1. ASSUME NEW c \in Calls, Starts(c) PROVE MemoryInv'
  <2>1. /\ pc[c] = "idle" /\ pc'[c] = "reading"
        /\ UNCHANGED <<store, clearing, entry, led, outcome>>
        /\ \A d \in Calls \ {c} : pc'[d] = pc[d] /\ via'[d] = via[d]
    BY <1>0, <1>1 DEF Starts, Start, Goto, TypeInv, TypeOK
  <2>2. led'[c] = None
    BY <2>1 DEF MemoryInv
  <2>3. QED  BY <1>0, <2>1, <2>2, MemoryKept DEF ReadIsStored, StaysStored, HasStored
<1>2. ASSUME NEW c \in Calls, StoreGet(c) PROVE MemoryInv'
  <2>1. /\ pc[c] = "reading" /\ pc'[c] = "read" /\ entry'[c] = store[StoreFor(c)]
        /\ UNCHANGED <<store, clearing, via, led, outcome>>
        /\ \A d \in Calls \ {c} : pc'[d] = pc[d] /\ entry'[d] = entry[d]
    BY <1>0, <1>2 DEF StoreGet, TypeInv, TypeOK
  <2>2. ReadIsStored(c)' /\ StaysStored(c)' /\ led'[c] = None
    BY <2>1 DEF ReadIsStored, StaysStored, HasStored, StoreFor, MemoryInv
  <2>3. QED  BY <1>0, <2>1, <2>2, MemoryKept
<1>3. ASSUME NEW c \in Calls, Hit(c) \/ Join(c) \/ Resume(c) PROVE MemoryInv'
  <2>1. /\ pc[c] \in {"read", "joined"} /\ pc'[c] \in {"joined", "returned"}
        /\ UNCHANGED <<store, clearing, via, entry, led>>
        /\ \A d \in Calls \ {c} : pc'[d] = pc[d] /\ outcome'[d] = outcome[d]
    BY <1>0, <1>3 DEF Hit, Join, Resume, TypeInv, TypeOK
  <2>2. led'[c] = None
    BY <2>1 DEF MemoryInv
  <2>3. QED  BY <1>0, <2>1, <2>2, MemoryKept DEF ReadIsStored, StaysStored, HasStored
<1>4. ASSUME NEW c \in Calls, Lead(c) PROVE MemoryInv'
  <2>1. /\ UNCHANGED <<store, clearing, via, entry>>
        /\ \/ pc'[c] = "sent"
           \/ pc'[c] = "settled" /\ outcome'[c] = Fatal
        /\ \A d \in Calls \ {c} :
             pc'[d] = pc[d] /\ outcome'[d] = outcome[d] /\ led'[d] = led[d]
    BY <1>0, <1>4 DEF Lead, Goto, TypeInv, TypeOK
  <2>2. Fatal \notin Versions
    BY DistinctAssumption DEF Versions
  <2>3. QED
    BY <1>0, <2>1, <2>2, MemoryKept DEF ReadIsStored, StaysStored, HasStored
<1>5. ASSUME NEW c \in Calls, ReceiveKeys(c) \/ Wake(c) \/ Answer(c) PROVE MemoryInv'
  <2>1. /\ UNCHANGED <<store, clearing, via, led, outcome>>
        /\ pc'[c] \in {"writing", "sent", "answered"}
        /\ \A d \in Calls \ {c} : pc'[d] = pc[d] /\ entry'[d] = entry[d]
    BY <1>0, <1>5 DEF ReceiveKeys, Wake, Answer, Goto, TypeInv, TypeOK
  <2>2. QED  BY <1>0, <2>1, MemoryKept DEF ReadIsStored, StaysStored, HasStored
<1>6. ASSUME NEW c \in Calls, CallbackThrows(c) \/ ReceiveError(c) \/ Abort(c)
      PROVE  MemoryInv'
  <2>1. UNCHANGED <<store, clearing, via, led, entry>> /\ \E f \in Failures : FailAttempt(c, f)
    BY <1>6 DEF CallbackThrows, ReceiveError, Abort, Failures
  <2>2. /\ \/ pc'[c] = "sleeping"
           \/ pc'[c] = "settled" /\ outcome'[c] \notin Versions
        /\ \A d \in Calls \ {c} : pc'[d] = pc[d] /\ outcome'[d] = outcome[d]
    BY <1>0, <2>1, FailAttemptOutcome
  <2>3. QED  BY <1>0, <2>1, <2>2, MemoryKept DEF ReadIsStored, StaysStored, HasStored
<1>7. ASSUME NEW c \in Calls, Finally(c) PROVE MemoryInv'
  <2>1. /\ pc[c] = "settled" /\ pc'[c] = "returned"
        /\ UNCHANGED <<store, clearing, via, entry, led, outcome>>
        /\ \A d \in Calls \ {c} : pc'[d] = pc[d]
    BY <1>0, <1>7 DEF Finally, TypeInv, TypeOK
  <2>2. StaysStored(c)'
    BY <2>1 DEF MemoryInv, StaysStored, HasStored, StoreFor
  <2>3. QED  BY <1>0, <2>1, <2>2, MemoryKept DEF ReadIsStored
<1>8. ASSUME NEW c \in Calls, Turn(c), StoreSet(c) PROVE MemoryInv'
  <2>1. /\ pc[c] = "writing" /\ pc'[c] = "settled"
        /\ store' = [store EXCEPT ![StoreFor(c)] = entry[c]]
        /\ UNCHANGED <<clearing, via, entry, led>>
        /\ \A d \in Calls \ {c} : pc'[d] = pc[d] /\ outcome'[d] = outcome[d]
    BY <1>0, <1>8 DEF StoreSet, TypeInv, TypeOK
  <2>2. /\ entry[c] \in Entries /\ entry[c] # None
        /\ \A e \in Entries : Fresh(e) => e.fetchedAt <= entry[c].fetchedAt
    BY <1>0, <2>1, WritesAtOnce
  <2>3. \A d \in Calls : pc'[d] # "read"
    BY <1>0, <1>8, <2>1 DEF Turn
  <2>4. ASSUME NEW d \in Calls, HasStored(d)' PROVE StaysStored(d)'
    <3>1. StoreFor(d)' = StoreFor(d) /\ store \in [Stores -> Entries \cup {None}]
      BY <1>0, <2>1 DEF StoreFor, TypeInv, TypeOK
    <3>2. StoreFor(d) \in Stores /\ StoreFor(c) \in Stores
      BY <1>0, <2>1, <2>4, ConstantsAssumption
         DEF HasStored, StoreFor, TypeInv, PlaceInv
    <3>3. CASE d = c
      BY <2>1, <2>2, <3>1, <3>2, <3>3 DEF StaysStored, Entries
    <3>4. CASE d # c
      <4>1. StaysStored(d) /\ HasStored(d)
        BY <2>1, <2>4, <3>4 DEF MemoryInv, HasStored
      <4>2. Fresh(entry[d]) /\ entry[d] \in Entries
        BY <4>1, DistinctAssumption DEF StaysStored, IInv, AgeInv, FreshInv
      <4>3. CASE StoreFor(d) = StoreFor(c)
        BY <2>1, <2>2, <3>1, <3>2, <4>2, <4>3 DEF StaysStored
      <4>4. CASE StoreFor(d) # StoreFor(c)
        BY <2>1, <3>1, <3>2, <4>1, <4>4 DEF StaysStored
      <4>5. QED  BY <4>3, <4>4
    <3>5. QED  BY <3>3, <3>4
  <2>5. \A d \in Calls : StaysStored(d)' /\ ReadIsStored(d)'
    BY <2>3, <2>4 DEF StaysStored, ReadIsStored
  <2>6. QED  BY <2>1, <2>5 DEF MemoryInv
<1>9. ASSUME \/ \E i \in Caches : Clear(i) \/ StoreClear(i)
             \/ \E s \in Stores : Expire(s)
      PROVE  FALSE
  BY <1>0, <1>9, ConstantsAssumption
     DEF Clear, StoreClear, Expire, MemoryInv, TypeInv, TypeOK
<1>10. ASSUME Rotate \/ Tick \/ UNCHANGED vars PROVE MemoryInv'
  BY <1>10
     DEF Rotate, Tick, vars, callVars, MemoryInv, ReadIsStored, StaysStored, HasStored,
         StoreFor
<1>11. QED
  BY <1>1, <1>2, <1>3, <1>4, <1>5, <1>6, <1>7, <1>8, <1>9, <1>10
     DEF Next, Step, Starts, Progress, Terminated

LEMMA MemoryCorrect ==
  ASSUME MemoryStore, MaxClears = 0
  PROVE  Spec => [](IInv /\ MemoryInv)
<1>1. IInv /\ MemoryInv /\ [Next]_vars => MemoryInv'
  BY NextMemory
<1>2. QED  BY <1>1, IInvCorrect, InitMemory, PTL DEF Spec

(* Only a call that looks at inflight begins a fetch. *)
LEMMA OnlyLeadBegins ==
  ASSUME TypeInv, [Next]_vars, NEW d \in Calls, Begins(d)
  PROVE  Lead(d) /\ UNCHANGED now
<1> USE DEF endpointVars, cacheVars, fetchVars, argVars
<1>1. ASSUME NEW c \in Calls,
             \/ Starts(c) \/ StoreGet(c) \/ Hit(c) \/ Join(c)
             \/ ReceiveKeys(c) \/ CallbackThrows(c) \/ ReceiveError(c) \/ Abort(c)
             \/ Wake(c) \/ StoreSet(c) \/ Finally(c) \/ Resume(c) \/ Answer(c)
      PROVE  led' = led
  BY <1>1 DEF Starts, Start, StoreGet, Hit, Join, ReceiveKeys, CallbackThrows,
              ReceiveError, Abort, Wake, StoreSet, Finally, Resume, Answer
<1>2. ASSUME \/ \E i \in Caches : Clear(i) \/ StoreClear(i)
             \/ \E s \in Stores : Expire(s)
             \/ Rotate \/ Tick \/ UNCHANGED vars
      PROVE  led' = led
  BY <1>2 DEF Clear, StoreClear, Expire, Rotate, Tick, vars, callVars
<1>3. ASSUME NEW c \in Calls, Lead(c) PROVE c = d
  BY <1>3 DEF Lead, Begins, TypeInv, TypeOK
<1>4. \E c \in Calls : Lead(c)
  BY <1>1, <1>2 DEF Next, Step, Starts, Progress, Terminated, Begins
<1>5. QED  BY <1>3, <1>4 DEF Lead

(* With a memory adapter that is not cleared, two fetches of an instance   *)
(* are as far apart as the limit of the later call says: ttlMs for         *)
(* getKeys, minRefreshIntervalMs for refresh.  An adapter that answers     *)
(* later loses this, as the spacing run shows.                             *)
THEOREM FetchesAreSpaced ==
  ASSUME MemoryStore, MaxClears = 0
  PROVE  Spec => FetchSpacing
<1>1. ASSUME IInv, MemoryInv, [Next]_vars, NEW c \in Calls, NEW d \in Calls,
             Begins(d), led[c] # None, via[c] = via[d],
             pc[c] = "returned", outcome[c] \in Versions
      PROVE  now - entry[c].fetchedAt >= Limit(d)
  <2>1. TypeInv /\ Lead(d)
    BY <1>1, OnlyLeadBegins DEF IInv, AgeInv
  <2>2. pc[d] = "read" /\ ~Usable(d) /\ entry[d] = store[StoreFor(d)]
    BY <1>1, <2>1 DEF Lead, MemoryInv, ReadIsStored
  <2>3. /\ entry[c] \in Entries /\ entry[d] # None
        /\ entry[c].fetchedAt <= entry[d].fetchedAt
    BY <1>1, <2>2 DEF MemoryInv, StaysStored, HasStored, StoreFor
  <2>4. /\ entry[d] \in Entries /\ now \in Nat /\ Limit(d) \in Nat
    BY <2>1, <2>3, ConstantsAssumption DEF TypeInv, TypeOK, Limit
  <2>5. QED  BY <2>2, <2>3, <2>4 DEF Usable, Entries
<1>2. IInv /\ MemoryInv /\ [Next]_vars =>
        [\A c, d \in Calls :
           /\ Begins(d)
           /\ led[c] # None /\ via[c] = via[d]
           /\ pc[c] = "returned" /\ outcome[c] \in Versions
           => now - entry[c].fetchedAt >= Limit(d)]_vars
  BY <1>1
<1>3. QED  BY <1>2, MemoryCorrect, PTL DEF Spec, FetchSpacing

-----------------------------------------------------------------------------
(***************************************************************************)
(* Rotations.  A call that fetches compares the new keys with the entry it *)
(* read before; with an adapter of its own that is still what the adapter  *)
(* holds, through every attempt, up to the write.                          *)
(***************************************************************************)
Compares(c) ==
  /\ pc[c] \in {"read", "sent", "answered", "sleeping"} => entry[c] = store[StoreFor(c)]
  /\ pc[c] = "writing" =>
       LET e == store[StoreFor(c)] IN
       reports[c] <=> e # None /\ Kids[e.version] # Kids[entry[c].version]

CompareInv == \A c \in Calls : Compares(c)

LEMMA InitCompare == Init => CompareInv
  BY DEF Init, CompareInv, Compares

LEMMA CompareKept ==
  ASSUME CompareInv, NEW c \in Calls, store' = store,
         \A d \in Calls \ {c} : /\ pc'[d] = pc[d] /\ entry'[d] = entry[d]
                                /\ reports'[d] = reports[d] /\ via'[d] = via[d],
         Compares(c)'
  PROVE  CompareInv'
<1>1. ASSUME NEW d \in Calls, d # c PROVE Compares(d)'
  BY <1>1 DEF CompareInv, Compares, StoreFor
<1>2. QED  BY <1>1 DEF CompareInv

LEMMA NextCompare ==
  ASSUME MemoryStore, MaxClears = 0, OwnStores,
         TypeInv, RegistryInv, MemoryInv, CompareInv, [Next]_vars
  PROVE  CompareInv'
<1> USE DEF endpointVars, cacheVars, fetchVars, argVars
<1>0. SyncStore /\ ~StoreMayFail
  BY DEF MemoryStore
<1>1. ASSUME NEW c \in Calls,
             Starts(c) \/ Hit(c) \/ Join(c) \/ Finally(c) \/ Resume(c)
      PROVE  CompareInv'
  <2>1. /\ UNCHANGED <<store, entry, reports>>
        /\ pc'[c] \in {"reading", "joined", "returned"}
        /\ \A d \in Calls \ {c} : pc'[d] = pc[d] /\ via'[d] = via[d]
    BY <1>1 DEF Starts, Start, Goto, Hit, Join, Finally, Resume, TypeInv, TypeOK
  <2>2. QED  BY <2>1, CompareKept DEF Compares
<1>2. ASSUME NEW c \in Calls, StoreGet(c) PROVE CompareInv'
  <2>1. /\ UNCHANGED <<store, via, reports>> /\ pc'[c] = "read"
        /\ entry'[c] = store[StoreFor(c)]
        /\ \A d \in Calls \ {c} : pc'[d] = pc[d] /\ entry'[d] = entry[d]
    BY <1>0, <1>2 DEF StoreGet, TypeInv, TypeOK
  <2>2. QED  BY <2>1, CompareKept DEF Compares, StoreFor
<1>3. ASSUME NEW c \in Calls, Lead(c) \/ Wake(c) \/ Answer(c) PROVE CompareInv'
  <2>1. /\ UNCHANGED <<store, via, entry>>
        /\ pc[c] \in {"read", "sent", "sleeping"}
        /\ pc'[c] \in {"sent", "answered", "settled"}
        /\ \A d \in Calls \ {c} : pc'[d] = pc[d] /\ reports'[d] = reports[d]
    BY <1>3 DEF Lead, Wake, Answer, Goto, TypeInv, TypeOK
  <2>2. Compares(c)'
    BY <2>1 DEF CompareInv, Compares, StoreFor
  <2>3. QED  BY <2>1, <2>2, CompareKept
<1>4. ASSUME NEW c \in Calls, ReceiveKeys(c) PROVE CompareInv'
  <2>1. /\ UNCHANGED <<store, via>> /\ pc[c] = "answered" /\ pc'[c] = "writing"
        /\ reports'[c] = Rotated(c, reply[c]) /\ entry'[c].version = reply[c]
        /\ \A d \in Calls \ {c} :
             pc'[d] = pc[d] /\ reports'[d] = reports[d] /\ entry'[d] = entry[d]
    BY <1>4 DEF ReceiveKeys, Goto, Fetched, TypeInv, TypeOK
  <2>2. entry[c] = store[StoreFor(c)]
    BY <2>1 DEF CompareInv, Compares
  <2>3. Compares(c)'
    BY <2>1, <2>2 DEF Compares, Rotated, StoreFor
  <2>4. QED  BY <2>1, <2>3, CompareKept
<1>5. ASSUME NEW c \in Calls, CallbackThrows(c) \/ ReceiveError(c) \/ Abort(c)
      PROVE  CompareInv'
  <2>1. /\ UNCHANGED <<store, via, entry>> /\ \E f \in Failures : FailAttempt(c, f)
        /\ pc[c] \in {"sent", "answered"}
        /\ \A d \in Calls \ {c} : reports'[d] = reports[d]
    BY <1>5 DEF CallbackThrows, ReceiveError, Abort, Failures, TypeInv, TypeOK
  <2>2. pc'[c] \in {"sleeping", "settled"} /\ \A d \in Calls \ {c} : pc'[d] = pc[d]
    BY <2>1, FailAttemptOutcome
  <2>3. Compares(c)'
    BY <2>1, <2>2 DEF CompareInv, Compares, StoreFor
  <2>4. QED  BY <2>1, <2>2, <2>3, CompareKept
<1>6. ASSUME NEW c \in Calls, Turn(c), StoreSet(c) PROVE CompareInv'
  <2>1. /\ UNCHANGED <<reports, via, entry>> /\ pc[c] = "writing" /\ pc'[c] = "settled"
        /\ \A d \in Calls \ {c} : pc'[d] = pc[d]
        /\ \A s \in Stores \ {StoreFor(c)} : store'[s] = store[s]
    BY <1>6 DEF StoreSet, TypeInv, TypeOK
  <2>2. ASSUME NEW d \in Calls, d # c PROVE Compares(d)'
    <3>1. pc[d] # "read"
      BY <1>0, <1>6, <2>2 DEF Turn
    <3>2. CASE pc[d] \in Leading
      <4>1. StoreFor(d) \in Stores /\ StoreFor(d) # StoreFor(c)
        BY <2>1, <2>2, <3>2, SoleWriter, ConstantsAssumption
           DEF StoreFor, TypeInv, PlaceInv, Leading, Fetching
      <4>2. store'[StoreFor(d)] = store[StoreFor(d)] /\ StoreFor(d)' = StoreFor(d)
        BY <2>1, <4>1 DEF StoreFor
      <4>3. QED  BY <2>1, <2>2, <4>2 DEF CompareInv, Compares
    <3>3. CASE pc[d] \notin Leading
      BY <2>1, <2>2, <3>1, <3>3 DEF Compares, Leading, Fetching
    <3>4. QED  BY <3>2, <3>3
  <2>3. QED  BY <2>1, <2>2 DEF CompareInv, Compares
<1>7. ASSUME \/ \E i \in Caches : Clear(i) \/ StoreClear(i)
             \/ \E s \in Stores : Expire(s)
      PROVE  FALSE
  BY <1>0, <1>7, ConstantsAssumption
     DEF Clear, StoreClear, Expire, MemoryInv, TypeInv, TypeOK
<1>8. ASSUME Rotate \/ Tick \/ UNCHANGED vars PROVE CompareInv'
  BY <1>8 DEF Rotate, Tick, vars, callVars, CompareInv, Compares, StoreFor
<1>9. QED
  BY <1>1, <1>2, <1>3, <1>4, <1>5, <1>6, <1>7, <1>8
     DEF Next, Step, Starts, Progress, Terminated

(* With a memory adapter of its own that is not cleared, an instance calls *)
(* onKeyRotation when, and only when, the keys it is about to store carry  *)
(* other kids than the stored ones, whichever attempt brought them.        *)
THEOREM RotationsAreReported ==
  ASSUME MemoryStore, MaxClears = 0, OwnStores
  PROVE  Spec => RotationReported
<1>1. Spec => [](IInv /\ MemoryInv /\ CompareInv)
  <2>1. IInv /\ MemoryInv /\ CompareInv /\ [Next]_vars => CompareInv'
    BY NextCompare DEF IInv, AgeInv
  <2>2. QED  BY <2>1, InitCompare, MemoryCorrect, PTL DEF Spec
<1>2. CompareInv /\ [Next]_vars =>
        [\A c \in Calls :
           LET s == StoreFor(c) IN
           /\ pc[c] = "writing" /\ pc'[c] = "settled"
           /\ store[s] # None
           => (reports[c] <=> Kids[store[s].version] # Kids[entry[c].version])]_vars
  BY DEF CompareInv, Compares
<1>3. QED  BY <1>1, <1>2, PTL DEF Spec, RotationReported
=============================================================================
