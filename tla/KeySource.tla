------------------------------ MODULE KeySource ------------------------------
(***************************************************************************)
(* What a verifier is promised by a source of keys, however it caches,     *)
(* shares and retries: each call is answered once, and the answer is a     *)
(* failure or a key set that the endpoint served at some time between the  *)
(* answer and a window before the call.  The endpoint replaces its key set *)
(* at any time.  JwksCache implements this.                                *)
(***************************************************************************)
EXTENDS Integers

CONSTANTS
  Calls,
  Ops, Window,    \* kinds of call, and the window of each
  LastVersion,    \* key sets are numbered in the order they are published
  Failures,
  None

VARIABLES
  now,
  served,         \* the key set the endpoint serves
  retired,        \* when each key set stopped being served, or None
  wanted, since,  \* kind and time of each call, None before it is made
  answer          \* what it was answered, None before

callVars == <<wanted, since, answer>>
vars == <<now, served, retired, callVars>>

Init ==
  /\ now = 0
  /\ served = 0
  /\ retired = [v \in 0 .. LastVersion |-> None]
  /\ wanted = [c \in Calls |-> None]
  /\ since = [c \in Calls |-> 0]
  /\ answer = [c \in Calls |-> None]

Ask(c) ==
  /\ wanted[c] = None
  /\ \E o \in Ops : wanted' = [wanted EXCEPT ![c] = o]
  /\ since' = [since EXCEPT ![c] = now]
  /\ UNCHANGED <<now, served, retired, answer>>

Current(c) ==
  {v \in 0 .. served : retired[v] # None => retired[v] + Window[wanted[c]] >= since[c]}

Answer(c) ==
  /\ wanted[c] # None
  /\ answer[c] = None
  /\ \E a \in Current(c) \cup Failures : answer' = [answer EXCEPT ![c] = a]
  /\ UNCHANGED <<now, served, retired, wanted, since>>

Rotate ==
  /\ served < LastVersion
  /\ served' = served + 1
  /\ retired' = [retired EXCEPT ![served] = now]
  /\ UNCHANGED <<now, callVars>>

Tick ==
  /\ now' = now + 1
  /\ UNCHANGED <<served, retired, callVars>>

Next == Rotate \/ Tick \/ \E c \in Calls : Ask(c) \/ Answer(c)

Spec == Init /\ [][Next]_vars

(* Every call is answered. *)
FairSpec == Spec /\ \A c \in Calls : WF_vars(Answer(c))
=============================================================================
