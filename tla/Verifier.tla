------------------------------- MODULE Verifier -------------------------------
(***************************************************************************)
(* What a caller is promised by a verification, by whichever backend and   *)
(* after however many awaits: one answer; keys only from what the call     *)
(* names; a token is accepted on the ground of these keys, or of the       *)
(* secret, at a moment when its claims hold; and a token that has to be    *)
(* accepted is never refused at such a moment.                             *)
(*                                                                         *)
(* Verification implements this, alone and composed in Lifecycle.          *)
(***************************************************************************)
CONSTANTS
  None,
  NoKeys       \* the ring before there is one

VARIABLES
  named,       \* the rings of keys the call names
  genuine,     \* a key of the ring, or the secret, has signed the token
  current,     \* the claims of the token hold now
  certain,     \* nothing but its claims speaks against the token
  ring,        \* the keys that are used
  answer       \* "accepted", "refused", or None

(* The first four are the caller's and the clock's. *)
vars == <<ring, answer>>

Init == ring = NoKeys /\ answer = None

Obtain ==
  /\ ring = NoKeys /\ answer = None
  /\ ring' # NoKeys /\ ring' \in named
  /\ UNCHANGED answer

Accept ==
  /\ answer = None /\ answer' = "accepted"
  /\ genuine /\ current
  /\ UNCHANGED ring

Refuse ==
  /\ answer = None /\ answer' = "refused"
  /\ ~(certain /\ current)
  /\ UNCHANGED ring

Next == Obtain \/ Accept \/ Refuse

Spec == Init /\ [][Next]_vars
=============================================================================
