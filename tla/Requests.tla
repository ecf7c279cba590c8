------------------------------- MODULE Requests -------------------------------
(* What the parts of the server state share: the requests and the time. *)
EXTENDS Integers

CONSTANTS
  Proc,    \* the requests that can be in progress at the same time
  MaxTime  \* bound: the time at which the clock stops

VARIABLE clock

Tick ==
  /\ clock < MaxTime
  /\ clock' = clock + 1
=============================================================================
