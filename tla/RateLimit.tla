----------------------------- MODULE RateLimit -----------------------------
(***************************************************************************)
(* What a rate limiter promises its clients: a bucket per client that is   *)
(* full at first, gains PerMinute tokens a minute up to PerMinute, and     *)
(* pays one token for every request it admits.  Nothing is ever forgotten. *)
(*                                                                         *)
(* A token is Minute units, so a second earns PerMinute of them.           *)
(***************************************************************************)
EXTENDS Integers

CONSTANTS Clients, PerMinute, Minute, MaxTime

Capacity == PerMinute * Minute
Capped(n) == IF n > Capacity THEN Capacity ELSE n

VARIABLES level,    \* level[c]: the units in c's bucket now
          now,
          admitted  \* admitted[c][t]: requests of c let through in second t

vars == <<level, now, admitted>>

Init ==
  /\ level = [c \in Clients |-> Capacity]
  /\ now = 1
  /\ admitted = [c \in Clients |-> [t \in 1 .. MaxTime |-> 0]]

Admit(c) ==
  /\ level[c] >= Minute
  /\ level' = [level EXCEPT ![c] = @ - Minute]
  /\ admitted' = [admitted EXCEPT ![c][now] = @ + 1]
  /\ UNCHANGED now

Second ==
  /\ now < MaxTime
  /\ now' = now + 1
  /\ level' = [c \in Clients |-> Capped(level[c] + PerMinute)]
  /\ UNCHANGED admitted

Next == Second \/ \E c \in Clients : Admit(c)

Spec == Init /\ [][Next]_vars
=============================================================================
