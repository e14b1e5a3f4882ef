------------------------------ MODULE Reservation ------------------------------
(***************************************************************************)
(* What kento_lock() and the instance directories promise together: a      *)
(* client reserves a resource that nobody has, in one step, and is the     *)
(* only one to have it until it gives it back.  A client that succeeds     *)
(* keeps its reservation for good; one that is killed, or whose clean-up   *)
(* fails, leaves the resource taken by nobody.                             *)
(***************************************************************************)
CONSTANTS
  Client,     \* those who reserve
  Resource    \* what can be reserved

VARIABLES
  taken,  \* the resources that cannot be reserved
  held,   \* client -> what it has reserved: {} or a singleton
  kept    \* the clients that have succeeded

reservations == <<taken, held, kept>>

RInit == taken = {} /\ held = [c \in Client |-> {}] /\ kept = {}

Reserve(c, r) ==
  /\ held[c] = {} /\ r \notin taken
  /\ taken' = taken \cup {r}
  /\ held' = [held EXCEPT ![c] = {r}]
  /\ UNCHANGED kept

Keep(c) == /\ held[c] # {} /\ kept' = kept \cup {c}
           /\ UNCHANGED <<taken, held>>

Release(c) ==
  /\ held[c] # {} /\ c \notin kept
  /\ taken' = taken \ held[c]
  /\ held' = [held EXCEPT ![c] = {}]
  /\ UNCHANGED kept

Abandon(c) ==
  /\ held[c] # {} /\ c \notin kept
  /\ held' = [held EXCEPT ![c] = {}]
  /\ UNCHANGED <<taken, kept>>

RNext == \E c \in Client :
           \/ \E r \in Resource : Reserve(c, r)
           \/ Keep(c) \/ Release(c) \/ Abandon(c)

RSpec == RInit /\ [][RNext]_reservations
===============================================================================
