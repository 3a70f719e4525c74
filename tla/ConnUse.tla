------------------------------ MODULE ConnUse -------------------------------
(***************************************************************************)
(* What a connection promises the credential pool and the statistics: it   *)
(* counts itself on one slot when it is given a credential, counts itself  *)
(* among the live connections only while it is on a slot, and undoes both, *)
(* each once, in the opposite order.  Session implements this.             *)
(***************************************************************************)
EXTENDS Integers, FiniteSets

CONSTANTS
  Conns,        \* the connections
  Slots,        \* the slots of the pool
  Nowhere       \* the slot of a connection that holds none

VARIABLES
  at,           \* the slot each connection is counted on
  live,         \* the connections counted as established
  used,         \* connections counted on each slot
  active        \* connections counted as established

vars == <<at, live, used, active>>

Init ==
  /\ at = [c \in Conns |-> Nowhere]
  /\ live = {}
  /\ used = [s \in Slots |-> 0]
  /\ active = 0

Acquire(c, s) ==
  /\ at[c] = Nowhere
  /\ at' = [at EXCEPT ![c] = s]
  /\ used' = [used EXCEPT ![s] = @ + 1]
  /\ UNCHANGED <<live, active>>

Establish(c) ==
  /\ at[c] # Nowhere
  /\ c \notin live
  /\ live' = live \cup {c}
  /\ active' = active + 1
  /\ UNCHANGED <<at, used>>

Lose(c) ==
  /\ c \in live
  /\ live' = live \ {c}
  /\ active' = active - 1
  /\ UNCHANGED <<at, used>>

Release(c) ==
  /\ at[c] # Nowhere
  /\ c \notin live
  /\ at' = [at EXCEPT ![c] = Nowhere]
  /\ used' = [used EXCEPT ![at[c]] = @ - 1]
  /\ UNCHANGED <<live, active>>

Next ==
  \E c \in Conns :
    \/ \E s \in Slots : Acquire(c, s)
    \/ Establish(c)
    \/ Lose(c)
    \/ Release(c)

Spec == Init /\ [][Next]_vars

=============================================================================
