------------------------------ MODULE MCCredDisk ------------------------------
(* Small instances of CredDisk for TLC. *)
EXTENDS CredDisk, TLC

CONSTANTS a1, a2, b1

(* Two anonymous credentials, or one mint of a call with two relays. *)
TwoOrShared ==
  {[user |-> a, relay |-> None] : a \in {a1, a2}} \cup {[user |-> b1, relay |-> s] : s \in Slots}

(* One call has the relays of all slots. *)
OneCall == [s \in Slots |-> CHOOSE c \in Calls : TRUE]

(* Only safety is checked: anonymous names and savers may be exchanged. *)
Symmetry == Permutations({a1, a2}) \cup Permutations(Savers)

(* What tells states apart.  No guard reads the history, but for the failed *)
(* disk, after which no property looks at the rest of it.  How long a       *)
(* credential was in use matters while it still is, and once that was long  *)
(* enough for QuarantineKept and VK still holds its allocations: a use      *)
(* begins the count anew.                                                   *)
View ==
  LET held == {u \in Creds : InUse(u) \/ (stretch[u] = 2 /\ alloc[u] > 1)} IN
    <<process, pool, due, saver, diskVars, seed, cookieVars, issued, diskFailed,
      IF diskFailed THEN <<>>
        ELSE <<[u \in held |-> <<stretch[u], alloc[u]>>], usedHere \cap held, dropped, gone>> >>

=============================================================================
