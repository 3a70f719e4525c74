----------------------------- MODULE MCLifecycle -----------------------------
(* Small instances of Lifecycle for TLC. *)
EXTENDS Lifecycle, TLC

(* The runs of startConnections are interchangeable. *)
StarterSymmetry == Permutations(Starters)

=============================================================================
