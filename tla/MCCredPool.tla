----------------------------- MODULE MCCredPool -----------------------------
(* Small instances of CredPool for TLC. *)
EXTENDS CredPool

ThreeConns == 0 .. 2

TwoConns == 0 .. 1

=============================================================================
