----------------------------- MODULE MCVKFetch ------------------------------
(* A small instance of VKFetch for TLC. *)
EXTENDS VKFetch

CONSTANTS l1, l2, r1, r2

(* The app configures two calls, or forgets to, ... *)
TwoLinks == {<<l1, l2>>, <<>>}

(* ... which return overlapping relays. *)
Overlapping == {<<r1>>, <<r1, r2>>}

=============================================================================
