----------------------------- MODULE MCCookieMint -----------------------------
(* A small instance of CookieMint for TLC. *)
EXTENDS CookieMint, TLC

CONSTANTS l1, l2, r1, r2

(* Two calls, in either order: a new configuration moves the relays. *)
TwoLinks == {<<l1, l2>>, <<l2, l1>>}

(* They return overlapping relays, in either order and on a list that may *)
(* name one twice.                                                        *)
Overlapping == {<<r1>>, <<r1, r2>>, <<r2, r1, r2>>}

Symmetry == Permutations(Fetchers)

=============================================================================
