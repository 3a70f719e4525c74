----------------------------- MODULE PoolSizing -----------------------------
(***************************************************************************)
(* The arithmetic that ties the number of tunnel connections to the size   *)
(* of the credential pool.  Three places of the code compute it on their   *)
(* own: poolSizeForNumConns and get in pkg/proxy/creds.go, growCredPool in *)
(* pkg/proxy/proxy.go.  They have to agree.                                *)
(***************************************************************************)
EXTENDS Integers

connsPerSlot == 10

AtLeast(lo, x) == IF x < lo THEN lo ELSE x

poolSizeForNumConns(n) == AtLeast(2, (AtLeast(1, n) * 2 + 4) \div 5)

(* get's Phase 2 cap, recovered from the pool size alone. *)
coldStartTarget(size) == AtLeast(1, (size + 3) \div 4)

(* growCredPool's target. *)
coldStartSlots(n) == AtLeast(1, (n + 9) \div 10)

(* get's ownSlot before it is clamped to the pool. *)
ownSlot(i) == i \div connsPerSlot

-----------------------------------------------------------------------------
(* get and the grower aim at the same number of credentials, although get      *)
(* only knows the pool size: neither fetches past the other's target.         *)
TargetsAgree(n) == coldStartTarget(poolSizeForNumConns(n)) = coldStartSlots(n)

(* A pool filled up to the cold-start target hosts every connection within    *)
(* the VK quota, so a conn parked by the cap is never parked for good.        *)
TargetHostsAll(n) == n <= connsPerSlot * coldStartTarget(poolSizeForNumConns(n))

(* Each connection's own slot exists: get's clamp never piles the surplus of  *)
(* the last connections onto one slot.                                        *)
OwnSlotExists(n) == \A i \in 0 .. n - 1 : ownSlot(i) \in 0 .. poolSizeForNumConns(n) - 1

(* The three roundings fit together for NumConns = n. *)
SizesFit(n) == TargetsAgree(n) /\ TargetHostsAll(n) /\ OwnSlotExists(n)

=============================================================================
