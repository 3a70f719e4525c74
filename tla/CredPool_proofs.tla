-------------------------- MODULE CredPool_proofs --------------------------
(***************************************************************************)
(* Theorems of CredPool, for every number of conns and slots and every     *)
(* choice of the durations.                                                *)
(***************************************************************************)
EXTENDS CredPool, FiniteSetTheorems, TLAPS

(* The operators that rewrite an entry keep it an entry. *)
LEMMA EntryOps ==
  /\ EmptyEntry \in Entry
  /\ FetchedEntry(0) \in Entry
  /\ FetchedEntry(1) \in Entry
  /\ \A l \in 0 .. CredLife, a \in 0 .. ActiveWindow : LoadedEntry(l, a) \in Entry
  /\ \A e \in Entry : Released(e) \in Entry
  /\ \A e \in Entry : pathChangeMark(e) \in Entry
  /\ \A e \in Entry : Aged(e) \in Entry
  /\ \A e \in Entry : saturationCooldown(e) \in Durations
PROOF
  <1> USE SizeAssumption, TimeAssumption DEF SizeAssumption, TimeAssumption
  <1>1. 0 \in Durations /\ SatShort \in Durations /\ SatLong \in Durations
    BY DEF Durations, Larger
  <1>2. EmptyEntry \in Entry
    BY <1>1 DEF EmptyEntry, Entry
  <1>3. FetchedEntry(0) \in Entry /\ FetchedEntry(1) \in Entry
    <2>1. \A e \in Entry, l \in 0 .. CredLife, n \in 0 .. ConnsPerSlot :
            [e EXCEPT !.creds = TRUE, !.expiry = l, !.active = n] \in Entry
      BY DEF Entry
    <2>2. CredLife \in 0 .. CredLife /\ 0 \in 0 .. ConnsPerSlot /\ 1 \in 0 .. ConnsPerSlot
      OBVIOUS
    <2>3. QED
      BY <1>2, <2>1, <2>2 DEF FetchedEntry
  <1>4. \A l \in 0 .. CredLife, a \in 0 .. ActiveWindow : LoadedEntry(l, a) \in Entry
    <2>1. \A a \in 0 .. ActiveWindow : Larger(GhostCooldown - a, 0) \in 0 .. GhostCooldown
      BY DEF Larger
    <2>2. \A e \in Entry, l \in 0 .. CredLife, a \in 0 .. ActiveWindow, g \in 0 .. GhostCooldown :
            [e EXCEPT !.creds = TRUE, !.expiry = l, !.lastUsedAt = a, !.availableAt = g] \in Entry
      BY DEF Entry
    <2>3. QED
      BY <1>2, <2>1, <2>2 DEF LoadedEntry
  <1>5. \A e \in Entry : Released(e) \in Entry
    <2> TAKE e \in Entry
    <2>1. e.active \in 0 .. ConnsPerSlot /\ (e.active # 0 => e.active - 1 \in 0 .. ConnsPerSlot)
      BY DEF Entry
    <2>2. (IF e.active = 1 THEN 0 ELSE e.lastUsedAt) \in 0 .. ActiveWindow
      BY DEF Entry
    <2>3. \A n \in 0 .. ConnsPerSlot, a \in 0 .. ActiveWindow :
            [e EXCEPT !.active = n, !.lastUsedAt = a] \in Entry
      BY DEF Entry
    <2>4. QED
      BY <2>1, <2>2, <2>3 DEF Released
  <1>6. \A e \in Entry : pathChangeMark(e) \in Entry
    <2> TAKE e \in Entry
    <2>1. pathChangeCooldown(e) \in Durations
      BY DEF pathChangeCooldown, Entry, Durations, Larger
    <2>2. QED
      BY <2>1 DEF pathChangeMark, Entry
  <1>7. \A e \in Entry : Aged(e) \in Entry
    <2> TAKE e \in Entry
    <2>1. \A n \in Nat : \A x \in 0 .. n : Less(x) \in 0 .. n
      BY DEF Less
    <2>2. Less(e.expiry) \in 0 .. CredLife /\ Less(e.cooldownUntil) \in 0 .. FetchCooldown
      BY <2>1 DEF Entry
    <2>3. Less(e.availableAt) \in 0 .. GhostCooldown
      BY <2>1 DEF Entry
    <2>4. Less(e.saturatedUntil) \in Durations
      BY <2>1 DEF Entry, Durations, Larger
    <2>5. Older(e.lastUsedAt, ActiveWindow) \in 0 .. ActiveWindow
      BY DEF Older, Entry
    <2>6. QED
      BY <2>2, <2>3, <2>4, <2>5 DEF Aged, Entry
  <1>8. \A e \in Entry : saturationCooldown(e) \in Durations
    BY <1>1 DEF saturationCooldown
  <1>9. QED
    BY <1>2, <1>3, <1>4, <1>5, <1>6, <1>7, <1>8

(* Every choice of a slot to share is one with room, every choice of a slot  *)
(* to fetch into one that may be fetched into.                               *)
LEMMA Choices ==
  ASSUME NEW p, NEW own
  PROVE  /\ \A s \in pickAcquireSlot(p, own) : s \in Slots /\ Acquirable(p[s])
         /\ \A s \in pickFetchSlot(p, own) : s \in Slots /\ Fetchable(p[s])
         /\ \A s \in pickSlotToFill(p) : s \in Slots /\ Fetchable(p[s])
PROOF
  BY Zenon DEF pickAcquireSlot, pickFetchSlot, pickSlotToFill, Lowest
(* The updates of one slot that the actions make keep the pool a pool. *)
LEMMA PoolOps ==
  ASSUME NEW p \in [Slots -> Entry], NEW s \in Slots
  PROVE  /\ Acquirable(p[s]) => [p EXCEPT ![s].active = @ + 1] \in [Slots -> Entry]
         /\ [p EXCEPT ![s].fetching = TRUE] \in [Slots -> Entry]
         /\ [p EXCEPT ![s].fetching = FALSE] \in [Slots -> Entry]
         /\ FetchFailed(p, s) \in [Slots -> Entry]
         /\ \A d \in Durations : [p EXCEPT ![s].saturatedUntil = d] \in [Slots -> Entry]
         /\ \A e \in Entry : [p EXCEPT ![s] = e] \in [Slots -> Entry]
PROOF
  <1>1. p[s] \in Entry
    OBVIOUS
  <1>2. Acquirable(p[s]) => [p[s] EXCEPT !.active = @ + 1] \in Entry
    <2>1. Acquirable(p[s]) => p[s].active + 1 \in 0 .. ConnsPerSlot
      BY <1>1, SizeAssumption DEF SizeAssumption, Acquirable, Entry
    <2>2. QED
      BY <1>1, <2>1 DEF Entry
  <1>3. \A b \in BOOLEAN : [p[s] EXCEPT !.fetching = b] \in Entry
    BY <1>1 DEF Entry
  <1>4. [p[s] EXCEPT !.fetching = FALSE, !.cooldownUntil = FetchCooldown] \in Entry
    <2>1. FetchCooldown \in 0 .. FetchCooldown
      BY TimeAssumption DEF TimeAssumption
    <2>2. QED
      BY <1>1, <2>1 DEF Entry
  <1>5. \A d \in Durations : [p[s] EXCEPT !.saturatedUntil = d] \in Entry
    BY <1>1 DEF Entry
  <1>6. \A e \in Entry : [p EXCEPT ![s] = e] \in [Slots -> Entry]
    OBVIOUS
  <1>7. FetchFailed(p, s) = [p EXCEPT ![s] = [p[s] EXCEPT !.fetching = FALSE,
                                                        !.cooldownUntil = FetchCooldown]]
    BY DEF FetchFailed
  <1>8. QED
    BY <1>1, <1>2, <1>3, <1>4, <1>5, <1>6, <1>7

(* A slot of the pool keeps, through a failed fetch, all that Phase 1 looks at. *)
LEMMA FetchFailedKeeps ==
  ASSUME NEW p \in [Slots -> Entry], NEW s \in Slots, NEW t \in Slots
  PROVE  /\ FetchFailed(p, s)[t] \in Entry
         /\ FetchFailed(p, s)[t].active = p[t].active
         /\ FetchFailed(p, s)[t].creds = p[t].creds
         /\ FetchFailed(p, s)[t].expiry = p[t].expiry
         /\ FetchFailed(p, s)[t].fetching = (p[t].fetching /\ t # s)
PROOF
  <1>1. FetchFailed(p, s) \in [Slots -> Entry]
    BY PoolOps
  <1>2. CASE t = s
    BY <1>1, <1>2 DEF FetchFailed, Entry
  <1>3. CASE t # s
    BY <1>1, <1>3 DEF FetchFailed, Entry
  <1>4. QED
    BY <1>2, <1>3
-----------------------------------------------------------------------------
(* The type invariant *)

LEMMA TypeInit == Init => TypeOK
PROOF
  <1> SUFFICES ASSUME Init PROVE TypeOK
    OBVIOUS
  <1>1. pool \in [Slots -> Entry]
    BY EntryOps DEF Init
  <1>2. pauseAcquireUntil \in Nat /\ lastPathEventAt \in 0 .. CascadeWindow
    BY TimeAssumption DEF Init, TimeAssumption
  <1>3. conn \in [Conns -> ConnState] /\ \A c \in Conns : conn[c].slot = None <=> conn[c].pc = "idle"
    BY DEF Init, ConnState, Idle
  <1>4. grower \in GrowerState /\ (grower.slot = None <=> grower.pc = "wait")
    BY DEF Init, GrowerState
  <1>5. QED
    BY <1>1, <1>2, <1>3, <1>4 DEF Init, TypeOK

(* A conn moves to a new state that remembers a slot unless it is idle. *)
LEMMA ConnMoves ==
  ASSUME TypeOK, NEW c \in Conns, NEW k \in ConnState, k.slot = None <=> k.pc = "idle"
  PROVE  /\ [conn EXCEPT ![c] = k] \in [Conns -> ConnState]
         /\ \A d \in Conns : [conn EXCEPT ![c] = k][d].slot = None
                               <=> [conn EXCEPT ![c] = k][d].pc = "idle"
PROOF
  BY DEF TypeOK

LEMMA ConnTargets ==
  /\ None \notin Slots
  /\ Idle \in ConnState /\ Idle.slot = None /\ Idle.pc = "idle"
  /\ \A s \in Slots, x \in {"fetch", "hold", "leave"} :
       LET k == [pc |-> x, slot |-> s]
       IN k \in ConnState /\ k.slot # None /\ k.pc # "idle"
PROOF
  <1>1. None \notin Slots
    BY SizeAssumption DEF SizeAssumption, None, Slots
  <1>2. QED
    BY <1>1 DEF Idle, ConnState

LEMMA HeldSlot ==
  ASSUME TypeOK, NEW c \in Conns, conn[c].pc # "idle"
  PROVE  /\ conn[c].slot \in Slots
         /\ \A x : [conn EXCEPT ![c].pc = x] = [conn EXCEPT ![c] = [pc |-> x, slot |-> conn[c].slot]]
PROOF
  BY DEF TypeOK, ConnState

LEMMA GrowerSlot ==
  ASSUME TypeOK, grower.pc # "wait"
  PROVE  grower.slot \in Slots
PROOF
  BY DEF TypeOK, GrowerState

LEMMA TypeNext == TypeOK /\ [Next]_vars => TypeOK'
PROOF
  <1> SUFFICES ASSUME TypeOK, [Next]_vars PROVE TypeOK'
    OBVIOUS
  <1> USE ConnTargets
  <1>p. pool \in [Slots -> Entry] /\ \A s \in Slots : users[s] \in SUBSET Conns
    BY DEF TypeOK
  <1>f. \A s \in Slots : FetchersOf(s) \subseteq Conns \cup {Grower}
    BY DEF FetchersOf
  <1>1. ASSUME NEW c \in Conns, Acquire(c) PROVE TypeOK'
    <2>1. PICK s \in Slots : Acquirable(pool[s]) /\ HandOut(pool, c, s)
      BY <1>1, Choices DEF Acquire
    <2>2. pool' \in [Slots -> Entry]
      BY <2>1, <1>p, PoolOps DEF HandOut
    <2>3. conn' \in [Conns -> ConnState] /\ \A d \in Conns : conn'[d].slot = None <=> conn'[d].pc = "idle"
      BY <2>1, ConnMoves, ZenonT(30) DEF HandOut
    <2>4. users' \in [Slots -> SUBSET Conns]
      BY <2>1 DEF HandOut, TypeOK
    <2>5. QED
      BY <1>1, <2>2, <2>3, <2>4 DEF Acquire, TypeOK
  <1>2. ASSUME NEW c \in Conns, StartFetch(c) PROVE TypeOK'
    <2>1. PICK s \in Slots : /\ pool' = [pool EXCEPT ![s].fetching = TRUE]
                             /\ conn' = [conn EXCEPT ![c] = [pc |-> "fetch", slot |-> s]]
      BY <1>2, Choices DEF StartFetch
    <2>2. pool' \in [Slots -> Entry]
      BY <2>1, <1>p, PoolOps
    <2>3. conn' \in [Conns -> ConnState] /\ \A d \in Conns : conn'[d].slot = None <=> conn'[d].pc = "idle"
      BY <2>1, ConnMoves, ZenonT(30)
    <2>4. QED
      BY <1>2, <2>2, <2>3 DEF StartFetch, TypeOK
  <1>3. ASSUME NEW c \in Conns, FetchOk(c) PROVE TypeOK'
    <2>1. conn[c].slot \in Slots /\ conn' = [conn EXCEPT ![c] = [pc |-> "hold", slot |-> conn[c].slot]]
      BY <1>3, HeldSlot DEF FetchOk
    <2>2. pool' \in [Slots -> Entry]
      BY <1>3, <2>1, <1>p, PoolOps, EntryOps DEF FetchOk
    <2>3. conn' \in [Conns -> ConnState] /\ \A d \in Conns : conn'[d].slot = None <=> conn'[d].pc = "idle"
      BY <2>1, ConnMoves, ZenonT(30)
    <2>4. users' \in [Slots -> SUBSET Conns] /\ strayed' \subseteq Slots
      BY <1>3, <2>1 DEF FetchOk, Replaced, TypeOK
    <2>5. orphan' \subseteq Conns \cup {Grower}
      BY <1>3, <1>f, <2>1 DEF FetchOk, FetchEnded, TypeOK
    <2>6. QED
      BY <1>3, <2>2, <2>3, <2>4, <2>5 DEF FetchOk, TypeOK
  <1>4. ASSUME NEW c \in Conns, FetchFail(c) PROVE TypeOK'
    <2> DEFINE s == conn[c].slot
               p == FetchFailed(pool, s)
    <2>1. s \in Slots /\ p \in [Slots -> Entry]
      BY <1>4, <1>p, HeldSlot, PoolOps DEF FetchFail
    <2> HIDE DEF p
    <2>2. \/ \E t \in Slots : Acquirable(p[t]) /\ HandOut(p, c, t)
          \/ pool' = p /\ conn' = [conn EXCEPT ![c] = Idle] /\ users' = users
      BY <1>4, Choices DEF FetchFail, p
    <2>h. ASSUME NEW t \in Slots, Acquirable(p[t]), HandOut(p, c, t)
          PROVE  /\ pool' \in [Slots -> Entry]
                 /\ conn' = [conn EXCEPT ![c] = [pc |-> "hold", slot |-> t]]
                 /\ users' \in [Slots -> SUBSET Conns]
      <3>1. pool' \in [Slots -> Entry]
        BY <2>1, <2>h, PoolOps DEF HandOut
      <3>2. QED
        BY <2>h, <3>1 DEF HandOut, TypeOK
    <2>3. pool' \in [Slots -> Entry]
      BY <2>1, <2>2, <2>h
    <2>4. conn' \in [Conns -> ConnState] /\ \A d \in Conns : conn'[d].slot = None <=> conn'[d].pc = "idle"
      <3>1. CASE \E t \in Slots : Acquirable(p[t]) /\ HandOut(p, c, t)
        <4>1. PICK t \in Slots : conn' = [conn EXCEPT ![c] = [pc |-> "hold", slot |-> t]]
          BY <3>1, <2>h
        <4>2. QED
          BY <4>1, ConnMoves, ZenonT(30)
      <3>2. CASE conn' = [conn EXCEPT ![c] = Idle]
        BY <3>2, ConnMoves
      <3>3. QED
        BY <2>2, <3>1, <3>2
    <2>5. users' \in [Slots -> SUBSET Conns]
      BY <2>2, <2>h DEF TypeOK
    <2>6. orphan' \subseteq Conns \cup {Grower}
      BY <1>4, <1>f, <2>1 DEF FetchFail, FetchEnded, TypeOK
    <2>7. QED
      BY <1>4, <2>3, <2>4, <2>5, <2>6 DEF FetchFail, TypeOK
  <1>5. ASSUME NEW c \in Conns, Release(c) PROVE TypeOK'
    <2>1. conn[c].slot \in Slots
      BY <1>5, HeldSlot DEF Release
    <2>2. pool' \in [Slots -> Entry]
      BY <1>5, <2>1, <1>p, PoolOps, EntryOps DEF Release
    <2>3. conn' \in [Conns -> ConnState] /\ \A d \in Conns : conn'[d].slot = None <=> conn'[d].pc = "idle"
      BY <1>5, ConnMoves DEF Release
    <2>4. users' \in [Slots -> SUBSET Conns] /\ strayed' \subseteq Slots
      BY <1>5, <2>1 DEF Release, TypeOK
    <2>5. QED
      BY <1>5, <2>2, <2>3, <2>4 DEF Release, TypeOK
  <1>6. ASSUME NEW c \in Conns, MarkSaturated(c) PROVE TypeOK'
    <2>1. conn[c].slot \in Slots /\ conn' = [conn EXCEPT ![c] = [pc |-> "leave", slot |-> conn[c].slot]]
      BY <1>6, HeldSlot DEF MarkSaturated
    <2>2. pool' \in [Slots -> Entry]
      BY <1>6, <2>1, <1>p, PoolOps, EntryOps DEF MarkSaturated
    <2>3. conn' \in [Conns -> ConnState] /\ \A d \in Conns : conn'[d].slot = None <=> conn'[d].pc = "idle"
      BY <2>1, ConnMoves, ZenonT(30)
    <2>4. QED
      BY <1>6, <2>2, <2>3 DEF MarkSaturated, TypeOK
  <1>7. ASSUME NEW c \in Conns, InvalidateEntry(c) PROVE TypeOK'
    <2>1. conn[c].slot \in Slots /\ conn' = [conn EXCEPT ![c] = [pc |-> "leave", slot |-> conn[c].slot]]
      BY <1>7, HeldSlot DEF InvalidateEntry
    <2>2. pool' \in [Slots -> Entry]
      BY <1>7, <2>1, <1>p, PoolOps, EntryOps DEF InvalidateEntry
    <2>3. conn' \in [Conns -> ConnState] /\ \A d \in Conns : conn'[d].slot = None <=> conn'[d].pc = "idle"
      BY <2>1, ConnMoves, ZenonT(30)
    <2>4. users' \in [Slots -> SUBSET Conns] /\ strayed' \subseteq Slots
      BY <1>7, <2>1 DEF InvalidateEntry, Replaced, TypeOK
    <2>5. orphan' \subseteq Conns \cup {Grower}
      BY <1>7, <1>f, <2>1 DEF InvalidateEntry, TypeOK
    <2>6. QED
      BY <1>7, <2>2, <2>3, <2>4, <2>5 DEF InvalidateEntry, TypeOK
  <1>8. CASE GrowerPick
    BY <1>8, Choices DEF GrowerPick, TypeOK, GrowerState
  <1>9. CASE GrowerGuard
    BY <1>9 DEF GrowerGuard, ColdStartReached, TypeOK, GrowerState
  <1>10. CASE TryFillStart
    <2>1. grower.slot \in Slots
      BY <1>10, GrowerSlot DEF TryFillStart
    <2>2. [pool EXCEPT ![grower.slot].fetching = TRUE] \in [Slots -> Entry]
      BY <1>p, <2>1, PoolOps
    <2>3. pool' \in [Slots -> Entry]
      BY <1>10, <1>p, <2>2 DEF TryFillStart
    <2>4. QED
      BY <1>10, <2>3 DEF TryFillStart, TypeOK, GrowerState
  <1>11. CASE TryFillOk
    <2>1. grower.slot \in Slots
      BY <1>11, GrowerSlot DEF TryFillOk
    <2>a. [pool EXCEPT ![grower.slot].fetching = FALSE] \in [Slots -> Entry]
      BY <1>p, <2>1, PoolOps
    <2>b. [pool EXCEPT ![grower.slot] = FetchedEntry(0)] \in [Slots -> Entry]
      BY <1>p, <2>1, PoolOps, EntryOps
    <2>2. pool' \in [Slots -> Entry]
      BY <1>11, <2>a, <2>b DEF TryFillOk
    <2>3. users' \in [Slots -> SUBSET Conns] /\ strayed' \subseteq Slots
      BY <1>11, <2>1 DEF TryFillOk, Replaced, TypeOK
    <2>4. orphan' \subseteq Conns \cup {Grower}
      BY <1>11, <1>f, <2>1 DEF TryFillOk, FetchEnded, TypeOK
    <2>5. grower' \in GrowerState /\ (grower'.slot = None <=> grower'.pc = "wait")
      BY <1>11 DEF TryFillOk, TypeOK, GrowerState
    <2>6. QED
      BY <1>11, <2>2, <2>3, <2>4, <2>5 DEF TryFillOk, TypeOK
  <1>12. CASE TryFillFail
    <2>1. grower.slot \in Slots
      BY <1>12, GrowerSlot DEF TryFillFail
    <2>2. pool' \in [Slots -> Entry]
      BY <1>12, <1>p, <2>1, PoolOps DEF TryFillFail
    <2>3. orphan' \subseteq Conns \cup {Grower}
      BY <1>12, <1>f, <2>1 DEF TryFillFail, FetchEnded, TypeOK
    <2>4. grower' \in GrowerState /\ (grower'.slot = None <=> grower'.pc = "wait")
      BY <1>12 DEF TryFillFail, TypeOK, GrowerState
    <2>5. QED
      BY <1>12, <2>2, <2>3, <2>4 DEF TryFillFail, TypeOK
  <1>13. CASE GrowerSettle
    BY <1>13 DEF GrowerSettle, ColdStartReached, TypeOK, GrowerState
  <1>14. CASE PathChange
    <2>1. pool' \in [Slots -> Entry]
      BY <1>14, <1>p, EntryOps DEF PathChange
    <2>2. pauseAcquireUntil' \in Nat /\ lastPathEventAt' \in 0 .. CascadeWindow
      BY <1>14, TimeAssumption DEF PathChange, ExtendPause, pathChangePause, Larger, TypeOK, TimeAssumption
    <2>3. QED
      BY <1>14, <2>1, <2>2 DEF PathChange, TypeOK
  <1>15. CASE PathTransition
    <2>1. pauseAcquireUntil' \in Nat
      BY <1>15, TimeAssumption DEF PathTransition, ExtendPause, Larger, TypeOK, TimeAssumption
    <2>2. QED
      BY <1>15, <2>1 DEF PathTransition, TypeOK
  <1>16. CASE Invalidate
    <2>1. pool' \in [Slots -> Entry]
      BY <1>16, EntryOps DEF Invalidate
    <2>2. orphan' \subseteq Conns \cup {Grower}
      BY <1>16, <1>f DEF Invalidate, TypeOK
    <2>3. QED
      BY <1>16, <2>1, <2>2 DEF Invalidate, TypeOK
  <1>17. CASE Tick
    <2>1. pool' \in [Slots -> Entry]
      BY <1>17, <1>p, EntryOps DEF Tick
    <2>2. pauseAcquireUntil' \in Nat /\ lastPathEventAt' \in 0 .. CascadeWindow
      BY <1>17, TimeAssumption DEF Tick, Less, Older, TypeOK, TimeAssumption
    <2>3. QED
      BY <1>17, <2>1, <2>2 DEF Tick, TypeOK
  <1>18. CASE UNCHANGED vars
    BY <1>18 DEF vars, TypeOK
  <1>19. QED
    BY <1>1, <1>2, <1>3, <1>4, <1>5, <1>6, <1>7, <1>8, <1>9, <1>10, <1>11, <1>12,
       <1>13, <1>14, <1>15, <1>16, <1>17, <1>18 DEF Next, ConnStep, GrowerStep

(* Every behaviour of the pool is well typed; in particular no slot's active *)
(* count ever leaves 0 .. ConnsPerSlot.                                      *)
THEOREM TypeCorrect == Spec => []TypeOK
PROOF
  BY TypeInit, TypeNext, PTL DEF Spec
-----------------------------------------------------------------------------
(* The active counts *)

(* The part of the counting invariant that concerns one slot. *)
SlotCount(s) ==
  /\ users[s] \subseteq Holders(s)
  /\ pool[s].active <= Cardinality(users[s])
  /\ s \notin strayed => pool[s].active = Cardinality(users[s])

CountInv == \A s \in Slots : SlotCount(s)

(* Sets of conns are finite, and change size by one with a member. *)
LEMMA ConnSets ==
  ASSUME NEW U \in SUBSET Conns, NEW c \in Conns
  PROVE  /\ Cardinality(U) \in Nat
         /\ c \notin U => Cardinality(U \cup {c}) = Cardinality(U) + 1
         /\ c \in U => Cardinality(U \ {c}) = Cardinality(U) - 1
         /\ c \in U => Cardinality(U) > 0
         /\ Cardinality({c}) = 1
         /\ Cardinality({}) = 0
PROOF
  <1>1. IsFiniteSet(U)
    BY GoroutineAssumption, FS_Subset DEF GoroutineAssumption
  <1>2. Cardinality(U) \in Nat
    BY <1>1, FS_CardinalityType
  <1>3. c \notin U => Cardinality(U \cup {c}) = Cardinality(U) + 1
    BY <1>1, FS_AddElement
  <1>4. c \in U => Cardinality(U \ {c}) = Cardinality(U) - 1
    BY <1>1, FS_RemoveElement
  <1>5. IsFiniteSet(U \ {c})
    BY <1>1, FS_Subset
  <1>6. Cardinality(U \ {c}) \in Nat
    BY <1>5, FS_CardinalityType
  <1>7. Cardinality({}) = 0 /\ Cardinality({c}) = 1
    BY FS_EmptySet, FS_Singleton
  <1>8. c \in U => Cardinality(U) > 0
    BY <1>2, <1>4, <1>6
  <1>9. QED
    BY <1>2, <1>3, <1>4, <1>7, <1>8

(* A slot whose count and users a step leaves alone, and whose holders stay. *)
LEMMA SlotCountFrame ==
  ASSUME NEW s \in Slots, SlotCount(s), pool'[s].active = pool[s].active,
         users'[s] = users[s], s \in strayed <=> s \in strayed',
         \A c \in users[s] : conn'[c].pc \in {"hold", "leave"} /\ conn'[c].slot = s,
         TypeOK
  PROVE  SlotCount(s)'
PROOF
  BY DEF SlotCount, Holders, TypeOK

(* A slot whose entry is replaced by one that counts its first users, if any. *)
LEMMA SlotCountReset ==
  ASSUME NEW s \in Slots, pool'[s].active = 0, users'[s] = {}
  PROVE  SlotCount(s)'
PROOF
  <1>1. Cardinality({}) = 0
    BY FS_EmptySet
  <1>2. QED
    BY <1>1 DEF SlotCount

(* One more conn, that held nothing, shares slot t. *)
LEMMA HandOutCounts ==
  ASSUME TypeOK, CountInv, NEW c \in Conns, conn[c].pc \notin {"hold", "leave"},
         NEW p \in [Slots -> Entry], \A s \in Slots : p[s].active = pool[s].active,
         NEW t \in Slots, HandOut(p, c, t), strayed' = strayed
  PROVE  CountInv'
PROOF
  <1> SUFFICES ASSUME NEW s \in Slots PROVE SlotCount(s)'
    BY DEF CountInv
  <1>1. SlotCount(s) /\ users[s] \in SUBSET Conns /\ c \notin users[s]
    BY DEF CountInv, SlotCount, Holders, TypeOK
  <1>2. CASE s # t
    <2>1. pool'[s].active = pool[s].active /\ users'[s] = users[s]
      BY <1>2 DEF HandOut, TypeOK
    <2>2. \A d \in users[s] : conn'[d].pc \in {"hold", "leave"} /\ conn'[d].slot = s
      BY <1>1 DEF SlotCount, Holders, HandOut, TypeOK
    <2>3. QED
      BY <1>1, <2>1, <2>2, SlotCountFrame
  <1>3. CASE s = t
    <2>1. pool'[s].active = pool[s].active + 1 /\ users'[s] = users[s] \cup {c}
      BY <1>3 DEF HandOut, TypeOK, Entry
    <2>2. Cardinality(users'[s]) = Cardinality(users[s]) + 1 /\ Cardinality(users[s]) \in Nat
      BY <1>1, <2>1, ConnSets
    <2>3. pool[s].active \in Nat
      BY DEF TypeOK, Entry
    <2>4. users'[s] \subseteq Holders(s)'
      BY <1>1, <1>3, <2>1 DEF SlotCount, Holders, HandOut, TypeOK
    <2>5. QED
      BY <1>1, <2>1, <2>2, <2>3, <2>4 DEF SlotCount
  <1>4. QED
    BY <1>2, <1>3
LEMMA CountInit == Init => CountInv
PROOF
  <1>1. Cardinality({}) = 0
    BY FS_EmptySet
  <1>2. EmptyEntry.active = 0 /\ \A l, a : LoadedEntry(l, a).active = 0
    BY DEF LoadedEntry, EmptyEntry
  <1>3. Init => \A s \in Slots : pool[s].active = 0
    BY <1>2 DEF Init
  <1>4. QED
    BY <1>1, <1>3 DEF Init, CountInv, SlotCount

LEMMA CountNext == TypeOK /\ TypeOK' /\ CountInv /\ [Next]_vars => CountInv'
PROOF
  <1> SUFFICES ASSUME TypeOK, TypeOK', CountInv, [Next]_vars PROVE CountInv'
    OBVIOUS
  <1>p. pool \in [Slots -> Entry] /\ \A s \in Slots : users[s] \in SUBSET Conns
    BY DEF TypeOK
  <1>c. \A s \in Slots : SlotCount(s)
    BY DEF CountInv
  <1>h. \A s \in Slots : \A d \in users[s] : conn[d].pc \in {"hold", "leave"} /\ conn[d].slot = s
    BY DEF CountInv, SlotCount, Holders
  <1>e. EmptyEntry.active = 0 /\ FetchedEntry(0).active = 0 /\ FetchedEntry(1).active = 1
    BY DEF EmptyEntry, FetchedEntry
  <1>1. ASSUME NEW c \in Conns, Acquire(c) PROVE CountInv'
    <2>1. PICK s \in Slots : HandOut(pool, c, s)
      BY <1>1, Choices DEF Acquire
    <2>2. QED
      BY <1>1, <1>p, <2>1, HandOutCounts DEF Acquire, MayGet
  <1>2. ASSUME NEW c \in Conns, StartFetch(c) PROVE CountInv'
    <2>1. PICK t \in Slots : /\ pool' = [pool EXCEPT ![t].fetching = TRUE]
                             /\ conn' = [conn EXCEPT ![c] = [pc |-> "fetch", slot |-> t]]
      BY <1>2, Choices DEF StartFetch
    <2>2. users' = users /\ strayed' = strayed /\ conn[c].pc = "idle"
      BY <1>2 DEF StartFetch, MayGet
    <2>3. \A s \in Slots : pool'[s].active = pool[s].active
      BY <1>p, <2>1 DEF Entry
    <2>4. \A s \in Slots : \A d \in users[s] : conn'[d].pc \in {"hold", "leave"} /\ conn'[d].slot = s
      BY <1>h, <1>p, <2>1, <2>2 DEF TypeOK
    <2>5. QED
      BY <1>c, <2>2, <2>3, <2>4, SlotCountFrame DEF CountInv
  <1>3. ASSUME NEW c \in Conns, FetchOk(c) PROVE CountInv'
    <2> SUFFICES ASSUME NEW s \in Slots PROVE SlotCount(s)'
      BY DEF CountInv
    <2>1. /\ conn[c].slot \in Slots
          /\ conn[c].pc = "fetch"
          /\ conn' = [conn EXCEPT ![c] = [pc |-> "hold", slot |-> conn[c].slot]]
      BY <1>3, HeldSlot DEF FetchOk
    <2>2. CASE s # conn[c].slot
      <3>1. pool'[s] = pool[s] /\ users'[s] = users[s] /\ (s \in strayed <=> s \in strayed')
        BY <1>3, <1>p, <2>1, <2>2 DEF FetchOk, Replaced, TypeOK
      <3>2. \A d \in users[s] : conn'[d].pc \in {"hold", "leave"} /\ conn'[d].slot = s
        BY <1>h, <1>p, <2>1 DEF TypeOK
      <3>3. QED
        BY <1>c, <3>1, <3>2, SlotCountFrame
    <2>3. CASE s = conn[c].slot
      <3>1. pool'[s].active = 1 /\ users'[s] = {c}
        BY <1>3, <1>p, <1>e, <2>1, <2>3 DEF FetchOk, Replaced, TypeOK
      <3>2. Cardinality(users'[s]) = 1
        BY <3>1, FS_Singleton
      <3>3. users'[s] \subseteq Holders(s)'
        BY <2>1, <2>3, <3>1 DEF Holders, TypeOK
      <3>4. QED
        BY <3>1, <3>2, <3>3 DEF SlotCount
    <2>4. QED
      BY <2>2, <2>3
  <1>4. ASSUME NEW c \in Conns, FetchFail(c) PROVE CountInv'
    <2> DEFINE t == conn[c].slot
               p == FetchFailed(pool, t)
    <2>1. t \in Slots /\ conn[c].pc = "fetch" /\ strayed' = strayed
      BY <1>4, HeldSlot DEF FetchFail
    <2>2. p \in [Slots -> Entry] /\ \A s \in Slots : p[s].active = pool[s].active
      <3>1. p \in [Slots -> Entry]
        BY <1>p, <2>1, PoolOps
      <3>2. ASSUME NEW s \in Slots PROVE p[s].active = pool[s].active
        BY <1>p, <2>1, FetchFailedKeeps
      <3>3. QED
        BY <3>1, <3>2
    <2> HIDE DEF p
    <2>3. CASE \E s \in Slots : HandOut(p, c, s)
      BY <2>1, <2>2, <2>3, HandOutCounts
    <2>4. CASE pool' = p /\ conn' = [conn EXCEPT ![c] = Idle] /\ users' = users
      <3>1. \A s \in Slots : \A d \in users[s] : conn'[d].pc \in {"hold", "leave"} /\ conn'[d].slot = s
        BY <1>h, <1>p, <2>1, <2>4 DEF TypeOK
      <3>2. QED
        BY <1>c, <2>1, <2>2, <2>4, <3>1, SlotCountFrame DEF CountInv
    <2>5. QED
      BY <1>4, <2>3, <2>4, Choices DEF FetchFail, p
  <1>5. ASSUME NEW c \in Conns, Release(c) PROVE CountInv'
    <2> SUFFICES ASSUME NEW s \in Slots PROVE SlotCount(s)'
      BY DEF CountInv
    <2> DEFINE t == conn[c].slot
    <2>1. /\ t \in Slots
          /\ pool' = [pool EXCEPT ![t] = Released(pool[t])]
          /\ conn' = [conn EXCEPT ![c] = Idle]
          /\ users' = [users EXCEPT ![t] = @ \ {c}]
          /\ strayed' = IF c \notin users[t] /\ pool[t].active > 0 THEN strayed \cup {t} ELSE strayed
      BY <1>5, HeldSlot DEF Release
    <2> HIDE DEF t
    <2>2. CASE s # t
      <3>1. pool'[s] = pool[s] /\ users'[s] = users[s] /\ (s \in strayed <=> s \in strayed')
        BY <1>p, <2>1, <2>2 DEF TypeOK
      <3>2. \A d \in users[s] : conn'[d].pc \in {"hold", "leave"} /\ conn'[d].slot = s
        BY <1>h, <1>p, <2>1, <2>2 DEF TypeOK, t
      <3>3. QED
        BY <1>c, <3>1, <3>2, SlotCountFrame
    <2>3. CASE s = t
      <3>1. pool[s].active \in Nat /\ SlotCount(s) /\ users[s] \in SUBSET Conns
        BY <1>p, <1>c DEF Entry
      <3>2. pool'[s].active = IF pool[s].active = 0 THEN 0 ELSE pool[s].active - 1
        BY <1>p, <2>1, <2>3 DEF Released, Entry
      <3>3. users'[s] = users[s] \ {c}
        BY <2>1, <2>3 DEF TypeOK
      <3>4. users'[s] \subseteq Holders(s)'
        BY <1>h, <1>p, <2>1, <2>3, <3>3 DEF Holders, TypeOK
      <3>5. CASE c \in users[s]
        <4>1. Cardinality(users'[s]) = Cardinality(users[s]) - 1 /\ Cardinality(users[s]) \in Nat
              /\ Cardinality(users[s]) > 0
          BY <3>1, <3>3, <3>5, ConnSets
        <4>2. strayed' = strayed
          BY <2>1, <2>3, <3>5
        <4>3. QED
          BY <3>1, <3>2, <3>4, <4>1, <4>2 DEF SlotCount
      <3>6. CASE c \notin users[s]
        <4>1. users'[s] = users[s] /\ Cardinality(users[s]) \in Nat
          BY <3>1, <3>3, <3>6, ConnSets
        <4>2. s \notin strayed' => s \notin strayed /\ pool[s].active = 0
          BY <2>1, <2>3, <3>1, <3>6
        <4>3. QED
          BY <3>1, <3>2, <3>4, <4>1, <4>2 DEF SlotCount
      <3>7. QED
        BY <3>5, <3>6
    <2>4. QED
      BY <2>2, <2>3
  <1>6. ASSUME NEW c \in Conns, MarkSaturated(c) PROVE CountInv'
    <2>1. /\ conn[c].slot \in Slots
          /\ conn' = [conn EXCEPT ![c] = [pc |-> "leave", slot |-> conn[c].slot]]
      BY <1>6, HeldSlot DEF MarkSaturated
    <2>2. \A s \in Slots : pool'[s].active = pool[s].active
      BY <1>6, <1>p, <2>1 DEF MarkSaturated, Entry
    <2>3. \A s \in Slots : \A d \in users[s] : conn'[d].pc \in {"hold", "leave"} /\ conn'[d].slot = s
      BY <1>h, <1>p, <2>1 DEF TypeOK
    <2>4. QED
      BY <1>6, <1>c, <2>2, <2>3, SlotCountFrame DEF CountInv, MarkSaturated
  <1>7. ASSUME NEW c \in Conns, InvalidateEntry(c) PROVE CountInv'
    <2> SUFFICES ASSUME NEW s \in Slots PROVE SlotCount(s)'
      BY DEF CountInv
    <2>1. /\ conn[c].slot \in Slots
          /\ conn' = [conn EXCEPT ![c] = [pc |-> "leave", slot |-> conn[c].slot]]
      BY <1>7, HeldSlot DEF InvalidateEntry
    <2>2. CASE s # conn[c].slot
      <3>1. pool'[s] = pool[s] /\ users'[s] = users[s] /\ (s \in strayed <=> s \in strayed')
        BY <1>7, <1>p, <2>1, <2>2 DEF InvalidateEntry, Replaced, TypeOK
      <3>2. \A d \in users[s] : conn'[d].pc \in {"hold", "leave"} /\ conn'[d].slot = s
        BY <1>h, <1>p, <2>1 DEF TypeOK
      <3>3. QED
        BY <1>c, <3>1, <3>2, SlotCountFrame
    <2>3. CASE s = conn[c].slot
      <3>1. pool'[s].active = 0 /\ users'[s] = {}
        BY <1>7, <1>p, <1>e, <2>1, <2>3 DEF InvalidateEntry, Replaced, TypeOK
      <3>2. QED
        BY <3>1, SlotCountReset
    <2>4. QED
      BY <2>2, <2>3
  <1>8. ASSUME \A s \in Slots : pool'[s].active = pool[s].active,
               UNCHANGED <<users, strayed, conn>>
        PROVE  CountInv'
    BY <1>8, <1>c, <1>h, SlotCountFrame DEF CountInv
  <1>9. CASE GrowerPick \/ GrowerGuard \/ GrowerSettle \/ PathTransition \/ UNCHANGED vars
    BY <1>9, <1>8 DEF GrowerPick, GrowerGuard, GrowerSettle, PathTransition, vars
  <1>10. CASE TryFillStart
    <2>1. grower.slot \in Slots
      BY <1>10, GrowerSlot DEF TryFillStart
    <2>2. \A s \in Slots : pool'[s].active = pool[s].active
      BY <1>10, <1>p, <2>1 DEF TryFillStart, Entry
    <2>3. QED
      BY <1>10, <1>8, <2>2 DEF TryFillStart
  <1>11. CASE TryFillOk
    <2>1. grower.slot \in Slots
      BY <1>11, GrowerSlot DEF TryFillOk
    <2>2. CASE abortFill
      <3>1. \A s \in Slots : pool'[s].active = pool[s].active
        BY <1>11, <1>p, <2>1, <2>2 DEF TryFillOk, Entry
      <3>2. QED
        BY <1>11, <1>8, <2>2, <3>1 DEF TryFillOk
    <2>3. CASE ~abortFill
      <3> SUFFICES ASSUME NEW s \in Slots PROVE SlotCount(s)'
        BY DEF CountInv
      <3>1. CASE s # grower.slot
        <4>1. /\ pool'[s] = pool[s] /\ users'[s] = users[s] /\ conn' = conn
              /\ s \in strayed <=> s \in strayed'
          BY <1>11, <1>p, <2>1, <2>3, <3>1 DEF TryFillOk, Replaced, TypeOK
        <4>2. QED
          BY <1>c, <1>h, <4>1, SlotCountFrame
      <3>2. CASE s = grower.slot
        <4>1. pool'[s].active = 0 /\ users'[s] = {}
          BY <1>11, <1>p, <1>e, <2>1, <2>3, <3>2 DEF TryFillOk, Replaced, TypeOK
        <4>2. QED
          BY <4>1, SlotCountReset
      <3>3. QED
        BY <3>1, <3>2
    <2>4. QED
      BY <2>2, <2>3
  <1>12. CASE TryFillFail
    <2>1. grower.slot \in Slots
      BY <1>12, GrowerSlot DEF TryFillFail
    <2>2. \A s \in Slots : pool'[s].active = pool[s].active
      BY <1>12, <1>p, <2>1, FetchFailedKeeps DEF TryFillFail
    <2>3. QED
      BY <1>12, <1>8, <2>2 DEF TryFillFail
  <1>13. CASE PathChange
    <2>1. \A e \in Entry : pathChangeMark(e).active = e.active
      BY DEF pathChangeMark, Entry
    <2>2. QED
      BY <1>13, <1>p, <1>8, <2>1 DEF PathChange
  <1>14. CASE Invalidate
    <2>1. \A s \in Slots : pool'[s].active = 0 /\ users'[s] = {}
      BY <1>14, <1>e DEF Invalidate
    <2>2. QED
      BY <2>1, SlotCountReset DEF CountInv
  <1>15. CASE Tick
    <2>1. \A e \in Entry : Aged(e).active = e.active
      BY DEF Aged, Entry
    <2>2. QED
      BY <1>15, <1>p, <1>8, <2>1 DEF Tick
  <1>16. QED
    BY <1>1, <1>2, <1>3, <1>4, <1>5, <1>6, <1>7, <1>9, <1>10, <1>11, <1>12,
       <1>13, <1>14, <1>15 DEF Next, ConnStep, GrowerStep

(* No capacity leaks: whatever the interleaving, a slot's count never claims *)
(* a conn that does not hold its present credential.                         *)
THEOREM NoLeak == Spec => []NoLeakedCapacity
PROOF
  <1>1. CountInv => NoLeakedCapacity
    BY DEF CountInv, SlotCount, NoLeakedCapacity
  <1>2. QED
    BY <1>1, TypeCorrect, CountInit, CountNext, PTL DEF Spec

(* The VK quota is kept on every slot no stray release has touched: only a    *)
(* conn of a replaced credential can make the pool overcommit a credential.   *)
THEOREM QuotaUnlessStrayed == Spec => []CountExactUnlessStrayed
PROOF
  <1>1. TypeOK /\ CountInv => CountExactUnlessStrayed
    <2> SUFFICES ASSUME TypeOK, CountInv, NEW s \in Slots \ strayed
                 PROVE  /\ pool[s].active = Cardinality(users[s])
                        /\ Cardinality(users[s]) <= ConnsPerSlot
      BY DEF CountExactUnlessStrayed
    <2>1. pool[s].active = Cardinality(users[s])
      BY DEF CountInv, SlotCount
    <2>2. pool[s].active \in 0 .. ConnsPerSlot
      BY DEF TypeOK, Entry
    <2>3. QED
      BY <2>1, <2>2, SizeAssumption DEF SizeAssumption
  <1>2. QED
    BY <1>1, TypeCorrect, CountInit, CountNext, PTL DEF Spec
-----------------------------------------------------------------------------
(* Fetches *)

(* The fetches into a slot that its flag stands for. *)
Live(s) == FetchersOf(s) \ orphan

(* The part of the fetching invariant that concerns one slot. *)
SlotFetch(s) ==
  /\ pool[s].fetching <=> Live(s) # {}
  /\ \A f, g \in Live(s) : f = g
  /\ Live(s) # {} => ~Usable(pool[s])

(* Only a fetch under way is remembered as overtaken. *)
OrphansFetch == \A f \in orphan : \E s \in Slots : f \in FetchersOf(s)

FetchInv == OrphansFetch /\ \A s \in Slots : SlotFetch(s)

(* A step that leaves a slot's fetches and its flag alone. *)
LEMMA SlotFetchFrame ==
  ASSUME NEW s \in Slots, SlotFetch(s), pool'[s].fetching = pool[s].fetching,
         Usable(pool'[s]) => Usable(pool[s]), Live(s)' = Live(s)
  PROVE  SlotFetch(s)'
PROOF
  BY DEF SlotFetch, Usable

(* A step that lowers a slot's flag and overtakes every fetch into it. *)
LEMMA SlotFetchReset ==
  ASSUME NEW s \in Slots, pool'[s].fetching = FALSE, Live(s)' = {}
  PROVE  SlotFetch(s)'
PROOF
  BY DEF SlotFetch

(* A step that starts a fetch into a slot that may be fetched into. *)
LEMMA SlotFetchBegin ==
  ASSUME NEW s \in Slots, NEW g, SlotFetch(s), pool[s] \in Entry, Fetchable(pool[s]),
         pool'[s].fetching = TRUE, Usable(pool'[s]) => Usable(pool[s]),
         Live(s)' = Live(s) \cup {g}
  PROVE  SlotFetch(s)'
PROOF
  <1>1. Live(s) = {}
    BY DEF SlotFetch, Fetchable
  <1>2. pool[s].availableAt \in 0 .. GhostCooldown
    BY DEF Entry
  <1>3. pool[s].availableAt = 0 \/ pool[s].availableAt > 0
    BY <1>2, TimeAssumption DEF TimeAssumption
  <1>4. ~Usable(pool[s])
    BY <1>3 DEF Fetchable, entryIsFresh, entryIsPending
  <1>5. QED
    BY <1>1, <1>4 DEF SlotFetch

(* What is fetching follows from the program counters. *)
LEMMA FetchersFrame ==
  ASSUME TypeOK, NEW c \in Conns, NEW k \in ConnState,
         conn' = [conn EXCEPT ![c] = k], grower' = grower,
         NEW s \in Slots
  PROVE  /\ k.pc # "fetch" => FetchersOf(s)' = FetchersOf(s) \ {c}
         /\ k.pc = "fetch" /\ k.slot = s => FetchersOf(s)' = FetchersOf(s) \cup {c}
         /\ conn[c].pc # "fetch" => c \notin FetchersOf(s)
         /\ conn[c].pc # "fetch" /\ ~(k.pc = "fetch" /\ k.slot = s)
              => FetchersOf(s)' = FetchersOf(s)
         /\ conn[c].slot # s => c \notin FetchersOf(s)
PROOF
  BY GoroutineAssumption DEF GoroutineAssumption, FetchersOf, TypeOK

LEMMA GrowerFetchersFrame ==
  ASSUME TypeOK, conn' = conn, NEW s \in Slots
  PROVE  /\ grower'.pc # "fetch" => FetchersOf(s)' = FetchersOf(s) \ {Grower}
         /\ grower'.pc = "fetch" /\ grower'.slot = s => FetchersOf(s)' = FetchersOf(s) \cup {Grower}
         /\ grower.pc # "fetch" => Grower \notin FetchersOf(s)
         /\ grower.pc # "fetch" /\ ~(grower'.pc = "fetch" /\ grower'.slot = s)
              => FetchersOf(s)' = FetchersOf(s)
         /\ grower.slot # s => Grower \notin FetchersOf(s)
PROOF
  BY GoroutineAssumption DEF GoroutineAssumption, FetchersOf

(* A goroutine without a fetch is not remembered as overtaken. *)
LEMMA NotOrphan ==
  ASSUME FetchInv
  PROVE  /\ \A c \in Conns : conn[c].pc # "fetch" => c \notin orphan
         /\ grower.pc # "fetch" => Grower \notin orphan
PROOF
  BY GoroutineAssumption DEF GoroutineAssumption, FetchInv, OrphansFetch, FetchersOf

(* The end of goroutine g's fetch into slot t. *)
LEMMA FetchEndedStep ==
  ASSUME FetchInv, NEW g, NEW t \in Slots, FetchEnded(g, t),
         \A s \in Slots : FetchersOf(s)' = FetchersOf(s) \ {g},
         \A s \in Slots : s # t => g \notin FetchersOf(s),
         \A s, r \in Slots : s # r => FetchersOf(s) \cap FetchersOf(r) = {}
  PROVE  /\ OrphansFetch'
         /\ Live(t)' = {}
         /\ \A s \in Slots : s # t => Live(s)' = Live(s)
PROOF
  <1>1. Live(t)' = {}
    BY DEF FetchEnded, Live
  <1>2. ASSUME NEW s \in Slots, s # t PROVE Live(s)' = Live(s)
    BY <1>2 DEF FetchEnded, Live
  <1>3. OrphansFetch'
    <2> SUFFICES ASSUME NEW f \in orphan' PROVE \E s \in Slots : f \in FetchersOf(s)'
      BY DEF OrphansFetch
    <2>1. f # g /\ (f \in orphan \/ f \in FetchersOf(t))
      BY DEF FetchEnded
    <2>2. \E s \in Slots : f \in FetchersOf(s)
      BY <2>1 DEF FetchInv, OrphansFetch
    <2>3. QED
      BY <2>1, <2>2
  <1>4. QED
    BY <1>1, <1>2, <1>3
LEMMA FetchInit == Init => FetchInv
PROOF
  <1>1. EmptyEntry.fetching = FALSE /\ \A l, a : LoadedEntry(l, a).fetching = FALSE
    BY DEF LoadedEntry, EmptyEntry
  <1>2. Init => \A s \in Slots : pool[s].fetching = FALSE /\ Live(s) = {}
    BY <1>1 DEF Init, Live, FetchersOf, Idle
  <1>3. QED
    BY <1>2 DEF Init, FetchInv, OrphansFetch, SlotFetch

LEMMA FetchNext == TypeOK /\ FetchInv /\ [Next]_vars => FetchInv'
PROOF
  <1> SUFFICES ASSUME TypeOK, FetchInv, [Next]_vars PROVE FetchInv'
    OBVIOUS
  <1>p. pool \in [Slots -> Entry]
    BY DEF TypeOK
  <1>c. \A s \in Slots : SlotFetch(s)
    BY DEF FetchInv
  <1>d. \A s, r \in Slots : s # r => FetchersOf(s) \cap FetchersOf(r) = {}
    BY GoroutineAssumption DEF GoroutineAssumption, FetchersOf
  <1>e. EmptyEntry.fetching = FALSE /\ FetchedEntry(0).fetching = FALSE /\ FetchedEntry(1).fetching = FALSE
    BY DEF EmptyEntry, FetchedEntry
  (* Steps that start or end no fetch. *)
  <1>q. ASSUME \A s \in Slots : pool'[s].fetching = pool[s].fetching,
               \A s \in Slots : Usable(pool'[s]) => Usable(pool[s]),
               \A s \in Slots : FetchersOf(s)' = FetchersOf(s),
               orphan' = orphan
        PROVE  FetchInv'
    <2>1. OrphansFetch'
      BY <1>q DEF FetchInv, OrphansFetch
    <2>2. ASSUME NEW s \in Slots PROVE SlotFetch(s)'
      <3>1. Live(s)' = Live(s)
        BY <1>q DEF Live
      <3>2. QED
        BY <1>c, <1>q, <3>1, SlotFetchFrame
    <2>3. QED
      BY <2>1, <2>2 DEF FetchInv
  (* Steps that start goroutine g's fetch into slot t. *)
  <1>b. ASSUME NEW g, NEW t \in Slots, g \notin orphan, Fetchable(pool[t]),
               pool' = [pool EXCEPT ![t].fetching = TRUE], orphan' = orphan,
               FetchersOf(t)' = FetchersOf(t) \cup {g},
               \A s \in Slots : s # t => FetchersOf(s)' = FetchersOf(s)
        PROVE  FetchInv'
    <2>1. OrphansFetch'
      BY <1>b DEF FetchInv, OrphansFetch
    <2>2. SlotFetch(t)'
      <3>1. /\ pool'[t].fetching = TRUE
            /\ pool'[t].creds = pool[t].creds /\ pool'[t].expiry = pool[t].expiry
        BY <1>b, <1>p DEF Entry
      <3>2. Live(t)' = Live(t) \cup {g}
        BY <1>b DEF Live
      <3>3. Usable(pool'[t]) => Usable(pool[t])
        BY <3>1 DEF Usable
      <3>4. pool[t] \in Entry
        BY <1>p
      <3>5. QED
        BY <1>b, <1>c, <3>1, <3>2, <3>3, <3>4, SlotFetchBegin
    <2>3. ASSUME NEW s \in Slots, s # t PROVE SlotFetch(s)'
      <3>1. pool'[s] = pool[s] /\ Live(s)' = Live(s)
        BY <1>b, <1>p, <2>3 DEF Live
      <3>2. QED
        BY <1>c, <3>1, SlotFetchFrame
    <2>4. QED
      BY <2>1, <2>2, <2>3 DEF FetchInv
  (* Steps that end goroutine g's fetch into slot t. *)
  <1>x. ASSUME NEW g, NEW t \in Slots, FetchEnded(g, t),
               \A s \in Slots : FetchersOf(s)' = FetchersOf(s) \ {g},
               \A s \in Slots : s # t => g \notin FetchersOf(s),
               pool'[t].fetching = FALSE,
               \A s \in Slots : s # t => /\ pool'[s].fetching = pool[s].fetching
                                         /\ Usable(pool'[s]) => Usable(pool[s])
        PROVE  FetchInv'
    <2>1. OrphansFetch' /\ Live(t)' = {} /\ \A s \in Slots : s # t => Live(s)' = Live(s)
      BY <1>d, <1>x, FetchEndedStep
    <2>2. SlotFetch(t)'
      BY <1>x, <2>1, SlotFetchReset
    <2>3. ASSUME NEW s \in Slots, s # t PROVE SlotFetch(s)'
      BY <1>c, <1>x, <2>1, <2>3, SlotFetchFrame
    <2>4. QED
      BY <2>1, <2>2, <2>3 DEF FetchInv
  <1>1. ASSUME NEW c \in Conns, Acquire(c) PROVE FetchInv'
    <2>1. PICK s \in Slots : HandOut(pool, c, s)
      BY <1>1, Choices DEF Acquire
    <2>2. \A r \in Slots : /\ pool'[r].fetching = pool[r].fetching
                           /\ pool'[r].creds = pool[r].creds /\ pool'[r].expiry = pool[r].expiry
      BY <1>p, <2>1 DEF HandOut, Entry
    <2>3. ASSUME NEW r \in Slots PROVE FetchersOf(r)' = FetchersOf(r)
      <3> DEFINE k == [pc |-> "hold", slot |-> s]
      <3>1. /\ conn' = [conn EXCEPT ![c] = k] /\ grower' = grower
            /\ k \in ConnState /\ k.pc # "fetch" /\ conn[c].pc # "fetch"
        BY <1>1, <2>1, ConnTargets DEF HandOut, Acquire, MayGet
      <3> HIDE DEF k
      <3>2. QED
        BY <3>1, FetchersFrame
    <2>4. QED
      BY <1>1, <1>q, <2>2, <2>3 DEF Acquire, Usable
  <1>2. ASSUME NEW c \in Conns, StartFetch(c) PROVE FetchInv'
    <2>1. PICK t \in Slots : /\ Fetchable(pool[t])
                             /\ pool' = [pool EXCEPT ![t].fetching = TRUE]
                             /\ conn' = [conn EXCEPT ![c] = [pc |-> "fetch", slot |-> t]]
      BY <1>2, Choices DEF StartFetch
    <2>2. c \notin orphan /\ conn[c].pc # "fetch" /\ orphan' = orphan /\ grower' = grower
      BY <1>2, NotOrphan DEF StartFetch, MayGet
    <2>3. /\ FetchersOf(t)' = FetchersOf(t) \cup {c}
          /\ \A s \in Slots : s # t => FetchersOf(s)' = FetchersOf(s)
      <3> DEFINE k == [pc |-> "fetch", slot |-> t]
      <3>1. conn' = [conn EXCEPT ![c] = k] /\ k \in ConnState /\ k.pc = "fetch" /\ k.slot = t
        BY <2>1, ConnTargets
      <3> HIDE DEF k
      <3>2. FetchersOf(t)' = FetchersOf(t) \cup {c}
        BY <2>2, <3>1, FetchersFrame
      <3>3. ASSUME NEW s \in Slots, s # t PROVE FetchersOf(s)' = FetchersOf(s)
        BY <2>2, <3>1, <3>3, FetchersFrame
      <3>4. QED
        BY <3>2, <3>3
    <2>4. QED
      BY <1>b, <2>1, <2>2, <2>3
  <1>3. ASSUME NEW c \in Conns, FetchOk(c) PROVE FetchInv'
    <2>1. PICK t \in Slots : t = conn[c].slot /\ conn' = [conn EXCEPT ![c] = [pc |-> "hold", slot |-> t]]
      BY <1>3, HeldSlot DEF FetchOk
    <2>2. pool'[t].fetching = FALSE /\ \A s \in Slots : s # t => pool'[s] = pool[s]
      BY <1>3, <1>p, <1>e, <2>1 DEF FetchOk
    <2>3. ASSUME NEW s \in Slots
          PROVE  FetchersOf(s)' = FetchersOf(s) \ {c} /\ (s # t => c \notin FetchersOf(s))
      <3> DEFINE k == [pc |-> "hold", slot |-> t]
      <3>1. conn' = [conn EXCEPT ![c] = k] /\ k \in ConnState /\ k.pc # "fetch" /\ grower' = grower
        BY <1>3, <2>1, ConnTargets DEF FetchOk
      <3> HIDE DEF k
      <3>2. QED
        BY <2>1, <3>1, FetchersFrame
    <2>4. QED
      BY <1>3, <1>x, <2>1, <2>2, <2>3 DEF FetchOk
  <1>4. ASSUME NEW c \in Conns, FetchFail(c) PROVE FetchInv'
    <2>1. PICK t \in Slots : t = conn[c].slot
      BY <1>4, HeldSlot DEF FetchFail
    <2> DEFINE p == FetchFailed(pool, t)
    <2>2. p \in [Slots -> Entry]
      BY <1>p, <2>1, PoolOps
    <2>3. ASSUME NEW s \in Slots
          PROVE  /\ p[s].fetching = (pool[s].fetching /\ s # t)
                 /\ p[s].creds = pool[s].creds /\ p[s].expiry = pool[s].expiry
      BY <1>p, <2>1, FetchFailedKeeps
    <2> HIDE DEF p
    <2>4. \/ \E r \in Slots : HandOut(p, c, r)
          \/ pool' = p /\ conn' = [conn EXCEPT ![c] = Idle]
      BY <1>4, <2>1, Choices DEF FetchFail, p
    <2>5. ASSUME NEW s \in Slots
          PROVE  /\ pool'[s].fetching = p[s].fetching
                 /\ pool'[s].creds = p[s].creds /\ pool'[s].expiry = p[s].expiry
      BY <2>2, <2>4 DEF HandOut, Entry
    <2>6. ASSUME NEW s \in Slots
          PROVE  FetchersOf(s)' = FetchersOf(s) \ {c} /\ (s # t => c \notin FetchersOf(s))
      <3>1. grower' = grower
        BY <1>4 DEF FetchFail
      <3>2. \E k \in ConnState : k.pc # "fetch" /\ conn' = [conn EXCEPT ![c] = k]
        BY <2>4, ConnTargets DEF HandOut
      <3>3. QED
        BY <2>1, <3>1, <3>2, FetchersFrame
    <2>7. pool[t].fetching \in BOOLEAN /\ \A s \in Slots : pool[s].fetching \in BOOLEAN
      BY <1>p, <2>1 DEF Entry
    <2>8. pool'[t].fetching = FALSE
      BY <2>1, <2>3, <2>5
    <2>9. ASSUME NEW s \in Slots, s # t
          PROVE  pool'[s].fetching = pool[s].fetching /\ (Usable(pool'[s]) => Usable(pool[s]))
      BY <2>3, <2>5, <2>7, <2>9 DEF Usable
    <2>10. QED
      BY <1>4, <1>x, <2>1, <2>6, <2>8, <2>9 DEF FetchFail
  <1>5. ASSUME NEW c \in Conns, Release(c) PROVE FetchInv'
    <2>1. conn[c].slot \in Slots
      BY <1>5, HeldSlot DEF Release
    <2>2. \A e \in Entry : /\ Released(e).fetching = e.fetching
                           /\ Released(e).creds = e.creds /\ Released(e).expiry = e.expiry
      BY DEF Released, Entry
    <2>3. \A r \in Slots : /\ pool'[r].fetching = pool[r].fetching
                           /\ pool'[r].creds = pool[r].creds /\ pool'[r].expiry = pool[r].expiry
      BY <1>5, <1>p, <2>1, <2>2 DEF Release
    <2>4. ASSUME NEW r \in Slots PROVE FetchersOf(r)' = FetchersOf(r)
      <3>1. /\ conn' = [conn EXCEPT ![c] = Idle] /\ grower' = grower
            /\ Idle \in ConnState /\ Idle.pc # "fetch" /\ conn[c].pc # "fetch"
        BY <1>5, ConnTargets DEF Release
      <3>2. QED
        BY <3>1, FetchersFrame
    <2>5. QED
      BY <1>5, <1>q, <2>3, <2>4 DEF Release, Usable
  <1>6. ASSUME NEW c \in Conns, MarkSaturated(c) PROVE FetchInv'
    <2>1. conn[c].slot \in Slots /\ conn' = [conn EXCEPT ![c] = [pc |-> "leave", slot |-> conn[c].slot]]
      BY <1>6, HeldSlot DEF MarkSaturated
    <2>2. \A r \in Slots : /\ pool'[r].fetching = pool[r].fetching
                           /\ pool'[r].creds = pool[r].creds /\ pool'[r].expiry = pool[r].expiry
      BY <1>6, <1>p, <2>1 DEF MarkSaturated, Entry
    <2>3. ASSUME NEW r \in Slots PROVE FetchersOf(r)' = FetchersOf(r)
      <3> DEFINE k == [pc |-> "leave", slot |-> conn[c].slot]
      <3>1. /\ conn' = [conn EXCEPT ![c] = k] /\ grower' = grower
            /\ k \in ConnState /\ k.pc # "fetch" /\ conn[c].pc # "fetch"
        BY <1>6, <2>1, ConnTargets DEF MarkSaturated
      <3> HIDE DEF k
      <3>2. QED
        BY <3>1, FetchersFrame
    <2>4. QED
      BY <1>6, <1>q, <2>2, <2>3 DEF MarkSaturated, Usable
  <1>7. ASSUME NEW c \in Conns, InvalidateEntry(c) PROVE FetchInv'
    <2>1. PICK t \in Slots : t = conn[c].slot /\ conn' = [conn EXCEPT ![c] = [pc |-> "leave", slot |-> t]]
      BY <1>7, HeldSlot DEF InvalidateEntry
    <2>2. pool'[t].fetching = FALSE /\ \A s \in Slots : s # t => pool'[s] = pool[s]
      BY <1>7, <1>p, <1>e, <2>1 DEF InvalidateEntry
    <2>3. ASSUME NEW r \in Slots PROVE FetchersOf(r)' = FetchersOf(r)
      <3> DEFINE k == [pc |-> "leave", slot |-> t]
      <3>1. /\ conn' = [conn EXCEPT ![c] = k] /\ grower' = grower
            /\ k \in ConnState /\ k.pc # "fetch" /\ conn[c].pc # "fetch"
        BY <1>7, <2>1, ConnTargets DEF InvalidateEntry
      <3> HIDE DEF k
      <3>2. QED
        BY <3>1, FetchersFrame
    <2>4. orphan' = orphan \cup FetchersOf(t)
      BY <1>7, <2>1 DEF InvalidateEntry
    <2>5. OrphansFetch'
      BY <2>1, <2>3, <2>4 DEF FetchInv, OrphansFetch
    <2>6. SlotFetch(t)'
      <3>1. Live(t)' = {}
        BY <2>1, <2>3, <2>4 DEF Live
      <3>2. QED
        BY <2>1, <2>2, <3>1, SlotFetchReset
    <2>7. ASSUME NEW s \in Slots, s # t PROVE SlotFetch(s)'
      <3>1. Live(s)' = Live(s)
        BY <1>d, <2>1, <2>3, <2>4, <2>7 DEF Live
      <3>2. pool'[s] = pool[s]
        BY <2>2, <2>7
      <3>3. QED
        BY <1>c, <3>1, <3>2, SlotFetchFrame
    <2>8. QED
      BY <2>5, <2>6, <2>7 DEF FetchInv
  <1>8. CASE GrowerPick \/ GrowerGuard \/ GrowerSettle
    <2>1. /\ pool' = pool /\ conn' = conn /\ orphan' = orphan
          /\ grower.pc # "fetch" /\ grower'.pc # "fetch"
      <3>1. CASE GrowerPick
        BY <3>1 DEF GrowerPick, TypeOK, GrowerState
      <3>2. CASE GrowerGuard
        BY <3>2 DEF GrowerGuard, TypeOK, GrowerState
      <3>3. CASE GrowerSettle
        BY <3>3 DEF GrowerSettle, TypeOK, GrowerState
      <3>4. QED
        BY <1>8, <3>1, <3>2, <3>3
    <2>2. ASSUME NEW s \in Slots PROVE FetchersOf(s)' = FetchersOf(s)
      BY <2>1, GrowerFetchersFrame
    <2>3. QED
      BY <1>q, <2>1, <2>2
  <1>9. CASE TryFillStart
    <2>1. PICK t \in Slots : t = grower.slot /\ grower.pc = "guarded" /\ conn' = conn /\ orphan' = orphan
      BY <1>9, GrowerSlot DEF TryFillStart
    <2>2. CASE Fetchable(pool[t]) /\ ~abortFill
      <3>1. /\ pool' = [pool EXCEPT ![t].fetching = TRUE]
            /\ grower'.pc = "fetch" /\ grower'.slot = t
        BY <1>9, <2>1, <2>2 DEF TryFillStart, TypeOK, GrowerState
      <3>2. Grower \notin orphan
        BY <2>1, NotOrphan
      <3>3. /\ FetchersOf(t)' = FetchersOf(t) \cup {Grower}
            /\ \A s \in Slots : s # t => FetchersOf(s)' = FetchersOf(s)
        BY <2>1, <3>1, GrowerFetchersFrame
      <3>4. QED
        BY <1>b, <2>1, <2>2, <3>1, <3>2, <3>3
    <2>3. CASE ~(Fetchable(pool[t]) /\ ~abortFill)
      <3>1. pool' = pool /\ grower'.pc = "filled"
        BY <1>9, <2>1, <2>3 DEF TryFillStart, TypeOK, GrowerState
      <3>2. \A s \in Slots : FetchersOf(s)' = FetchersOf(s)
        BY <2>1, <3>1, GrowerFetchersFrame
      <3>3. QED
        BY <1>q, <2>1, <3>1, <3>2
    <2>4. QED
      BY <2>2, <2>3
  <1>10. CASE TryFillOk \/ TryFillFail
    <2>1. PICK t \in Slots :
            /\ t = grower.slot /\ grower.pc = "fetch" /\ grower'.pc = "filled" /\ conn' = conn
            /\ FetchEnded(Grower, t)
      BY <1>10, GrowerSlot DEF TryFillOk, TryFillFail, TypeOK, GrowerState
    <2>2. \A s \in Slots : /\ FetchersOf(s)' = FetchersOf(s) \ {Grower}
                           /\ s # t => Grower \notin FetchersOf(s)
      BY <2>1, GrowerFetchersFrame
    <2>3. \/ pool' = [pool EXCEPT ![t].fetching = FALSE]
          \/ pool' = [pool EXCEPT ![t] = FetchedEntry(0)]
          \/ pool' = FetchFailed(pool, t)
      BY <1>10, <2>1 DEF TryFillOk, TryFillFail
    <2>4. pool'[t].fetching = FALSE /\ \A s \in Slots : s # t => pool'[s] = pool[s]
      BY <1>p, <1>e, <2>1, <2>3 DEF FetchFailed, Entry
    <2>5. QED
      BY <1>x, <2>1, <2>2, <2>4
  <1>11. ASSUME conn' = conn, grower' = grower
         PROVE  \A s \in Slots : FetchersOf(s)' = FetchersOf(s)
    BY <1>11 DEF FetchersOf
  <1>12. CASE PathChange
    <2>1. \A e \in Entry : /\ pathChangeMark(e).fetching = e.fetching
                           /\ pathChangeMark(e).creds = e.creds
                           /\ pathChangeMark(e).expiry = e.expiry
      BY DEF pathChangeMark, Entry
    <2>2. QED
      BY <1>12, <1>p, <1>q, <1>11, <2>1 DEF PathChange, Usable
  <1>13. CASE PathTransition \/ UNCHANGED vars
    BY <1>13, <1>q, <1>11 DEF PathTransition, vars
  <1>14. CASE Invalidate
    <2>1. \A s \in Slots : FetchersOf(s)' = FetchersOf(s) /\ pool'[s].fetching = FALSE
      BY <1>14, <1>e, <1>11 DEF Invalidate
    <2>2. \A s \in Slots : Live(s)' = {}
      BY <1>14, <2>1 DEF Invalidate, Live
    <2>3. OrphansFetch'
      BY <1>14, <2>1 DEF Invalidate, FetchInv, OrphansFetch
    <2>4. QED
      BY <2>1, <2>2, <2>3, SlotFetchReset DEF FetchInv
  <1>15. CASE Tick
    <2>1. \A e \in Entry : /\ Aged(e).fetching = e.fetching
                           /\ Aged(e).creds = e.creds
                           /\ Aged(e).expiry > 0 => e.expiry > 0
      BY TimeAssumption DEF TimeAssumption, Aged, Entry, Less
    <2>2. QED
      BY <1>15, <1>p, <1>q, <1>11, <2>1 DEF Tick, Usable
  <1>16. QED
    BY <1>1, <1>2, <1>3, <1>4, <1>5, <1>6, <1>7, <1>8, <1>9, <1>10, <1>12, <1>13,
       <1>14, <1>15 DEF Next, ConnStep, GrowerStep

(* The fetching flag is exact: it is up exactly while one fetch that nothing *)
(* has overtaken is under way, so get and the grower never duplicate one.     *)
THEOREM FlagExact == Spec => []FetchFlagExact
PROOF
  <1>1. FetchInv => FetchFlagExact
    BY DEF FetchInv, SlotFetch, Live, FetchFlagExact
  <1>2. QED
    BY <1>1, TypeCorrect, FetchInit, FetchNext, PTL DEF Spec

(* A fetch nothing has overtaken never throws away a usable credential. *)
THEOREM NoUsableOverwritten == Spec => []FetchTargetStaysUnusable
PROOF
  <1>1. FetchInv => FetchTargetStaysUnusable
    BY DEF FetchInv, SlotFetch, Live, FetchTargetStaysUnusable
  <1>2. QED
    BY <1>1, TypeCorrect, FetchInit, FetchNext, PTL DEF Spec

-----------------------------------------------------------------------------
(* Racing conns and the cold-start cap *)

ConnFetches == {c \in Conns \ orphan : conn[c].pc = "fetch"}

(* Fetches nothing has overtaken are in different slots, each with its flag up. *)
LEMMA FetchesAreInFlight ==
  ASSUME TypeOK, FetchInv
  PROVE  /\ IsFiniteSet(ConnFetches) /\ Cardinality(ConnFetches) \in Nat
         /\ inFlight(pool) \in Nat /\ countWithUsableCreds(pool) \in Nat
         /\ Cardinality(ConnFetches) <= inFlight(pool)
PROOF
  <1> DEFINE F == {s \in Slots : pool[s].fetching}
             f == [c \in ConnFetches |-> conn[c].slot]
  <1>1. IsFiniteSet(Slots)
    BY FS_Interval, SizeAssumption DEF SizeAssumption, Slots
  <1>2. IsFiniteSet(F) /\ IsFiniteSet({s \in Slots : Usable(pool[s])})
    BY <1>1, FS_Subset
  <1>3. IsFiniteSet(ConnFetches)
    BY GoroutineAssumption, FS_Subset DEF GoroutineAssumption, ConnFetches
  <1>4. \A c \in ConnFetches : conn[c].slot \in Slots /\ c \in Live(conn[c].slot)
    BY HeldSlot DEF ConnFetches, Live, FetchersOf
  <1>5. \A c \in ConnFetches : conn[c].slot \in F
    BY <1>4 DEF FetchInv, SlotFetch
  <1>6. \A c, d \in ConnFetches : conn[c].slot = conn[d].slot => c = d
    BY <1>4 DEF FetchInv, SlotFetch
  <1>7. f \in Injection(ConnFetches, F)
    BY <1>5, <1>6, Zenon DEF Injection, IsInjective
  <1>8. Cardinality(ConnFetches) <= Cardinality(F)
    BY <1>2, <1>7, FS_Injection
  <1>9. QED
    BY <1>2, <1>3, <1>8, FS_CardinalityType DEF inFlight, countWithUsableCreds

LEMMA BoundInit == Init => ColdStartFetchesBounded
PROOF
  <1> SUFFICES ASSUME Init PROVE ColdStartFetchesBounded
    OBVIOUS
  <1>1. {c \in Conns \ orphan : conn[c].pc = "fetch"} = {}
    BY DEF Init, Idle
  <1>2. 0 <= coldStartTarget
    BY SizeAssumption DEF SizeAssumption, coldStartTarget
  <1>3. QED
    BY <1>1, <1>2, FS_EmptySet DEF ColdStartFetchesBounded

LEMMA BoundNext ==
  TypeOK /\ FetchInv /\ FetchInv' /\ TypeOK' /\ ColdStartFetchesBounded /\ [Next]_vars
    => ColdStartFetchesBounded'
PROOF
  <1> SUFFICES ASSUME TypeOK, FetchInv, TypeOK', FetchInv', ColdStartFetchesBounded, [Next]_vars
               PROVE  ColdStartFetchesBounded'
    OBVIOUS
  <1>0. /\ conn \in [Conns -> ConnState] /\ Grower \notin Conns
        /\ coldStartTarget \in Int /\ coldStartTarget' = coldStartTarget
    BY GoroutineAssumption, SizeAssumption DEF TypeOK, GoroutineAssumption, SizeAssumption, coldStartTarget
  <1>1. /\ IsFiniteSet(ConnFetches) /\ Cardinality(ConnFetches) \in Nat
        /\ inFlight(pool) \in Nat /\ countWithUsableCreds(pool) \in Nat
        /\ Cardinality(ConnFetches) <= inFlight(pool)
    BY FetchesAreInFlight
  <1>2. Cardinality(ConnFetches) <= coldStartTarget
    BY DEF ColdStartFetchesBounded, ConnFetches
  <1>3. SUFFICES Cardinality(ConnFetches') <= coldStartTarget
    BY <1>0 DEF ColdStartFetchesBounded, ConnFetches
  <1>4. ASSUME \A d \in Conns : conn'[d].pc = "fetch" =>
                 conn[d].pc = "fetch" /\ (d \in orphan => d \in orphan')
        PROVE  Cardinality(ConnFetches') <= coldStartTarget
    <2>1. ConnFetches' \subseteq ConnFetches
      BY <1>4 DEF ConnFetches
    <2>2. Cardinality(ConnFetches') \in Nat /\ Cardinality(ConnFetches') <= Cardinality(ConnFetches)
      BY <1>1, <2>1, FS_Subset, FS_CardinalityType
    <2>3. QED
      BY <1>0, <1>1, <1>2, <2>2
  <1>5. ASSUME NEW c \in Conns, StartFetch(c)
        PROVE  Cardinality(ConnFetches') <= coldStartTarget
    <2>1. ConnFetches' \subseteq ConnFetches \cup {c}
      BY <1>0, <1>5 DEF StartFetch, ConnFetches
    <2>2. /\ IsFiniteSet(ConnFetches \cup {c}) /\ Cardinality(ConnFetches \cup {c}) \in Nat
          /\ Cardinality(ConnFetches \cup {c}) <= Cardinality(ConnFetches) + 1
      BY <1>1, FS_AddElement, FS_CardinalityType
    <2>3. Cardinality(ConnFetches') \in Nat /\ Cardinality(ConnFetches') <= Cardinality(ConnFetches \cup {c})
      BY <2>1, <2>2, FS_Subset, FS_CardinalityType
    <2>4. countWithUsableCreds(pool) + inFlight(pool) < coldStartTarget
      BY <1>5 DEF StartFetch, underColdStartCap
    <2>5. QED
      BY <1>0, <1>1, <2>2, <2>3, <2>4
  <1>6. ASSUME NEW c \in Conns,
               \/ Acquire(c) \/ Release(c) \/ MarkSaturated(c) \/ InvalidateEntry(c)
        PROVE  Cardinality(ConnFetches') <= coldStartTarget
    <2>1. /\ conn'[c].pc # "fetch" /\ \A d \in Conns : d # c => conn'[d] = conn[d]
          /\ orphan \subseteq orphan'
      <3>1. CASE Acquire(c)
        BY <1>0, <3>1 DEF Acquire, HandOut
      <3>2. CASE Release(c)
        BY <1>0, <3>2 DEF Release, Idle
      <3>3. CASE MarkSaturated(c)
        BY <1>0, <3>3 DEF MarkSaturated, ConnState
      <3>4. CASE InvalidateEntry(c)
        BY <1>0, <3>4 DEF InvalidateEntry, ConnState
      <3>5. QED
        BY <1>6, <3>1, <3>2, <3>3, <3>4
    <2>2. QED
      BY <1>4, <2>1
  <1>7. ASSUME NEW c \in Conns, FetchOk(c) \/ FetchFail(c)
        PROVE  Cardinality(ConnFetches') <= coldStartTarget
    <2>1. /\ conn'[c].pc # "fetch" /\ \A d \in Conns : d # c => conn'[d] = conn[d]
      <3>1. CASE FetchOk(c)
        BY <1>0, <3>1 DEF FetchOk, ConnState
      <3>2. CASE FetchFail(c)
        BY <1>0, <3>2 DEF FetchFail, HandOut, Idle
      <3>3. QED
        BY <1>7, <3>1, <3>2
    <2>2. \A d \in Conns : d # c /\ d \in orphan => d \in orphan'
      BY <1>7 DEF FetchOk, FetchFail, FetchEnded
    <2>3. QED
      BY <1>4, <2>1, <2>2
  <1>8. CASE GrowerStep
    <2>1. conn' = conn
      BY <1>8 DEF GrowerStep, GrowerPick, GrowerGuard, TryFillStart, TryFillOk, TryFillFail, GrowerSettle
    <2>2. \A d \in Conns : d \in orphan => d \in orphan'
      BY <1>0, <1>8 DEF GrowerStep, GrowerPick, GrowerGuard, TryFillStart, TryFillOk, TryFillFail,
                        GrowerSettle, FetchEnded
    <2>3. QED
      BY <1>4, <2>1, <2>2
  <1>9. CASE PathChange \/ PathTransition \/ Invalidate \/ Tick \/ UNCHANGED vars
    <2>1. conn' = conn /\ orphan \subseteq orphan'
      BY <1>9 DEF PathChange, PathTransition, Invalidate, Tick, vars
    <2>2. QED
      BY <1>4, <2>1
  <1>10. QED
    BY <1>5, <1>6, <1>7, <1>8, <1>9 DEF Next, ConnStep

(* Conns racing through get never have more fetches under way than the       *)
(* cold-start target, for any number of conns and slots: the cap of Phase 2   *)
(* counts the flags, and the flags are exact.                                 *)
THEOREM FetchesBounded == Spec => []ColdStartFetchesBounded
PROOF
  BY TypeCorrect, FetchInit, FetchNext, BoundInit, BoundNext, PTL DEF Spec

-----------------------------------------------------------------------------
(* What a step may never do *)

(* Only conns that are handed a slot, or fetched into it, become its users. *)
LEMMA SaturatedStep ==
  ASSUME TypeOK, [Next]_vars, NEW s \in Slots,
         pool[s].saturatedUntil > 0, pool'[s].saturatedUntil > 0
  PROVE  users'[s] \subseteq users[s]
PROOF
  <1>0. pool \in [Slots -> Entry] /\ users \in [Slots -> SUBSET Conns] /\ pool[s] \in Entry
    BY DEF TypeOK
  <1>e. FetchedEntry(0).saturatedUntil = 0 /\ FetchedEntry(1).saturatedUntil = 0
    <2>1. EmptyEntry.saturatedUntil = 0 /\ EmptyEntry \in Entry
      BY EntryOps DEF EmptyEntry
    <2>2. \A e \in Entry : \A l, n : [e EXCEPT !.creds = TRUE, !.expiry = l, !.active = n].saturatedUntil
                                      = e.saturatedUntil
      BY DEF Entry
    <2>3. QED
      BY <2>1, <2>2 DEF FetchedEntry
  <1>f. ASSUME NEW t \in Slots PROVE FetchFailed(pool, t)[s].saturatedUntil = pool[s].saturatedUntil
    BY <1>0, <1>f DEF FetchFailed, Entry
  <1>1. ASSUME NEW p, NEW c \in Conns, NEW t \in Slots, HandOut(p, c, t), Acquirable(p[t]),
               p[s].saturatedUntil = pool[s].saturatedUntil
        PROVE  users'[s] \subseteq users[s]
    <2>1. p[t].saturatedUntil = 0
      BY <1>1 DEF Acquirable, entryIsAvailable
    <2>2. t # s
      BY <1>1, <2>1
    <2>3. QED
      BY <1>0, <1>1, <2>2 DEF HandOut
  <1>2. ASSUME NEW c \in Conns, Acquire(c) PROVE users'[s] \subseteq users[s]
    BY <1>1, <1>2, Choices DEF Acquire
  <1>3. ASSUME NEW c \in Conns, FetchOk(c) PROVE users'[s] \subseteq users[s]
    <2>1. conn[c].slot \in Slots
      BY <1>3, HeldSlot DEF FetchOk
    <2>2. conn[c].slot # s
      BY <1>0, <1>3, <1>e, <2>1 DEF FetchOk
    <2>3. QED
      BY <1>0, <1>3, <2>1, <2>2 DEF FetchOk, Replaced
  <1>4. ASSUME NEW c \in Conns, FetchFail(c) PROVE users'[s] \subseteq users[s]
    <2>1. conn[c].slot \in Slots
      BY <1>4, HeldSlot DEF FetchFail
    <2> DEFINE p == FetchFailed(pool, conn[c].slot)
    <2>2. p[s].saturatedUntil = pool[s].saturatedUntil
      BY <1>f, <2>1
    <2>3. users' = users \/ \E t \in pickAcquireSlot(p, ownSlot(c)) : HandOut(p, c, t)
      BY <1>4 DEF FetchFail
    <2> HIDE DEF p
    <2>4. QED
      BY <1>1, <2>2, <2>3, Choices
  <1>5. ASSUME NEW c \in Conns, StartFetch(c) \/ MarkSaturated(c)
        PROVE users'[s] \subseteq users[s]
    BY <1>5 DEF StartFetch, MarkSaturated
  <1>6. ASSUME NEW c \in Conns, Release(c) \/ InvalidateEntry(c)
        PROVE users'[s] \subseteq users[s]
    <2>1. conn[c].slot \in Slots
      BY <1>6, HeldSlot DEF Release, InvalidateEntry
    <2>2. QED
      BY <1>0, <1>6, <2>1 DEF Release, InvalidateEntry, Replaced
  <1>7. CASE GrowerStep
    <2>1. grower.pc = "fetch" => grower.slot \in Slots
      BY GrowerSlot
    <2>2. users' = users \/ (grower.slot \in Slots /\ users' = [users EXCEPT ![grower.slot] = {}])
      BY <1>7, <2>1 DEF GrowerStep, GrowerPick, GrowerGuard, TryFillStart, TryFillOk, TryFillFail,
                        GrowerSettle, Replaced
    <2>3. QED
      BY <1>0, <2>2
  <1>8. CASE PathChange \/ PathTransition \/ Invalidate \/ Tick \/ UNCHANGED vars
    BY <1>0, <1>8 DEF PathChange, PathTransition, Invalidate, Tick, vars
  <1>9. QED
    BY <1>2, <1>3, <1>4, <1>5, <1>6, <1>7, <1>8 DEF Next, ConnStep

(* A credential VK reported as full gains no conn before its cooldown ends,   *)
(* neither in Phase 1 of get nor as the fallback of a failed fetch.           *)
THEOREM SaturatedNeverShared == Spec => SaturatedNotShared
PROOF
  <1>1. TypeOK /\ [Next]_vars =>
          [\A s \in Slots : pool[s].saturatedUntil > 0 /\ pool'[s].saturatedUntil > 0
              => users'[s] \subseteq users[s]]_vars
    BY SaturatedStep
  <1>2. QED
    BY <1>1, TypeCorrect, PTL DEF Spec, SaturatedNotShared

(* No path event shortens a pause of get that an earlier one began. *)
THEOREM PauseOnlyEndsByTime == Spec => PauseNeverCutShort
PROOF
  <1>1. TypeOK /\ [Next]_vars => [pauseAcquireUntil' >= Less(pauseAcquireUntil)]_vars
    <2> SUFFICES ASSUME TypeOK, [Next]_vars PROVE pauseAcquireUntil' >= Less(pauseAcquireUntil)
      OBVIOUS
    <2>1. pauseAcquireUntil \in Nat
      BY DEF TypeOK
    <2>2. PathPause \in Nat /\ CascadePause \in Nat /\ TransitionPause \in Nat
      BY TimeAssumption DEF TimeAssumption
    <2>3. CASE PathChange \/ PathTransition
      BY <2>1, <2>2, <2>3 DEF PathChange, PathTransition, ExtendPause, pathChangePause, Larger, Less
    <2>4. CASE Tick
      BY <2>1, <2>4 DEF Tick, Less
    <2>5. CASE pauseAcquireUntil' = pauseAcquireUntil
      BY <2>1, <2>5 DEF Less
    <2>6. ASSUME NEW c \in Conns, ConnStep(c) PROVE pauseAcquireUntil' = pauseAcquireUntil
      BY <2>6 DEF ConnStep, Acquire, StartFetch, FetchOk, FetchFail, Release, MarkSaturated, InvalidateEntry
    <2>7. CASE GrowerStep \/ Invalidate \/ UNCHANGED vars
      BY <2>5, <2>7 DEF GrowerStep, GrowerPick, GrowerGuard, TryFillStart, TryFillOk, TryFillFail,
                        GrowerSettle, Invalidate, vars
    <2>8. QED
      BY <2>3, <2>4, <2>5, <2>6, <2>7 DEF Next
  <1>2. QED
    BY <1>1, TypeCorrect, PTL DEF Spec, PauseNeverCutShort

=============================================================================
