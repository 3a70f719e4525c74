------------------------------ MODULE CredPool ------------------------------
(***************************************************************************)
(* The pool of TURN credentials that every tunnel connection draws from:   *)
(* credPool in pkg/proxy/creds.go, with the goroutines that use it.        *)
(*                                                                         *)
(* Each action is one critical section of credPool.mu.  A call that lets   *)
(* go of the mutex and takes it again (get and tryFill around the VK fetch,*)
(* a session between its 486/401 handling and its deferred release) is     *)
(* split at that point, so other goroutines run in the gap.                *)
(*                                                                         *)
(* Wall-clock deadlines are kept as the time LEFT until them (0 = passed   *)
(* or never set) and past moments as their AGE, capped at the largest age  *)
(* the code tells apart; Tick lets one unit of time pass.  Nothing else    *)
(* bounds a behaviour: the state space is finite and runs are infinite.    *)
(***************************************************************************)
EXTENDS Integers, FiniteSets

CONSTANTS
  Conns,              \* connIdx of the callers of get (-1 is the captcha probe)
  Grower,             \* the growCredPool goroutine
  Size,               \* credPool.size
  ConnsPerSlot,       \* connsPerSlot: VK's quota of allocations per credential
  Redundancy,         \* slots per slot needed (4 in poolSizeForNumConns)
  CredLife,           \* life of a fetched credential, less credExpiryBuffer
  FetchCooldown,      \* credPool.cooldown
  SatShort,           \* vkSaturationCooldown
  SatLong,            \* vkActiveAllocationsCooldown
  ActiveWindow,       \* activeAllocationsWindow
  AllocLifetime,      \* vkAllocLifetime + safetyBuffer
  MinRealUse,         \* minRealUseAge
  GhostCooldown,      \* credSaturationCooldown
  PathPause,          \* pauseAcquireAfterPathEvent
  CascadePause,       \* cascadePauseDuration
  CascadeWindow,      \* cascadeDetectionWindow
  TransitionPause     \* the pause OnPathTransition asks for

ASSUME GoroutineAssumption ==
  /\ Conns \subseteq Int
  /\ IsFiniteSet(Conns)
  /\ Grower \notin Conns

ASSUME SizeAssumption ==
  /\ Size \in Nat \ {0}
  /\ ConnsPerSlot \in Nat \ {0}
  /\ Redundancy \in Nat \ {0}

ASSUME TimeAssumption ==
  /\ CredLife \in Nat \ {0}
  /\ FetchCooldown \in Nat
  /\ SatShort \in Nat
  /\ SatLong \in Nat
  /\ ActiveWindow \in Nat
  /\ AllocLifetime \in Nat
  /\ MinRealUse \in Nat
  /\ GhostCooldown \in 0 .. ActiveWindow
  /\ PathPause \in Nat
  /\ CascadePause \in Nat
  /\ CascadeWindow \in Nat
  /\ TransitionPause \in Nat

Slots == 0 .. Size - 1

(* No slot: the -1 of the code. *)
None == -1

VARIABLES
  pool,               \* credPool.pool
  pauseAcquireUntil,  \* time left of the path-change pause
  lastPathEventAt,    \* age of the last path change, CascadeWindow if old or none
  conn,               \* where each caller of get is, and the slot it will release
  grower,             \* where growCredPool is
  coldStartMet,       \* growCredPool's latch
  \* History variables: no action's guard reads them.
  users,              \* the conns that were handed the credential now in a slot
  strayed,            \* slots whose count was lowered by a conn of an older credential
  orphan              \* fetches whose entry was replaced or wiped under them

vars == <<pool, pauseAcquireUntil, lastPathEventAt, conn, grower, coldStartMet,
          users, strayed, orphan>>

-----------------------------------------------------------------------------
(* Entries *)

(* Both helpers are of the arithmetic of time.Time. *)
Larger(a, b) == IF a > b THEN a ELSE b
Less(a) == IF a > 0 THEN a - 1 ELSE 0
Older(a, cap) == IF a < cap THEN a + 1 ELSE cap

Durations == 0 .. Larger(Larger(SatShort, SatLong), AllocLifetime)

Entry == [creds          : BOOLEAN,
          expiry         : 0 .. CredLife,
          cooldownUntil  : 0 .. FetchCooldown,
          fetching       : BOOLEAN,
          active         : 0 .. ConnsPerSlot,
          availableAt    : 0 .. GhostCooldown,
          lastUsedAt     : 0 .. ActiveWindow,
          saturatedUntil : Durations]

(* The zero credPoolEntry: lastUsedAt is unset, as good as long ago. *)
EmptyEntry == [creds |-> FALSE, expiry |-> 0, cooldownUntil |-> 0,
               fetching |-> FALSE, active |-> 0, availableAt |-> 0,
               lastUsedAt |-> ActiveWindow, saturatedUntil |-> 0]

(* Mutant: the conn that fetched the credential is not counted as its user. *)
FetchedEntryUncounted(n) == [EmptyEntry EXCEPT !.creds = TRUE, !.expiry = CredLife]

(* What a successful fetch writes, n conns holding it from the start. *)
FetchedEntry(n) == [EmptyEntry EXCEPT !.creds = TRUE, !.expiry = CredLife, !.active = n]

(* What loadFromDisk writes for a record not too close to expiry: a credential *)
(* used so recently that VK may still hold its allocations is kept back.       *)
LoadedEntry(life, age) ==
  [EmptyEntry EXCEPT !.creds = TRUE, !.expiry = life, !.lastUsedAt = age,
                     !.availableAt = Larger(GhostCooldown - age, 0)]

Usable(e) == e.creds /\ e.expiry > 0

entryIsFresh(e) == Usable(e) /\ e.availableAt = 0

entryIsPending(e) == Usable(e) /\ e.availableAt > 0

(* Mutant: the saturation mark is forgotten. *)
AvailableIgnoringSaturation(e) == entryIsFresh(e)

entryIsAvailable(e) == entryIsFresh(e) /\ e.saturatedUntil = 0

countAvailable(p) == Cardinality({s \in Slots : entryIsAvailable(p[s])})

countWithUsableCreds(p) == Cardinality({s \in Slots : Usable(p[s])})

(* Mutant: a full slot is handed out as well. *)
AcquirableIgnoringQuota(e) == entryIsAvailable(e)

(* Phase 1 may hand the slot to one more conn. *)
Acquirable(e) == entryIsAvailable(e) /\ e.active < ConnsPerSlot

(* Mutant: fresh slots are not protected from a fetch. *)
FetchableEvenIfFresh(e) == ~entryIsPending(e) /\ e.cooldownUntil = 0 /\ ~e.fetching

(* Phase 2 and pickSlotToFill may fetch into the slot. *)
Fetchable(e) ==
  /\ ~entryIsFresh(e)
  /\ ~entryIsPending(e)
  /\ e.cooldownUntil = 0
  /\ ~e.fetching

-----------------------------------------------------------------------------
(* Choosing a slot.  Each choice is a set with at most one member. *)

ownSlot(c) ==
  IF c \div ConnsPerSlot < 0 THEN 0
  ELSE IF c \div ConnsPerSlot >= Size THEN Size - 1 ELSE c \div ConnsPerSlot

Lowest(S) == {s \in S : \A t \in S : s <= t}

(* pickAcquireSlotLocked: the conn's own slot, else the fullest that has room. *)
pickAcquireSlot(p, own) ==
  LET room == {s \in Slots : Acquirable(p[s])}
      fullest == {s \in room : \A t \in room : p[t].active <= p[s].active}
  IN IF own \in room THEN {own} ELSE Lowest(fullest)

(* Phase 2's candidatesOrdered loop. *)
pickFetchSlot(p, own) ==
  LET open == {s \in Slots : Fetchable(p[s])}
  IN IF own \in open THEN {own} ELSE Lowest(open)

pickSlotToFill(p) == Lowest({s \in Slots : Fetchable(p[s])})

coldStartTarget == (Size + Redundancy - 1) \div Redundancy

inFlight(p) == Cardinality({s \in Slots : p[s].fetching})

(* Mutant: fetches under way do not count. *)
underCapIgnoringInFlight(p) == countWithUsableCreds(p) < coldStartTarget

(* Phase 2 parks the conn when enough credentials are held or on their way. *)
underColdStartCap(p) == countWithUsableCreds(p) + inFlight(p) < coldStartTarget
-----------------------------------------------------------------------------
(* The goroutines *)

ConnState == [pc : {"idle", "fetch", "hold", "leave"}, slot : Slots \cup {None}]

GrowerState == [pc : {"wait", "picked", "guarded", "fetch", "filled"},
                slot : Slots \cup {None}, guard : BOOLEAN]

Idle == [pc |-> "idle", slot |-> None]

(* Who is fetching into slot s, by program counter rather than by flag. *)
FetchersOf(s) ==
  {c \in Conns : conn[c].pc = "fetch" /\ conn[c].slot = s}
    \cup (IF grower.pc = "fetch" /\ grower.slot = s THEN {Grower} ELSE {})

Init ==
  /\ pool \in [Slots -> {EmptyEntry} \cup
                {LoadedEntry(l, a) : l \in 0 .. CredLife, a \in 0 .. ActiveWindow}]
  /\ pauseAcquireUntil = 0
  /\ lastPathEventAt = CascadeWindow
  /\ conn = [c \in Conns |-> Idle]
  /\ grower = [pc |-> "wait", slot |-> None, guard |-> FALSE]
  /\ coldStartMet = FALSE
  /\ users = [s \in Slots |-> {}]
  /\ strayed = {}
  /\ orphan = {}

(* The history of a slot whose entry is replaced, us being its first users. *)
Replaced(s, us) ==
  /\ users' = [users EXCEPT ![s] = us]
  /\ strayed' = strayed \ {s}

-----------------------------------------------------------------------------
(* get(connIdx).  A call that ends in an error before the fetch (paused,     *)
(* cold-start cap, no slot) changes nothing: the caller stays idle.          *)

HandOut(p, c, s) ==
  /\ pool' = [p EXCEPT ![s].active = @ + 1]
  /\ conn' = [conn EXCEPT ![c] = [pc |-> "hold", slot |-> s]]
  /\ users' = [users EXCEPT ![s] = @ \cup {c}]

MayGet(c) == conn[c].pc = "idle" /\ pauseAcquireUntil = 0

(* Phase 1: share a credential that has room. *)
Acquire(c) ==
  /\ MayGet(c)
  /\ \E s \in pickAcquireSlot(pool, ownSlot(c)) : HandOut(pool, c, s)
  /\ UNCHANGED <<pauseAcquireUntil, lastPathEventAt, grower, coldStartMet, strayed, orphan>>

(* Phase 2: nothing to share, so mark a slot as fetching and let go of mu. *)
StartFetch(c) ==
  /\ MayGet(c)
  /\ pickAcquireSlot(pool, ownSlot(c)) = {}
  /\ underColdStartCap(pool)
  /\ \E s \in pickFetchSlot(pool, ownSlot(c)) :
       /\ pool' = [pool EXCEPT ![s].fetching = TRUE]
       /\ conn' = [conn EXCEPT ![c] = [pc |-> "fetch", slot |-> s]]
  /\ UNCHANGED <<pauseAcquireUntil, lastPathEventAt, grower, coldStartMet,
                 users, strayed, orphan>>

(* A goroutine g is done fetching into s; whoever else fetches there lost its flag. *)
FetchEnded(g, s) == orphan' = (orphan \ {g}) \cup (FetchersOf(s) \ {g})

(* The fetch succeeded: a new entry, held by this conn. *)
FetchOk(c) ==
  LET s == conn[c].slot IN
  /\ conn[c].pc = "fetch"
  /\ pool' = [pool EXCEPT ![s] = FetchedEntry(1)]
  /\ conn' = [conn EXCEPT ![c].pc = "hold"]
  /\ Replaced(s, {c})
  /\ FetchEnded(c, s)
  /\ UNCHANGED <<pauseAcquireUntil, lastPathEventAt, grower, coldStartMet>>

(* Mutant: the flag is not reset on failure. *)
FetchFailedKeepingFlag(p, s) == [p EXCEPT ![s].cooldownUntil = FetchCooldown]

(* The fetch failed: cool the slot down, then try to share after all. *)
FetchFailed(p, s) == [p EXCEPT ![s].fetching = FALSE, ![s].cooldownUntil = FetchCooldown]

FetchFail(c) ==
  LET s == conn[c].slot
      p == FetchFailed(pool, s)
  IN
  /\ conn[c].pc = "fetch"
  /\ \/ \E t \in pickAcquireSlot(p, ownSlot(c)) : HandOut(p, c, t)
     \/ /\ pickAcquireSlot(p, ownSlot(c)) = {}
        /\ pool' = p
        /\ conn' = [conn EXCEPT ![c] = Idle]
        /\ UNCHANGED users
  /\ FetchEnded(c, s)
  /\ UNCHANGED <<pauseAcquireUntil, lastPathEventAt, grower, coldStartMet, strayed>>

-----------------------------------------------------------------------------
(* What a session does with the slot it holds. *)

(* Mutant: release stamps the slot and forgets to count down. *)
ReleasedWithoutDecrement(e) == IF e.active = 0 THEN e ELSE [e EXCEPT !.lastUsedAt = 0]

(* release(slot) *)
Released(e) ==
  IF e.active = 0 THEN e
  ELSE [e EXCEPT !.active = @ - 1,
                 !.lastUsedAt = IF e.active = 1 THEN 0 ELSE @]

Release(c) ==
  LET s == conn[c].slot IN
  /\ conn[c].pc \in {"hold", "leave"}
  /\ pool' = [pool EXCEPT ![s] = Released(@)]
  /\ conn' = [conn EXCEPT ![c] = Idle]
  /\ users' = [users EXCEPT ![s] = @ \ {c}]
  /\ strayed' = IF c \notin users[s] /\ pool[s].active > 0 THEN strayed \cup {s} ELSE strayed
  /\ UNCHANGED <<pauseAcquireUntil, lastPathEventAt, grower, coldStartMet, orphan>>

(* markSaturated(slot), on a 486 from the TURN server *)
saturationCooldown(e) ==
  IF e.active > 0 \/ e.lastUsedAt < ActiveWindow THEN SatLong ELSE SatShort

MarkSaturated(c) ==
  LET s == conn[c].slot IN
  /\ conn[c].pc = "hold"
  /\ pool' = [pool EXCEPT ![s].saturatedUntil = saturationCooldown(pool[s])]
  /\ conn' = [conn EXCEPT ![c].pc = "leave"]
  /\ UNCHANGED <<pauseAcquireUntil, lastPathEventAt, grower, coldStartMet,
                 users, strayed, orphan>>

(* invalidateEntry(slot), on a 401 or 403 from the TURN server *)
InvalidateEntry(c) ==
  LET s == conn[c].slot IN
  /\ conn[c].pc = "hold"
  /\ pool' = [pool EXCEPT ![s] = EmptyEntry]
  /\ conn' = [conn EXCEPT ![c].pc = "leave"]
  /\ Replaced(s, {})
  /\ orphan' = orphan \cup FetchersOf(s)
  /\ UNCHANGED <<pauseAcquireUntil, lastPathEventAt, grower, coldStartMet>>

-----------------------------------------------------------------------------
(* growCredPool: pickSlotToFill, then snapshotSize, then tryFill. *)

coldStartSlots == coldStartTarget

GrowerPick ==
  /\ grower.pc = "wait"
  /\ \E s \in pickSlotToFill(pool) : grower' = [grower EXCEPT !.pc = "picked", !.slot = s]
  /\ UNCHANGED <<pool, pauseAcquireUntil, lastPathEventAt, conn, coldStartMet,
                 users, strayed, orphan>>

ColdStartReached == coldStartMet \/ countAvailable(pool) >= coldStartSlots

(* The guard given to tryFill is coldStartSlots (TRUE here) or 0 (FALSE). *)
GrowerGuard ==
  /\ grower.pc = "picked"
  /\ coldStartMet' = ColdStartReached
  /\ grower' = [grower EXCEPT !.pc = "guarded", !.guard = ~ColdStartReached]
  /\ UNCHANGED <<pool, pauseAcquireUntil, lastPathEventAt, conn, users, strayed, orphan>>

abortFill == grower.guard /\ countAvailable(pool) >= coldStartSlots

(* tryFill up to the fetch: give up, or mark the slot and let go of mu. *)
TryFillStart ==
  LET s == grower.slot IN
  /\ grower.pc = "guarded"
  /\ IF Fetchable(pool[s]) /\ ~abortFill
     THEN /\ pool' = [pool EXCEPT ![s].fetching = TRUE]
          /\ grower' = [grower EXCEPT !.pc = "fetch"]
     ELSE /\ grower' = [grower EXCEPT !.pc = "filled"]
          /\ UNCHANGED pool
  /\ UNCHANGED <<pauseAcquireUntil, lastPathEventAt, conn, coldStartMet,
                 users, strayed, orphan>>

(* tryFill after a successful fetch: throw the result away, or store it. *)
TryFillOk ==
  LET s == grower.slot
      p == [pool EXCEPT ![s].fetching = FALSE]
  IN
  /\ grower.pc = "fetch"
  /\ IF abortFill
     THEN pool' = p /\ UNCHANGED <<users, strayed>>
     ELSE pool' = [pool EXCEPT ![s] = FetchedEntry(0)] /\ Replaced(s, {})
  /\ grower' = [grower EXCEPT !.pc = "filled"]
  /\ FetchEnded(Grower, s)
  /\ UNCHANGED <<pauseAcquireUntil, lastPathEventAt, conn, coldStartMet>>

TryFillFail ==
  /\ grower.pc = "fetch"
  /\ pool' = FetchFailed(pool, grower.slot)
  /\ grower' = [grower EXCEPT !.pc = "filled"]
  /\ FetchEnded(Grower, grower.slot)
  /\ UNCHANGED <<pauseAcquireUntil, lastPathEventAt, conn, coldStartMet, users, strayed>>

GrowerSettle ==
  /\ grower.pc = "filled"
  /\ coldStartMet' = ColdStartReached
  /\ grower' = [pc |-> "wait", slot |-> None, guard |-> FALSE]
  /\ UNCHANGED <<pool, pauseAcquireUntil, lastPathEventAt, conn, users, strayed, orphan>>

-----------------------------------------------------------------------------
(* The outside world: network path events, Pause and Resume, time. *)

(* MarkInUseSlotsForPathChange: how long VK may still hold our allocations. *)
pathChangeCooldown(e) ==
  IF e.saturatedUntil > 0 \/ ~e.creds \/ e.availableAt > 0 THEN 0
  ELSE IF e.active > 0 THEN AllocLifetime
  ELSE IF e.lastUsedAt > MinRealUse /\ e.lastUsedAt < ActiveWindow
       THEN Larger(AllocLifetime - e.lastUsedAt, 0)
  ELSE 0

pathChangeMark(e) ==
  IF pathChangeCooldown(e) > 0
  THEN [e EXCEPT !.saturatedUntil = pathChangeCooldown(e)] ELSE e

pathChangePause ==
  IF lastPathEventAt >= PathPause /\ lastPathEventAt < CascadeWindow
  THEN CascadePause ELSE PathPause

(* Mutant: the newest event alone decides how long the pause is. *)
ReplacePause(d) == pauseAcquireUntil' = d

ExtendPause(d) == pauseAcquireUntil' = Larger(pauseAcquireUntil, d)

PathChange ==
  /\ pool' = [s \in Slots |-> pathChangeMark(pool[s])]
  /\ ExtendPause(pathChangePause)
  /\ lastPathEventAt' = 0
  /\ UNCHANGED <<conn, grower, coldStartMet, users, strayed, orphan>>

(* ExtendPauseAcquireForTransition *)
PathTransition ==
  /\ ExtendPause(TransitionPause)
  /\ UNCHANGED <<pool, lastPathEventAt, conn, grower, coldStartMet, users, strayed, orphan>>

(* invalidate(), from Pause and Resume *)
Invalidate ==
  /\ pool' = [s \in Slots |-> EmptyEntry]
  /\ users' = [s \in Slots |-> {}]
  /\ strayed' = {}
  /\ orphan' = orphan \cup UNION {FetchersOf(s) : s \in Slots}
  /\ UNCHANGED <<pauseAcquireUntil, lastPathEventAt, conn, grower, coldStartMet>>

Aged(e) == [e EXCEPT !.expiry = Less(@), !.cooldownUntil = Less(@),
                     !.availableAt = Less(@), !.saturatedUntil = Less(@),
                     !.lastUsedAt = Older(@, ActiveWindow)]

Tick ==
  /\ pool' = [s \in Slots |-> Aged(pool[s])]
  /\ pauseAcquireUntil' = Less(pauseAcquireUntil)
  /\ lastPathEventAt' = Older(lastPathEventAt, CascadeWindow)
  /\ UNCHANGED <<conn, grower, coldStartMet, users, strayed, orphan>>

ConnStep(c) ==
  \/ Acquire(c) \/ StartFetch(c) \/ FetchOk(c) \/ FetchFail(c)
  \/ Release(c) \/ MarkSaturated(c) \/ InvalidateEntry(c)

GrowerStep ==
  \/ GrowerPick \/ GrowerGuard \/ TryFillStart \/ TryFillOk \/ TryFillFail \/ GrowerSettle

Next ==
  \/ \E c \in Conns : ConnStep(c)
  \/ GrowerStep
  \/ PathChange \/ PathTransition \/ Invalidate \/ Tick

Spec == Init /\ [][Next]_vars

(* What VK, the network and the app do to the pool. *)
Disturbance ==
  \/ \E c \in Conns : MarkSaturated(c) \/ InvalidateEntry(c)
  \/ PathChange \/ PathTransition \/ Invalidate

(* Time passes, a fetch ends, a rejected session returns, and a conn whose retries keep finding a slot to *)
(* take, a slot to fetch into or a VK that answers gets through one day.      *)
Fairness ==
  /\ WF_vars(Tick)
  /\ WF_vars(TryFillOk \/ TryFillFail)
  /\ \A c \in Conns :
       /\ SF_vars(Acquire(c)) /\ SF_vars(StartFetch(c)) /\ SF_vars(FetchOk(c))
       /\ WF_vars(conn[c].pc = "leave" /\ Release(c))

FairSpec == Spec /\ Fairness
-----------------------------------------------------------------------------
(* Properties *)

(* Every variable has its type; a slot's count stays within the VK quota and *)
(* a slot is remembered by exactly the goroutines that have one.             *)
TypeOK ==
  /\ pool \in [Slots -> Entry]
  /\ pauseAcquireUntil \in Nat
  /\ lastPathEventAt \in 0 .. CascadeWindow
  /\ conn \in [Conns -> ConnState]
  /\ \A c \in Conns : conn[c].slot = None <=> conn[c].pc = "idle"
  /\ grower \in GrowerState
  /\ grower.slot = None <=> grower.pc = "wait"
  /\ coldStartMet \in BOOLEAN
  /\ users \in [Slots -> SUBSET Conns]
  /\ strayed \subseteq Slots
  /\ orphan \subseteq Conns \cup {Grower}

Holders(s) == {c \in Conns : conn[c].pc \in {"hold", "leave"} /\ conn[c].slot = s}

(* No capacity leaks: get and release pair up, so a slot's active count never *)
(* claims more conns than really hold its present credential.                 *)
NoLeakedCapacity ==
  \A s \in Slots :
    /\ users[s] \subseteq Holders(s)
    /\ pool[s].active <= Cardinality(users[s])

(* The active count is exact, and the VK quota therefore kept, on every slot  *)
(* that no conn of an earlier credential has released since it was filled.    *)
CountExactUnlessStrayed ==
  \A s \in Slots \ strayed :
    /\ pool[s].active = Cardinality(users[s])
    /\ Cardinality(users[s]) <= ConnsPerSlot

(* The fetching flag says exactly that one fetch, not overtaken by a wipe or  *)
(* by another result, is under way: no two such fetches share a slot.         *)
FetchFlagExact ==
  \A s \in Slots :
    /\ pool[s].fetching <=> FetchersOf(s) \ orphan # {}
    /\ \A f, g \in FetchersOf(s) \ orphan : f = g

(* A fetch that was not overtaken never lands on a usable credential: neither *)
(* a saturated nor a pending one is thrown away by get or by the grower.      *)
FetchTargetStaysUnusable ==
  \A s \in Slots : FetchersOf(s) \ orphan # {} => ~Usable(pool[s])

(* Racing conns never have more fetches under way than the cold-start target. *)
ColdStartFetchesBounded ==
  Cardinality({c \in Conns \ orphan : conn[c].pc = "fetch"}) <= coldStartTarget

(* A credential VK reported as full gains no new conn before its cooldown     *)
(* ends, neither in Phase 1 nor as the fallback of a failed fetch.            *)
SaturatedNotShared ==
  [][\A s \in Slots : pool[s].saturatedUntil > 0 /\ pool'[s].saturatedUntil > 0
        => users'[s] \subseteq users[s]]_vars

(* Time alone ends a path-change pause: a later, shorter event never cuts a   *)
(* cascade pause short.                                                       *)
PauseNeverCutShort == [][pauseAcquireUntil' >= Less(pauseAcquireUntil)]_vars

(* Once VK stops rejecting and the network and the app leave the pool alone,  *)
(* every conn gets a credential again and again: nobody starves behind        *)
(* saturated, pending, expired or cooling slots.                              *)
ServedOnceCalm ==
  <>[][~Disturbance]_vars => \A c \in Conns : []<>(conn[c].pc = "hold")

=============================================================================
