------------------------------ MODULE CredDisk -------------------------------
(***************************************************************************)
(* The credential cache on disk: saveToDisk, loadFromDisk, seedSlot and    *)
(* the periodic save, over crashes and restarts of the process, with the   *)
(* app's own reading of the file.                                          *)
(*                                                                         *)
(* A slot keeps what the file and the load tell apart: its credential,     *)
(* whether a conn holds it, when the last one let go of it, and how long   *)
(* it is pending; CredPool has the rest.  One unit of time is the interval *)
(* of the periodic save, and moments are kept as ages.  A save that was    *)
(* begun is over within the unit: the disk is that fast.  Whether a        *)
(* credential is found too close to its expiry is a choice of every place  *)
(* that looks.                                                             *)
(*                                                                         *)
(* A credential is a user name with the relay it is for, which is what VK  *)
(* counts allocations by.  Each anonymous fetch brings a new user name,    *)
(* and its relay makes no difference.  With the cookie of a logged-in      *)
(* account the slots of one call share the user name of its cached mint,   *)
(* each slot with a relay of its own, and the same is handed out again     *)
(* until it nears its expiry.  The TURN server override, which would give  *)
(* all slots one relay, is off.  The app deletes the file before a change  *)
(* between the two ways, so one of them is kept here.                      *)
(***************************************************************************)
EXTENDS Naturals, FiniteSets

CONSTANTS
  MaxSlot,      \* cp.size - 1
  Creds,        \* TURN credentials VK may issue: user names, each with relays
  Calls,        \* links of the calls a logged-in account joins
  CallOf,       \* for each slot the call that has its relay
  None,         \* no credential, no relay in particular
  Cooldown,     \* credSaturationCooldown, in save intervals (10)
  Savers,       \* bound: goroutines in saveToDisk at a time
  NoFile,       \* a file that does not exist
  Torn          \* a file that was not written to its end

Slots == 0 .. MaxSlot

(* VK gives every mint a new user name. *)
Users == {u.user : u \in Creds}

ASSUME CredDiskAssumption ==
  /\ MaxSlot \in Nat
  \* Relay s is that of cookieRelayList[s]; None, the one of an anonymous credential.
  /\ Creds \subseteq [user : Users, relay : Slots \cup {None}]
  /\ CallOf \in [Slots -> Calls]
  /\ None \notin Creds /\ None \notin Users
  /\ Cooldown \in Nat \ {0}
  /\ NoFile # Torn

VARIABLES
  process,      \* "up", "stopping" (its context is cancelled) or "down"
  pool,         \* cp.pool
  due,          \* the ticker of runPeriodicSave has fired
  saver,        \* the goroutines in saveToDisk
  file,         \* creds-pool.json
  tmp,          \* creds-pool.json.tmp
  seed,         \* the credential the app starts the tunnel with
  cookieAuth,   \* cookieAuthEnabled
  mint,         \* cookieCache: for each call the user name of its last mint
  issued,       \* user names VK has issued
  alloc,        \* for how long VK still holds allocations of each
  \* History.
  stretch,      \* for how long each credential was last in use without a break,
                \* since it was last fetched
  usedHere,     \* credentials this process has used
  dropped,      \* credentials this process threw away since the last tick and
                \* has not fetched again
  gone,         \* those it threw away before
  diskFailed    \* some write to the disk failed

diskVars == <<file, tmp>>
cookieVars == <<cookieAuth, mint>>
vkVars == <<cookieVars, issued, alloc>>
history == <<stretch, usedHere, dropped, gone, diskFailed>>
vars == <<process, pool, due, saver, diskVars, seed, vkVars, history>>

(* The time of a use that never was, or is too long ago to matter. *)
Never == Cooldown

Entry == [cred : Creds \cup {None}, active : BOOLEAN, used : 0 .. Cooldown, wait : 0 .. Cooldown]

Empty == [cred |-> None, active |-> FALSE, used |-> Never, wait |-> 0]

New(u, a) == [cred |-> u, active |-> a, used |-> Never, wait |-> 0]

(* credCacheFile: for each slot its credential and LastUsedAt. *)
Snapshots == [Slots -> [cred : Creds \cup {None}, used : 0 .. Cooldown]]

(* A file that is missing or cut off is no cache. *)
ASSUME FileAssumption == NoFile \notin Snapshots /\ Torn \notin Snapshots

NoSnapshot == [s \in Slots |-> [cred |-> None, used |-> Never]]

Readable == file \notin {NoFile, Torn}

(* The credentials of the file. *)
OnFile == IF Readable THEN {file[s].cred : s \in Slots} \ {None} ELSE {}

NoMint == [c \in Calls |-> None]

(* entryIsFresh, of a credential that has not expired *)
Fresh(e) == e.cred # None /\ e.wait = 0

(* A goroutine of the process calls saveToDisk. *)
Saves == \E v \in Savers : saver[v].pc = "idle" /\ saver' = [saver EXCEPT ![v].pc = "called"]

-----------------------------------------------------------------------------
(* The pool changes *)

Uses(u) ==
  /\ usedHere' = usedHere \cup {u}
  /\ stretch' = [stretch EXCEPT ![u] = 0]
  /\ alloc' = [alloc EXCEPT ![u] = Cooldown]

(* cookieMintCachedLocked: the call's cached mint, or a new one when there  *)
(* is none, or it is close to its expiry.                                   *)
CookieMinted(c, n) ==
  \/ n = mint[c] /\ UNCHANGED <<mint, issued>>
  \/ n \notin issued /\ issued' = issued \cup {n} /\ mint' = [mint EXCEPT ![c] = n]

AnonymousMinted(n) == n \notin issued /\ issued' = issued \cup {n} /\ UNCHANGED mint

(* fetchFreshCreds for slot s.  A credential fetched again is not among the *)
(* dead any more.                                                           *)
Obtains(s, u) ==
  /\ IF cookieAuth THEN u.relay = s /\ CookieMinted(CallOf[s], u.user)
                   ELSE u.relay = None /\ AnonymousMinted(u.user)
  /\ dropped' = dropped \ {u} /\ gone' = gone \ {u}

(* get's fetch into a slot that is empty or has expired, for the conn that asked. *)
Fetched(s, u) ==
  /\ process = "up"
  /\ Obtains(s, u)
  /\ pool' = [pool EXCEPT ![s] = New(u, TRUE)]
  /\ Uses(u)
  /\ Saves
  /\ UNCHANGED <<process, due, diskVars, seed, cookieAuth, diskFailed>>

(* tryFill: a reserve nobody uses yet, whatever was done with it before. *)
Filled(s, u) ==
  /\ process = "up"
  /\ Obtains(s, u)
  /\ pool' = [pool EXCEPT ![s] = New(u, FALSE)]
  /\ stretch' = [stretch EXCEPT ![u] = 0]
  /\ Saves
  /\ UNCHANGED <<process, due, diskVars, seed, cookieAuth, alloc, usedHere, diskFailed>>

(* A conn takes a credential of the pool: nothing is saved. *)
Acquired(s) ==
  /\ process = "up" /\ Fresh(pool[s]) /\ ~pool[s].active
  /\ pool' = [pool EXCEPT ![s].active = TRUE]
  /\ Uses(pool[s].cred)
  /\ UNCHANGED <<process, due, saver, diskVars, seed, cookieVars, issued, dropped, gone, diskFailed>>

(* The last conn of a slot releases it: nothing is saved. *)
Released(s) ==
  /\ pool[s].active
  /\ pool' = [pool EXCEPT ![s].active = FALSE, ![s].used = 0]
  /\ UNCHANGED <<process, due, saver, diskVars, seed, vkVars, history>>

(* invalidateEntry *)
Rejected(s) ==
  /\ process = "up" /\ pool[s].cred # None
  /\ pool' = [pool EXCEPT ![s] = Empty]
  /\ dropped' = dropped \cup {pool[s].cred}
  /\ Saves
  /\ UNCHANGED <<process, due, diskVars, seed, vkVars, stretch, usedHere, gone, diskFailed>>

(* invalidate: nothing is saved. *)
Wiped ==
  /\ process = "up"
  /\ pool' = [s \in Slots |-> Empty]
  /\ dropped' = dropped \cup ({pool[s].cred : s \in Slots} \ {None})
  /\ UNCHANGED <<process, due, saver, diskVars, seed, vkVars, stretch, usedHere, gone, diskFailed>>

-----------------------------------------------------------------------------
(* Mutant: the tick is lost. *)
NoPeriodicSave ==
  /\ process = "up" /\ due
  /\ due' = FALSE
  /\ UNCHANGED <<process, pool, saver, diskVars, seed, vkVars, history>>

(* runPeriodicSave: on its tick ... *)
PeriodicSave ==
  /\ process = "up" /\ due
  /\ due' = FALSE
  /\ Saves
  /\ UNCHANGED <<process, pool, diskVars, seed, vkVars, history>>

(* ... and, once, when the context is cancelled. *)
FinalSave ==
  /\ process = "up"
  /\ process' = "stopping"
  /\ Saves
  /\ UNCHANGED <<pool, due, diskVars, seed, vkVars, history>>

(* Mutant: the time of a slot in use is that of its last release. *)
StampReleased(e) == [cred |-> e.cred, used |-> e.used]

(* A slot in use is stamped with this moment. *)
Stamp(e) == [cred |-> e.cred, used |-> IF e.active THEN 0 ELSE e.used]

(* saveToDisk: the snapshot under cp.mu ... *)
SaveSnapshots(v) ==
  /\ saver[v].pc = "called"
  /\ saver' = [saver EXCEPT ![v] = [pc |-> "ready", snap |-> [s \in Slots |-> Stamp(pool[s])]]]
  /\ UNCHANGED <<process, pool, due, diskVars, seed, vkVars, history>>

(* Mutant: saveMu is not taken. *)
SaveUnlocked(v) ==
  /\ saver[v].pc = "ready"
  /\ saver' = [saver EXCEPT ![v].pc = "write"]
  /\ tmp' = Torn
  /\ UNCHANGED <<process, pool, due, file, seed, vkVars, history>>

(* ... then, under saveMu, an empty new file, in the order the goroutines   *)
(* get the mutex, which need not be that of the snapshots ...               *)
SaveLocks(v) ==
  /\ saver[v].pc = "ready"
  /\ \A w \in Savers : saver[w].pc \notin {"write", "rename"}
  /\ saver' = [saver EXCEPT ![v].pc = "write"]
  /\ tmp' = Torn
  /\ UNCHANGED <<process, pool, due, file, seed, vkVars, history>>

(* ... its contents ... *)
SaveWrites(v) ==
  /\ saver[v].pc = "write"
  /\ saver' = [saver EXCEPT ![v].pc = "rename"]
  /\ tmp' = saver[v].snap
  /\ UNCHANGED <<process, pool, due, file, seed, vkVars, history>>

SaveEnds(v) == saver' = [saver EXCEPT ![v] = [pc |-> "idle", snap |-> NoSnapshot]]

(* ... and its name.  Without a temporary file Rename fails. *)
SaveRenames(v) ==
  /\ saver[v].pc = "rename"
  /\ file' = IF tmp = NoFile THEN file ELSE tmp
  /\ tmp' = NoFile
  /\ SaveEnds(v)
  /\ UNCHANGED <<process, pool, due, seed, vkVars, history>>

(* The write fails and leaves the temporary file, or the renaming fails and *)
(* removes it.  Bound: the disk fails once.                                 *)
SaveFails(v) ==
  /\ saver[v].pc \in {"write", "rename"} /\ ~diskFailed
  /\ tmp' = IF saver[v].pc = "write" THEN tmp ELSE NoFile
  /\ SaveEnds(v)
  /\ diskFailed' = TRUE
  /\ UNCHANGED <<process, pool, due, file, seed, vkVars, stretch, usedHere, dropped, gone>>

-----------------------------------------------------------------------------
(* A process ends and another begins *)

(* iOS kills the process, or it exits after Stop.  Nobody reads what is left *)
(* of its temporary file: the next save removes it.                          *)
Dies ==
  /\ process # "down"
  /\ process' = "down"
  /\ pool' = [s \in Slots |-> Empty]
  /\ due' = FALSE
  /\ saver' = [v \in Savers |-> [pc |-> "idle", snap |-> NoSnapshot]]
  /\ tmp' = NoFile
  /\ mint' = NoMint
  /\ usedHere' = {} /\ dropped' = {} /\ gone' = {}
  /\ UNCHANGED <<file, seed, cookieAuth, issued, alloc, stretch, diskFailed>>

(* CredCache.loadValidCred: the first credential of the file that is not    *)
(* close to its expiry and was not used for the cooldown.  The app does not *)
(* wait for the end of a process that is being stopped.  In cookie mode it  *)
(* does not look.                                                           *)
AppReads ==
  /\ process # "up" /\ seed = None /\ ~cookieAuth
  /\ Readable
  /\ \E s \in Slots :
       /\ file[s].cred # None /\ file[s].used = Never
       /\ seed' = file[s].cred
  /\ UNCHANGED <<process, pool, due, saver, diskVars, vkVars, stretch, usedHere, dropped, gone,
                 diskFailed>>

(* Or it has none that will do, and asks VK.  Its own cookieCache is empty: *)
(* SetVKCookieAuth came first.                                              *)
AppProbes(u) ==
  /\ process = "down" /\ seed = None
  /\ u.user \notin issued /\ u.relay = IF cookieAuth THEN 0 ELSE None
  /\ issued' = issued \cup {u.user}
  /\ seed' = u
  /\ UNCHANGED <<process, pool, due, saver, diskVars, cookieVars, alloc, history>>

(* loadFromDisk, when the credentials in x are close to their expiry *)
Loaded(s, x) ==
  LET e == file[s] IN
    IF ~Readable \/ e.cred = None \/ e.cred \in x
      THEN Empty
      ELSE [cred |-> e.cred, active |-> FALSE, used |-> e.used, wait |-> Cooldown - e.used]

(* Mutant: the other slots are left as they are. *)
SeedOnly(p, u) == [p EXCEPT ![0] = New(u, FALSE)]

(* e holds a credential of user name n. *)
Named(e, n) == e.cred # None /\ e.cred.user = n

(* seedSlot of slot 0: a credential of another name that was pending there  *)
(* moves to the first slot that is empty once those of the seed's name are  *)
(* cleared.                                                                 *)
Seeded(p, u) ==
  LET old == p[0]
      planted == [s \in Slots |-> IF s = 0 THEN New(u, FALSE)
                                  ELSE IF Named(p[s], u.user) THEN Empty ELSE p[s]]
      free == {s \in Slots : planted[s].cred = None}
  IN  IF Fresh(old) THEN p
      ELSE [s \in Slots |-> IF old.cred # None /\ ~Named(old, u.user) /\ s \in free /\ \A t \in free : s <= t
                              THEN old
                              ELSE planted[s]]

(* NewProxy: the pool is loaded, then seeded. *)
Starts(x) ==
  LET loaded == [s \in Slots |-> Loaded(s, x)] IN
    /\ process = "down"
    /\ process' = "up"
    /\ pool' = IF seed = None THEN loaded ELSE Seeded(loaded, seed)
    /\ IF seed = None \/ Fresh(loaded[0]) THEN UNCHANGED saver ELSE Saves
    /\ seed' = None
    /\ UNCHANGED <<due, diskVars, vkVars, stretch, usedHere, dropped, gone,
                 diskFailed>>

-----------------------------------------------------------------------------
Older(a) == IF a < Cooldown THEN a + 1 ELSE a

Less(a) == IF a > 0 THEN a - 1 ELSE a

AgedSnapshot(f) ==
  IF f \in {NoFile, Torn} THEN f ELSE [s \in Slots |-> [f[s] EXCEPT !.used = Older(@)]]

InUse(u) == \E s \in Slots : pool[s].cred = u /\ pool[s].active

(* A save interval passes: what was to be saved in the last one has been.   *)
Tick ==
  /\ process # "stopping" /\ ~due
  /\ \A v \in Savers : saver[v].pc = "idle"
  /\ due' = (process = "up")
  /\ pool' = [s \in Slots |-> [pool[s] EXCEPT !.used = Older(@), !.wait = Less(@)]]
  /\ file' = AgedSnapshot(file)
  /\ tmp' = AgedSnapshot(tmp)
  /\ alloc' = [u \in Creds |-> IF InUse(u) THEN alloc[u] ELSE Less(alloc[u])]
  /\ stretch' = [u \in Creds |-> CASE InUse(u) /\ stretch[u] < 2   -> stretch[u] + 1
                                  [] ~InUse(u) /\ alloc[u] <= 1   -> 0
                                  [] OTHER                        -> stretch[u]]
  /\ gone' = gone \cup dropped
  /\ dropped' = {}
  /\ UNCHANGED <<process, saver, seed, cookieVars, issued, usedHere, diskFailed>>

Init ==
  /\ process = "down"
  /\ pool = [s \in Slots |-> Empty]
  /\ due = FALSE
  /\ saver = [v \in Savers |-> [pc |-> "idle", snap |-> NoSnapshot]]
  /\ file = NoFile /\ tmp = NoFile
  /\ seed = None
  /\ cookieAuth \in BOOLEAN
  /\ mint = NoMint
  /\ issued = {}
  /\ alloc = [u \in Creds |-> 0]
  /\ stretch = [u \in Creds |-> 0]
  /\ usedHere = {} /\ dropped = {} /\ gone = {}
  /\ diskFailed = FALSE

saveToDisk(v) ==
  SaveSnapshots(v) \/ SaveLocks(v) \/ SaveWrites(v) \/ SaveRenames(v) \/ SaveFails(v)

Next ==
  \/ \E s \in Slots, u \in Creds : Fetched(s, u) \/ Filled(s, u)
  \/ \E s \in Slots : Acquired(s) \/ Released(s) \/ Rejected(s)
  \/ Wiped
  \/ PeriodicSave \/ FinalSave
  \/ \E v \in Savers : saveToDisk(v)
  \/ Dies \/ AppReads
  \/ \E u \in Creds : AppProbes(u)
  \/ \E x \in SUBSET OnFile : Starts(x)
  \/ Tick

Spec == Init /\ [][Next]_vars

-----------------------------------------------------------------------------
(* Properties *)

TypeOK ==
  /\ process \in {"up", "stopping", "down"}
  /\ pool \in [Slots -> Entry]
  /\ due \in BOOLEAN
  /\ saver \in [Savers -> [pc : {"idle", "called", "ready", "write", "rename"}, snap : Snapshots]]
  /\ file \in Snapshots \cup {NoFile, Torn}
  /\ tmp \in Snapshots \cup {NoFile, Torn}
  /\ seed \in Creds \cup {None}
  /\ cookieAuth \in BOOLEAN
  /\ mint \in [Calls -> Users \cup {None}]
  /\ issued \in SUBSET Users
  /\ alloc \in [Creds -> 0 .. Cooldown]
  /\ stretch \in [Creds -> 0 .. 2]
  /\ usedHere \in SUBSET Creds /\ dropped \in SUBSET Creds /\ gone \in SUBSET Creds
  /\ diskFailed \in BOOLEAN

(* Property: a crash between any two steps of concurrent saves, or a failed *)
(* write, leaves a file that can be read.                                   *)
FileWhole == file # Torn

(* Property: no two slots hold the same credential, the same user name on   *)
(* the same relay, whatever the file held, whatever the app seeded, wherever *)
(* a pending credential was moved and though the slots of a call share one   *)
(* mint.                                                                     *)
NoTwins ==
  \A s, t \in Slots : s # t /\ pool[s].cred # None => pool[s].cred # pool[t].cred

(* Property: a credential that was in use for two save intervals without a  *)
(* break is, after the process that used it has died, not usable again,     *)
(* loaded or seeded, while VK holds the dead process's allocations, but for *)
(* the last save interval of their life: not even if the app read the seed  *)
(* before the process had died.  Excepted are failed writes, and a use      *)
(* before the last fetch: a credential that cookieCache hands out again     *)
(* comes without the time of its use.                                       *)
QuarantineKept ==
  \A s \in Slots :
    LET u == pool[s].cred IN
      Fresh(pool[s]) /\ u \notin usedHere /\ stretch[u] = 2 /\ ~diskFailed
        => alloc[u] <= 1

(* Property: a credential thrown away, and not fetched again since, is out  *)
(* of the file when the saves of the interval after are done, though an     *)
(* older snapshot may have been the last to be written and a wipe is not    *)
(* saved: the periodic save sees to it.                                     *)
DeadForgotten ==
  process = "up" /\ ~due /\ (\A v \in Savers : saver[v].pc = "idle") /\ ~diskFailed
    => gone \cap OnFile = {}

=============================================================================
