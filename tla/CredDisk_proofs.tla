--------------------------- MODULE CredDisk_proofs ----------------------------
(***************************************************************************)
(* Proofs about CredDisk, for any size of the pool, any number of          *)
(* credentials and any number of goroutines that save at a time.           *)
(*                                                                         *)
(* A pool without twins comes from a file without twins, and that from a   *)
(* snapshot without twins: the invariant speaks of all three, and of the   *)
(* temporary file.  A credential of a new user name is in none of them     *)
(* because all of theirs have names VK has issued.  One of a cached mint   *)
(* is new to the pool because whatever else the pool has of that name is   *)
(* for the relay of the slot it is in: CookieInv.                          *)
(*                                                                         *)
(* The two properties about time need a second invariant, TimeInv, which   *)
(* says how far the file may be behind the pool.                           *)
(***************************************************************************)
EXTENDS CredDisk, TLAPS

USE CredDiskAssumption

(* The credentials of the user names VK has issued. *)
Known == {u \in Creds : u.user \in issued}

Single(f) == \A s, t \in Slots : s # t /\ f[s].cred # None => f[s].cred # f[t].cred

Issued(f, iss) == \A s \in Slots : f[s].cred \in iss \cup {None}

PoolOK(p, iss) == p \in [Slots -> Entry] /\ Single(p) /\ Issued(p, iss)

SnapOK(f, iss) == f \in Snapshots /\ Single(f) /\ Issued(f, iss)

DiskOK(f, iss) == f \in {NoFile, Torn} \/ SnapOK(f, iss)

SaverType == [pc : {"idle", "called", "ready", "write", "rename"}, snap : Snapshots]

(* The holder of saveMu. *)
Writing(v) == saver[v].pc \in {"write", "rename"}

FileInv ==
  /\ file # Torn
  /\ \A v \in Savers : saver[v].pc = "rename" => tmp # Torn
  /\ \A v, w \in Savers : Writing(v) /\ Writing(w) => v = w

ContentInv ==
  /\ PoolOK(pool, Known)
  /\ \A v \in Savers : SnapOK(saver[v].snap, Known)
  /\ DiskOK(file, Known) /\ DiskOK(tmp, Known)
  /\ seed \in Known \cup {None}

(* A process has its mints to itself, and asks for one on a slot's own relay. *)
CookieInv ==
  /\ \A c \in Calls : mint[c] \in issued \cup {None}
  /\ process = "down" => mint = NoMint
  /\ \A c \in Calls, s \in Slots :
       mint[c] # None /\ Named(pool[s], mint[c]) => pool[s].cred.relay = s

-----------------------------------------------------------------------------
(* What the operators keep *)

LEMMA Numbers == /\ Cooldown \in Nat /\ Cooldown > 0 /\ 0 \in 0 .. Cooldown /\ Cooldown \in 0 .. Cooldown
                 /\ 0 \in Slots /\ Slots \subseteq Nat
BY DEF Slots

LEMMA EntryTypes ==
  /\ Empty \in Entry /\ Empty.cred = None
  /\ \A u \in Creds, a \in BOOLEAN : New(u, a) \in Entry /\ New(u, a).cred = u
  /\ \A e \in Entry : [e EXCEPT !.active = TRUE] \in Entry /\ [e EXCEPT !.active = TRUE].cred = e.cred
<1>1. Empty \in Entry /\ Empty.cred = None
  BY Numbers DEF Empty, Entry, Never
<1>2. \A u \in Creds, a \in BOOLEAN : New(u, a) \in Entry /\ New(u, a).cred = u
  BY Numbers DEF New, Entry, Never
<1>3. \A e \in Entry : [e EXCEPT !.active = TRUE] \in Entry /\ [e EXCEPT !.active = TRUE].cred = e.cred
  BY DEF Entry
<1>4. QED
  BY <1>1, <1>2, <1>3

LEMMA Ages ==
  \A a \in 0 .. Cooldown : Older(a) \in 0 .. Cooldown /\ Less(a) \in 0 .. Cooldown
BY Numbers DEF Older, Less

LEMMA EmptyPool ==
  \A iss : PoolOK([s \in Slots |-> Empty], iss)
BY EntryTypes DEF PoolOK, Single, Issued

LEMMA EmptySnapshot ==
  \A iss : SnapOK(NoSnapshot, iss)
<1>1. NoSnapshot \in Snapshots
  BY Numbers DEF NoSnapshot, Snapshots, Never
<1>2. \A s \in Slots : NoSnapshot[s].cred = None
  BY DEF NoSnapshot
<1>3. QED
  BY <1>1, <1>2 DEF SnapOK, Single, Issued

(* More credentials are Known. *)
LEMMA Monotone ==
  ASSUME NEW iss, NEW jss, iss \subseteq jss
  PROVE  /\ \A p : PoolOK(p, iss) => PoolOK(p, jss)
         /\ \A f : SnapOK(f, iss) => SnapOK(f, jss)
         /\ \A f : DiskOK(f, iss) => DiskOK(f, jss)
BY DEF PoolOK, SnapOK, DiskOK, Issued

(* A slot is given a credential no other has, or emptied. *)
LEMMA PutKeeps ==
  ASSUME NEW p, NEW iss, PoolOK(p, iss), NEW s \in Slots, NEW e \in Entry,
         \A t \in Slots \ {s} : e.cred # None => p[t].cred # e.cred
  PROVE  PoolOK([p EXCEPT ![s] = e], iss \cup {e.cred})
<1>1. p \in [Slots -> Entry]
  BY DEF PoolOK
<1>2. [p EXCEPT ![s] = e] \in [Slots -> Entry]
  BY <1>1
<1>3. \A t \in Slots : [p EXCEPT ![s] = e][t] = IF t = s THEN e ELSE p[t]
  BY <1>1
<1>4. Single([p EXCEPT ![s] = e])
  BY <1>3 DEF PoolOK, Single
<1>5. Issued([p EXCEPT ![s] = e], iss \cup {e.cred})
  BY <1>3 DEF PoolOK, Issued
<1>6. QED
  BY <1>2, <1>4, <1>5 DEF PoolOK

(* The snapshot has the credentials of the pool. *)
LEMMA SnapshotTaken ==
  ASSUME NEW p, NEW iss, PoolOK(p, iss)
  PROVE  SnapOK([s \in Slots |-> Stamp(p[s])], iss)
<1>1. \A s \in Slots : p[s] \in Entry
  BY DEF PoolOK
<1>2. \A e \in Entry : Stamp(e) \in [cred : Creds \cup {None}, used : 0 .. Cooldown] /\ Stamp(e).cred = e.cred
  BY Numbers DEF Stamp, Entry
<1>3. [s \in Slots |-> Stamp(p[s])] \in Snapshots
  BY <1>1, <1>2 DEF Snapshots
<1>4. \A s \in Slots : [t \in Slots |-> Stamp(p[t])][s].cred = p[s].cred
  BY <1>1, <1>2
<1>5. QED
  BY <1>3, <1>4 DEF SnapOK, PoolOK, Single, Issued

(* So has the pool that is loaded from a file, but for what has expired. *)
LEMMA LoadKeeps ==
  ASSUME NEW x, NEW iss, DiskOK(file, iss)
  PROVE  PoolOK([s \in Slots |-> Loaded(s, x)], iss)
<1>1. CASE ~Readable
  <2>1. [s \in Slots |-> Loaded(s, x)] = [s \in Slots |-> Empty]
    BY <1>1 DEF Loaded
  <2>2. QED
    BY <2>1, EmptyPool
<1>2. CASE Readable
  <2>1. file \in Snapshots /\ Single(file) /\ Issued(file, iss)
    BY <1>2 DEF DiskOK, SnapOK, Readable
  <2>2. \A s \in Slots : file[s].cred \in Creds \cup {None} /\ file[s].used \in 0 .. Cooldown
    BY <2>1 DEF Snapshots
  <2>3. \A s \in Slots : Cooldown - file[s].used \in 0 .. Cooldown
    BY <2>2, Numbers
  <2>4. \A s \in Slots : Loaded(s, x) \in Entry /\ Loaded(s, x).cred \in {None, file[s].cred}
    BY <2>2, <2>3, EntryTypes DEF Loaded, Entry
  <2>5. QED
    BY <2>1, <2>4 DEF PoolOK, Single, Issued
<1>3. QED
  BY <1>1, <1>2

(* seedSlot removes the copies of the seed, and moves what it displaces. *)
LEMMA SeedKeeps ==
  ASSUME NEW p, NEW iss, PoolOK(p, iss), NEW u \in Creds, u \in iss
  PROVE  PoolOK(Seeded(p, u), iss)
<1> DEFINE old == p[0]
           planted == [s \in Slots |-> IF s = 0 THEN New(u, FALSE)
                                       ELSE IF Named(p[s], u.user) THEN Empty ELSE p[s]]
           free == {s \in Slots : planted[s].cred = None}
           moved == [s \in Slots |-> IF old.cred # None /\ ~Named(old, u.user) /\ s \in free /\ \A t \in free : s <= t
                                       THEN old ELSE planted[s]]
<1>0. p \in [Slots -> Entry] /\ \A s \in Slots : p[s] \in Entry
  BY DEF PoolOK
<1>1. Seeded(p, u) = IF Fresh(old) THEN p ELSE moved
  BY DEF Seeded
<1>2. /\ planted \in [Slots -> Entry] /\ planted[0].cred = u
      /\ \A s \in Slots \ {0} : planted[s].cred \in {None, p[s].cred} /\ planted[s].cred # u
  BY <1>0, EntryTypes, Numbers DEF Named
<1> HIDE DEF planted
<1>3. \A s \in free : s # 0
  BY <1>2
<1>4. \A s, t \in free : (\A r \in free : s <= r) /\ (\A r \in free : t <= r) => s = t
  BY Numbers
<1>5. \A s \in Slots \ {0} : old.cred # None => planted[s].cred # old.cred
  BY <1>2, Numbers DEF PoolOK, Single
<1>6. Single(planted) /\ Issued(planted, iss)
  BY <1>2 DEF PoolOK, Single, Issued
<1>7. moved \in [Slots -> Entry]
  BY <1>0, <1>2, Numbers
<1>8. \A s \in Slots : \/ moved[s] = planted[s]
                      \/ /\ moved[s] = old /\ old.cred \notin {None, u} /\ s \in free
                         /\ \A t \in free : s <= t
  BY DEF Named
<1> HIDE DEF moved, free
<1>9. Issued(moved, iss)
  BY <1>6, <1>8, Numbers DEF PoolOK, Issued
<1>10. Single(moved)
  <2> SUFFICES ASSUME NEW s \in Slots, NEW t \in Slots, s # t, moved[s].cred # None
               PROVE  moved[s].cred # moved[t].cred
    BY DEF Single
  <2>1. CASE moved[s] = planted[s] /\ moved[t] = planted[t]
    BY <1>6, <2>1 DEF Single
  <2>2. \A r \in Slots : old.cred \notin {None, u} => planted[r].cred # old.cred
    BY <1>2, <1>5
  <2>3. QED
    BY <1>4, <1>8, <2>1, <2>2
<1>11. QED
  BY <1>1, <1>7, <1>9, <1>10 DEF PoolOK

(* Time changes no credential. *)
LEMMA AgeKeeps ==
  ASSUME NEW iss
  PROVE  /\ \A p : PoolOK(p, iss) =>
              PoolOK([s \in Slots |-> [p[s] EXCEPT !.used = Older(@), !.wait = Less(@)]], iss)
         /\ \A f : DiskOK(f, iss) => DiskOK(AgedSnapshot(f), iss)
<1>1. ASSUME NEW p, PoolOK(p, iss)
      PROVE  PoolOK([s \in Slots |-> [p[s] EXCEPT !.used = Older(@), !.wait = Less(@)]], iss)
  <2>1. \A e \in Entry : /\ [e EXCEPT !.used = Older(@), !.wait = Less(@)] \in Entry
                         /\ [e EXCEPT !.used = Older(@), !.wait = Less(@)].cred = e.cred
    BY Ages DEF Entry
  <2>2. \A s \in Slots : p[s] \in Entry
    BY <1>1 DEF PoolOK
  <2>3. QED
    BY <1>1, <2>1, <2>2, ZenonT(30) DEF PoolOK, Single, Issued
<1>2. ASSUME NEW f, DiskOK(f, iss) PROVE DiskOK(AgedSnapshot(f), iss)
  <2>1. CASE f \in {NoFile, Torn}
    BY <2>1 DEF AgedSnapshot, DiskOK
  <2>2. CASE f \notin {NoFile, Torn}
    <3>1. f \in Snapshots /\ Single(f) /\ Issued(f, iss)
      BY <1>2, <2>2 DEF DiskOK, SnapOK
    <3>2. AgedSnapshot(f) = [s \in Slots |-> [f[s] EXCEPT !.used = Older(@)]]
      BY <2>2 DEF AgedSnapshot
    <3>3. \A s \in Slots : /\ [f[s] EXCEPT !.used = Older(@)] \in [cred : Creds \cup {None}, used : 0 .. Cooldown]
                           /\ [f[s] EXCEPT !.used = Older(@)].cred = f[s].cred
      BY <3>1, Ages DEF Snapshots
    <3>4. QED
      BY <3>1, <3>2, <3>3 DEF DiskOK, SnapOK, Snapshots, Single, Issued
  <2>3. QED
    BY <2>1, <2>2
<1>3. QED
  BY <1>1, <1>2

-----------------------------------------------------------------------------
(* The pool *)

(* What a fetch for slot s brings is in no other slot. *)
LEMMA ObtainedNew ==
  ASSUME TypeOK, ContentInv, CookieInv, NEW s \in Slots, NEW u \in Creds, Obtains(s, u)
  PROVE  /\ Known' = Known \cup {w \in Creds : w.user = u.user}
         /\ \A t \in Slots \ {s} : pool[t].cred # u
<1>0. issued' = issued \cup {u.user}
  <2>1. CASE cookieAuth /\ u.user = mint[CallOf[s]] /\ UNCHANGED <<mint, issued>>
    <3>1. CallOf[s] \in Calls /\ u.user \in Users
      BY DEF Users
    <3>2. u.user \in issued
      BY <2>1, <3>1, CredDiskAssumption DEF CookieInv
    <3>3. QED
      BY <2>1, <3>2
  <2>2. QED
    BY <2>1 DEF Obtains, CookieMinted, AnonymousMinted
<1>1. Known' = Known \cup {w \in Creds : w.user = u.user}
  BY <1>0 DEF Known
<1>2. ASSUME NEW t \in Slots \ {s}, pool[t].cred = u PROVE FALSE
  <2>1. u # None /\ u \in Known
    BY <1>2, CredDiskAssumption DEF ContentInv, PoolOK, Issued
  <2>2. cookieAuth /\ u.relay = s /\ u.user = mint[CallOf[s]]
    BY <2>1 DEF Obtains, CookieMinted, AnonymousMinted, Known
  <2>3. CallOf[s] \in Calls /\ u.user # None
    BY CredDiskAssumption DEF Users
  <2>4. u.relay = t
    BY <1>2, <2>1, <2>2, <2>3 DEF CookieInv, Named
  <2>5. QED
    BY <2>2, <2>4
<1>3. QED
  BY <1>1, <1>2

LEMMA PoolKept ==
  ASSUME TypeOK, ContentInv, CookieInv, [Next]_vars
  PROVE  PoolOK(pool', Known') /\ Known \subseteq Known'
<1>0. PoolOK(pool, Known) /\ pool \in [Slots -> Entry] /\ DiskOK(file, Known)
  BY DEF ContentInv, PoolOK
<1>1. ASSUME NEW s \in Slots, NEW u \in Creds, Fetched(s, u) \/ Filled(s, u)
      PROVE  PoolOK(pool', Known') /\ Known \subseteq Known'
  <2>1. PICK a \in BOOLEAN : pool' = [pool EXCEPT ![s] = New(u, a)]
    BY <1>1 DEF Fetched, Filled
  <2>2. Known \cup {u} \subseteq Known' /\ \A t \in Slots \ {s} : pool[t].cred # u
    <3>1. Obtains(s, u)
      BY <1>1 DEF Fetched, Filled
    <3>2. u \in {w \in Creds : w.user = u.user}
      OBVIOUS
    <3>3. QED
      BY <3>1, <3>2, ObtainedNew
  <2>3. New(u, a) \in Entry /\ New(u, a).cred = u
    BY EntryTypes
  <2>4. PoolOK(pool', Known \cup {u})
    BY <1>0, <2>1, <2>2, <2>3, PutKeeps
  <2>5. QED
    BY <2>2, <2>4, Monotone
<1>2. ASSUME NEW s \in Slots, Acquired(s) \/ Released(s)
      PROVE  PoolOK(pool', Known') /\ Known \subseteq Known'
  <2>1. pool[s] \in Entry /\ Known' = Known
    BY <1>0, <1>2 DEF Acquired, Released, vkVars, Known
  <2>2. PICK e \in Entry : pool' = [pool EXCEPT ![s] = e] /\ e.cred = pool[s].cred
    <3>1. CASE Acquired(s)
      <4>1. pool' = [pool EXCEPT ![s] = [pool[s] EXCEPT !.active = TRUE]]
        BY <1>0, <3>1 DEF Acquired
      <4>2. QED
        BY <2>1, <4>1, EntryTypes
    <3>2. CASE Released(s)
      <4>1. pool' = [pool EXCEPT ![s] = [pool[s] EXCEPT !.active = FALSE, !.used = 0]]
        BY <1>0, <3>2 DEF Released
      <4>2. \A e \in Entry : /\ [e EXCEPT !.active = FALSE, !.used = 0] \in Entry
                             /\ [e EXCEPT !.active = FALSE, !.used = 0].cred = e.cred
        BY Numbers DEF Entry
      <4>3. QED
        BY <2>1, <4>1, <4>2
    <3>3. QED
      BY <1>2, <3>1, <3>2
  <2>3. PoolOK(pool', Known \cup {e.cred})
    <3>1. \A t \in Slots \ {s} : e.cred # None => pool[t].cred # e.cred
      BY <1>0, <2>2 DEF PoolOK, Single
    <3>2. QED
      BY <1>0, <2>2, <3>1, PutKeeps
  <2>4. e.cred \in Known \cup {None}
    BY <1>0, <2>2 DEF PoolOK, Issued
  <2>5. QED
    BY <2>1, <2>3, <2>4 DEF PoolOK, Issued
<1>3. ASSUME NEW s \in Slots, Rejected(s) PROVE PoolOK(pool', Known') /\ Known \subseteq Known'
  <2>1. pool' = [pool EXCEPT ![s] = Empty] /\ Known' = Known
    BY <1>3 DEF Rejected, vkVars, Known
  <2>2. PoolOK(pool', Known \cup {Empty.cred})
    BY <1>0, <2>1, EntryTypes, PutKeeps
  <2>3. QED
    BY <2>1, <2>2, EntryTypes DEF PoolOK, Issued
<1>4. CASE Wiped \/ Dies
  BY <1>4, EmptyPool DEF Wiped, Dies, vkVars, Known
<1>5. ASSUME NEW x \in SUBSET OnFile, Starts(x) PROVE PoolOK(pool', Known') /\ Known \subseteq Known'
  <2>1. PoolOK([s \in Slots |-> Loaded(s, x)], Known) /\ Known' = Known
    BY <1>0, <1>5, LoadKeeps DEF Starts, vkVars, Known
  <2>2. CASE seed = None
    BY <1>5, <2>1, <2>2 DEF Starts
  <2>3. CASE seed # None
    <3>1. seed \in Creds /\ seed \in Known
      BY <2>3 DEF TypeOK, ContentInv
    <3>2. pool' = Seeded([s \in Slots |-> Loaded(s, x)], seed)
      BY <1>5, <2>3 DEF Starts
    <3>3. QED
      BY <2>1, <3>1, <3>2, SeedKeeps
  <2>4. QED
    BY <2>2, <2>3
<1>6. CASE Tick
  BY <1>0, <1>6, AgeKeeps DEF Tick, Known
<1>7. ASSUME NEW u \in Creds, AppProbes(u) PROVE PoolOK(pool', Known') /\ Known \subseteq Known'
  <2>1. pool' = pool /\ Known \subseteq Known'
    BY <1>7 DEF AppProbes, Known
  <2>2. QED
    BY <1>0, <2>1, Monotone
<1>8. CASE PeriodicSave \/ FinalSave \/ AppReads \/ (\E v \in Savers : saveToDisk(v)) \/ UNCHANGED vars
  <2>1. pool' = pool /\ Known' = Known
    BY <1>8 DEF PeriodicSave, FinalSave, AppReads, saveToDisk, SaveSnapshots, SaveLocks, SaveWrites,
       SaveRenames, SaveFails, vars, vkVars, Known
  <2>2. QED
    BY <1>0, <2>1
<1>9. QED
  BY <1>1, <1>2, <1>3, <1>4, <1>5, <1>6, <1>7, <1>8 DEF Next

-----------------------------------------------------------------------------
(* The goroutines that save, and the two files *)

DiskInv == saver \in [Savers -> SaverType] /\ FileInv /\ ContentInv

(* What a step does to savers and files must keep. *)
DiskGoal ==
  /\ saver' \in [Savers -> SaverType]
  /\ FileInv'
  /\ \A v \in Savers : SnapOK(saver'[v].snap, Known')
  /\ DiskOK(file', Known') /\ DiskOK(tmp', Known')

LEMMA SaveCalled ==
  ASSUME DiskInv, Saves
  PROVE  /\ saver' \in [Savers -> SaverType]
         /\ \A v \in Savers : saver'[v].snap = saver[v].snap
         /\ \A v \in Savers : saver'[v].pc # saver[v].pc => saver[v].pc = "idle" /\ saver'[v].pc = "called"
<1>1. PICK v \in Savers : saver[v].pc = "idle" /\ saver' = [saver EXCEPT ![v].pc = "called"]
  BY DEF Saves
<1>2. QED
  BY <1>1 DEF DiskInv, SaverType

(* The steps outside of saveToDisk leave the files alone or let them age. *)
LEMMA DiskOthers ==
  ASSUME DiskInv, Known \subseteq Known', UNCHANGED diskVars, Saves \/ UNCHANGED saver
  PROVE  DiskGoal
<1>1. /\ saver' \in [Savers -> SaverType]
      /\ \A v \in Savers : saver'[v].snap = saver[v].snap
      /\ \A v \in Savers : saver'[v].pc # saver[v].pc => saver[v].pc = "idle" /\ saver'[v].pc = "called"
  BY SaveCalled DEF DiskInv
<1>2. FileInv'
  BY <1>1 DEF FileInv, DiskInv, Writing, diskVars
<1>3. QED
  BY <1>1, <1>2, Monotone DEF DiskGoal, DiskInv, ContentInv, diskVars

LEMMA DiskSaves ==
  ASSUME DiskInv, NEW v \in Savers, saveToDisk(v)
  PROVE  DiskGoal
<1>0. saver \in [Savers -> SaverType] /\ saver[v] \in SaverType /\ Known' = Known
  BY DEF DiskInv, saveToDisk, SaveSnapshots, SaveLocks, SaveWrites, SaveRenames, SaveFails, vkVars, Known
<1>1. CASE SaveSnapshots(v)
  <2>1. SnapOK([s \in Slots |-> Stamp(pool[s])], Known)
    BY SnapshotTaken DEF DiskInv, ContentInv
  <2>2. /\ saver[v].pc = "called" /\ UNCHANGED <<file, tmp>>
        /\ saver' = [saver EXCEPT ![v] = [pc |-> "ready", snap |-> [s \in Slots |-> Stamp(pool[s])]]]
    BY <1>1 DEF SaveSnapshots, diskVars
  <2>3. [pc |-> "ready", snap |-> [s \in Slots |-> Stamp(pool[s])]] \in SaverType
    BY <2>1 DEF SaverType, SnapOK
  <2>4. /\ saver' \in [Savers -> SaverType]
        /\ saver'[v].pc = "ready" /\ saver'[v].snap = [s \in Slots |-> Stamp(pool[s])]
        /\ \A w \in Savers \ {v} : saver'[w] = saver[w]
    BY <1>0, <2>2, <2>3
  <2>5. FileInv'
    BY <2>2, <2>4 DEF DiskInv, FileInv, Writing
  <2>6. QED
    BY <1>0, <2>1, <2>2, <2>4, <2>5 DEF DiskGoal, DiskInv, ContentInv
<1>2. CASE SaveLocks(v)
  <2>1. /\ \A w \in Savers : ~Writing(w)
        /\ tmp' = Torn /\ file' = file
        /\ saver' = [saver EXCEPT ![v].pc = "write"]
    BY <1>2 DEF SaveLocks, Writing
  <2>2. /\ saver' \in [Savers -> SaverType]
        /\ saver'[v].pc = "write" /\ saver'[v].snap = saver[v].snap
        /\ \A w \in Savers \ {v} : saver'[w] = saver[w]
    BY <1>0, <2>1 DEF SaverType
  <2>3. FileInv'
    BY <2>1, <2>2 DEF DiskInv, FileInv, Writing
  <2>4. QED
    BY <1>0, <2>1, <2>2, <2>3 DEF DiskGoal, DiskInv, ContentInv, DiskOK
<1>3. CASE SaveWrites(v)
  <2>1. /\ saver[v].pc = "write" /\ tmp' = saver[v].snap /\ file' = file
        /\ saver' = [saver EXCEPT ![v].pc = "rename"]
    BY <1>3 DEF SaveWrites
  <2>2. /\ saver' \in [Savers -> SaverType]
        /\ saver'[v].pc = "rename" /\ saver'[v].snap = saver[v].snap
        /\ \A w \in Savers \ {v} : saver'[w] = saver[w]
    BY <1>0, <2>1 DEF SaverType
  <2>3. SnapOK(tmp', Known) /\ tmp' # Torn
    BY <2>1, FileAssumption DEF DiskInv, ContentInv, SnapOK
  <2>4. FileInv'
    BY <2>1, <2>2, <2>3 DEF DiskInv, FileInv, Writing
  <2>5. QED
    BY <1>0, <2>1, <2>2, <2>3, <2>4 DEF DiskGoal, DiskInv, ContentInv, DiskOK
<1>4. CASE SaveRenames(v) \/ SaveFails(v)
  <2>1. /\ saver' = [saver EXCEPT ![v] = [pc |-> "idle", snap |-> NoSnapshot]] /\ Writing(v)
        /\ tmp' \in {tmp, NoFile}
        /\ file' = file \/ (file' = tmp /\ saver[v].pc = "rename")
    BY <1>4 DEF SaveRenames, SaveFails, SaveEnds, Writing
  <2>2. [pc |-> "idle", snap |-> NoSnapshot] \in SaverType
    BY EmptySnapshot DEF SaverType, SnapOK
  <2>3. /\ saver' \in [Savers -> SaverType]
        /\ saver'[v].pc = "idle" /\ saver'[v].snap = NoSnapshot
        /\ \A w \in Savers \ {v} : saver'[w] = saver[w]
    BY <1>0, <2>1, <2>2
  <2>4. file' # Torn
    BY <2>1 DEF DiskInv, FileInv
  <2>5. \A w \in Savers : ~Writing(w)'
    BY <2>1, <2>3 DEF DiskInv, FileInv, Writing
  <2>6. FileInv'
    BY <2>4, <2>5 DEF FileInv, Writing
  <2>7. DiskOK(file', Known) /\ DiskOK(tmp', Known)
    BY <2>1 DEF DiskInv, ContentInv, DiskOK
  <2>8. QED
    BY <1>0, <2>3, <2>6, <2>7, EmptySnapshot DEF DiskGoal, DiskInv, ContentInv
<1>5. QED
  BY <1>1, <1>2, <1>3, <1>4 DEF saveToDisk

LEMMA DiskKept ==
  ASSUME DiskInv, [Next]_vars, Known \subseteq Known'
  PROVE  DiskGoal
<1>1. ASSUME NEW v \in Savers, saveToDisk(v) PROVE DiskGoal
  BY <1>1, DiskSaves
<1>2. CASE Dies
  <2>1. /\ saver' = [v \in Savers |-> [pc |-> "idle", snap |-> NoSnapshot]]
        /\ tmp' = NoFile /\ file' = file /\ Known' = Known
    BY <1>2 DEF Dies, Known
  <2>2. [pc |-> "idle", snap |-> NoSnapshot] \in SaverType
    BY EmptySnapshot DEF SaverType, SnapOK
  <2>3. saver' \in [Savers -> SaverType] /\ \A v \in Savers : saver'[v].pc = "idle" /\ saver'[v].snap = NoSnapshot
    BY <2>1, <2>2
  <2>4. FileInv'
    BY <2>1, <2>3 DEF DiskInv, FileInv, Writing
  <2>5. QED
    BY <2>1, <2>3, <2>4, EmptySnapshot DEF DiskGoal, DiskInv, ContentInv, DiskOK
<1>3. CASE Tick
  <2>1. /\ saver' = saver /\ file' = AgedSnapshot(file) /\ tmp' = AgedSnapshot(tmp) /\ Known' = Known
        /\ \A v \in Savers : saver[v].pc = "idle"
    BY <1>3 DEF Tick, Known
  <2>2. DiskOK(file', Known) /\ DiskOK(tmp', Known)
    BY <2>1, AgeKeeps DEF DiskInv, ContentInv
  <2>3. file' # Torn
    <3>1. CASE file = NoFile
      BY <2>1, <3>1 DEF AgedSnapshot
    <3>2. CASE file \in Snapshots
      <4>1. SnapOK(file, Known) \/ file \in {NoFile, Torn}
        BY DEF DiskInv, ContentInv, DiskOK
      <4>2. file \notin {NoFile, Torn}
        BY <3>2, FileAssumption
      <4>3. AgedSnapshot(file) \in Snapshots
        <5>1. AgedSnapshot(file) = [s \in Slots |-> [file[s] EXCEPT !.used = Older(@)]]
          BY <4>2 DEF AgedSnapshot
        <5>2. ASSUME NEW s \in Slots
              PROVE  [file[s] EXCEPT !.used = Older(@)] \in [cred : Creds \cup {None}, used : 0 .. Cooldown]
          <6>1. file[s] \in [cred : Creds \cup {None}, used : 0 .. Cooldown]
            BY <3>2 DEF Snapshots
          <6>2. Older(file[s].used) \in 0 .. Cooldown
            BY <6>1, Ages
          <6>3. QED
            BY <6>1, <6>2
        <5>3. QED
          BY <5>1, <5>2 DEF Snapshots
      <4>4. QED
        BY <2>1, <4>3, FileAssumption
    <3>3. QED
      BY <3>1, <3>2 DEF DiskInv, FileInv, ContentInv, DiskOK, SnapOK
  <2>4. FileInv'
    BY <2>1, <2>3 DEF FileInv, Writing
  <2>5. QED
    BY <2>1, <2>2, <2>4 DEF DiskGoal, DiskInv, ContentInv
<1>4. ASSUME UNCHANGED diskVars, Saves \/ UNCHANGED saver PROVE DiskGoal
  BY <1>4, DiskOthers
<1>5. QED
  BY <1>1, <1>2, <1>3, <1>4 DEF Next, Fetched, Filled, Acquired, Released, Rejected, Wiped, PeriodicSave,
     FinalSave, AppReads, AppProbes, Starts, vars

LEMMA SeedKept ==
  ASSUME TypeOK, ContentInv, [Next]_vars, Known \subseteq Known'
  PROVE  seed' \in Known' \cup {None}
<1>0. seed \in Known \cup {None}
  BY DEF ContentInv
<1>1. CASE AppReads
  <2>1. PICK s \in Slots : Readable /\ file[s].cred # None /\ seed' = file[s].cred
    BY <1>1 DEF AppReads
  <2>2. Issued(file, Known)
    BY <2>1 DEF Readable, ContentInv, DiskOK, SnapOK
  <2>3. QED
    BY <2>1, <2>2 DEF Issued
<1>2. ASSUME NEW u \in Creds, AppProbes(u) PROVE seed' \in Known' \cup {None}
  BY <1>2 DEF AppProbes, Known
<1>3. ASSUME NEW x \in SUBSET OnFile, Starts(x) PROVE seed' \in Known' \cup {None}
  BY <1>3 DEF Starts
<1>4. CASE seed' = seed
  BY <1>0, <1>4
<1>5. QED
  BY <1>1, <1>2, <1>3, <1>4 DEF Next, Fetched, Filled, Acquired, Released, Rejected, Wiped, PeriodicSave,
     FinalSave, saveToDisk, SaveSnapshots, SaveLocks, SaveWrites, SaveRenames, SaveFails, Dies, Tick, vars

-----------------------------------------------------------------------------
(* The types of the rest *)

RestType ==
  /\ process \in {"up", "stopping", "down"}
  /\ due \in BOOLEAN
  /\ cookieAuth \in BOOLEAN /\ mint \in [Calls -> Users \cup {None}]
  /\ issued \in SUBSET Users
  /\ alloc \in [Creds -> 0 .. Cooldown]
  /\ stretch \in [Creds -> 0 .. 2]
  /\ usedHere \in SUBSET Creds /\ dropped \in SUBSET Creds /\ gone \in SUBSET Creds
  /\ diskFailed \in BOOLEAN

LEMMA UseKeeps ==
  ASSUME RestType, NEW u \in Creds, Uses(u)
  PROVE  /\ alloc' \in [Creds -> 0 .. Cooldown] /\ stretch' \in [Creds -> 0 .. 2]
         /\ usedHere' \in SUBSET Creds
BY Numbers DEF RestType, Uses

LEMMA ObtainKeeps ==
  ASSUME RestType, NEW s \in Slots, NEW u \in Creds, Obtains(s, u)
  PROVE  /\ mint' \in [Calls -> Users \cup {None}] /\ issued' \in SUBSET Users
         /\ dropped' \in SUBSET Creds /\ gone' \in SUBSET Creds
BY DEF RestType, Obtains, CookieMinted, AnonymousMinted, Users

LEMMA RestKept ==
  ASSUME TypeOK, [Next]_vars
  PROVE  RestType'
<1>0. RestType /\ pool \in [Slots -> Entry]
  BY DEF TypeOK, RestType
<1>a. \A s \in Slots : pool[s].cred \in Creds \cup {None}
  BY <1>0 DEF Entry
<1> USE DEF diskVars, cookieVars, vkVars, history
<1>1. ASSUME NEW s \in Slots, NEW u \in Creds, Fetched(s, u) PROVE RestType'
  <2>1. UNCHANGED <<process, due, cookieAuth, diskFailed>> /\ Obtains(s, u) /\ Uses(u)
    BY <1>1 DEF Fetched
  <2>2. QED
    BY <1>0, <2>1, UseKeeps, ObtainKeeps DEF RestType
<1>2. ASSUME NEW s \in Slots, NEW u \in Creds, Filled(s, u) PROVE RestType'
  <2>1. UNCHANGED <<process, due, cookieAuth, alloc, usedHere, diskFailed>> /\ Obtains(s, u)
        /\ stretch' \in [Creds -> 0 .. 2]
    BY <1>0, <1>2 DEF RestType, Filled
  <2>2. QED
    BY <1>0, <2>1, ObtainKeeps DEF RestType
<1>3. ASSUME NEW s \in Slots, Acquired(s) PROVE RestType'
  <2>1. UNCHANGED <<process, due, issued, cookieVars, dropped, gone, diskFailed>>
    BY <1>3 DEF Acquired
  <2>2. Uses(pool[s].cred) /\ pool[s].cred \in Creds
    BY <1>a, <1>3 DEF Acquired, Fresh
  <2>3. QED
    BY <1>0, <2>1, <2>2, UseKeeps DEF RestType
<1>4. ASSUME NEW s \in Slots, Released(s) PROVE RestType'
  BY <1>0, <1>4 DEF RestType, Released
<1>5. ASSUME NEW s \in Slots, Rejected(s) PROVE RestType'
  BY <1>0, <1>a, <1>5 DEF RestType, Rejected
<1>6. CASE Wiped
  BY <1>0, <1>a, <1>6 DEF RestType, Wiped
<1>7. CASE PeriodicSave
  <2>1. due' \in BOOLEAN /\ UNCHANGED <<process, issued, cookieVars, alloc, stretch, usedHere, dropped, gone, diskFailed>>
    BY <1>7 DEF PeriodicSave
  <2>2. QED
    BY <1>0, <2>1 DEF RestType
<1>8. CASE FinalSave
  BY <1>0, <1>8 DEF RestType, FinalSave
<1>9. ASSUME NEW v \in Savers, saveToDisk(v) PROVE RestType'
  <2>1. /\ diskFailed' \in BOOLEAN
        /\ UNCHANGED <<process, due, issued, cookieVars, alloc, stretch, usedHere, dropped, gone>>
    BY <1>0, <1>9 DEF RestType, saveToDisk, SaveSnapshots, SaveLocks, SaveWrites, SaveRenames, SaveFails
  <2>2. QED
    BY <1>0, <2>1 DEF RestType
<1>10. CASE Dies
  <2>1. due' \in BOOLEAN /\ process' = "down" /\ usedHere' = {} /\ dropped' = {} /\ gone' = {}
        /\ mint' = NoMint /\ UNCHANGED <<issued, cookieAuth, alloc, stretch, diskFailed>>
    BY <1>10 DEF Dies
  <2>2. QED
    BY <1>0, <2>1 DEF RestType, NoMint
<1>11. CASE AppReads
  BY <1>0, <1>11 DEF RestType, AppReads
<1>12. ASSUME NEW u \in Creds, AppProbes(u) PROVE RestType'
  <2>1. /\ issued' = issued \cup {u.user} /\ u.user \in Users
        /\ UNCHANGED <<process, due, cookieVars, alloc, stretch, usedHere, dropped, gone, diskFailed>>
    BY <1>12 DEF AppProbes, Users
  <2>2. QED
    BY <1>0, <2>1 DEF RestType
<1>13. ASSUME NEW x \in SUBSET OnFile, Starts(x) PROVE RestType'
  BY <1>0, <1>13 DEF RestType, Starts
<1>14. CASE Tick
  <2>1. alloc' \in [Creds -> 0 .. Cooldown]
    BY <1>0, <1>14, Ages DEF RestType, Tick
  <2>2. stretch' \in [Creds -> 0 .. 2]
    <3>1. \A u \in Creds : (CASE InUse(u) /\ stretch[u] < 2 -> stretch[u] + 1
                              [] ~InUse(u) /\ alloc[u] <= 1 -> 0
                              [] OTHER -> stretch[u]) \in 0 .. 2
      BY <1>0 DEF RestType
    <3>2. QED
      BY <1>14, <3>1 DEF Tick
  <2>3. due' \in BOOLEAN /\ gone' \in SUBSET Creds /\ dropped' \in SUBSET Creds
        /\ UNCHANGED <<process, issued, cookieVars, usedHere, diskFailed>>
    BY <1>0, <1>14 DEF RestType, Tick
  <2>4. QED
    BY <1>0, <2>1, <2>2, <2>3 DEF RestType
<1>15. CASE UNCHANGED vars
  BY <1>0, <1>15 DEF RestType, vars
<1>16. QED
  BY <1>1, <1>2, <1>3, <1>4, <1>5, <1>6, <1>7, <1>8, <1>9, <1>10, <1>11, <1>12, <1>13, <1>14, <1>15 DEF Next

-----------------------------------------------------------------------------
(* Types and credentials *)

(* Every new mint has a name no slot holds. *)
LEMMA CookieKept ==
  ASSUME TypeOK, ContentInv, CookieInv, [Next]_vars
  PROVE  CookieInv'
<1>0. /\ pool \in [Slots -> Entry] /\ mint \in [Calls -> Users \cup {None}]
      /\ None \notin Users /\ None \notin Creds
      /\ \A s \in Slots : pool[s].cred \in Known \cup {None}
  BY CredDiskAssumption DEF TypeOK, ContentInv, PoolOK, Issued
<1> USE DEF cookieVars, vkVars
<1>1. ASSUME NEW s \in Slots, NEW u \in Creds, Obtains(s, u), process' = process, process = "up",
             NEW a \in BOOLEAN, pool' = [pool EXCEPT ![s] = New(u, a)]
      PROVE  CookieInv'
  <2>1. /\ pool'[s].cred = u /\ \A t \in Slots \ {s} : pool'[t] = pool[t]
        /\ u.user \in Users /\ CallOf[s] \in Calls
    BY <1>0, <1>1, CredDiskAssumption DEF New, Users
  <2>2. CASE cookieAuth /\ u.relay = s /\ u.user = mint[CallOf[s]] /\ UNCHANGED <<mint, issued>>
    BY <1>1, <2>1, <2>2 DEF CookieInv, Named
  <2>3. CASE /\ cookieAuth /\ u.relay = s /\ u.user \notin issued /\ issued' = issued \cup {u.user}
             /\ mint' = [mint EXCEPT ![CallOf[s]] = u.user]
    <3>1. \A c \in Calls : mint'[c] = IF c = CallOf[s] THEN u.user ELSE mint[c]
      BY <1>0, <2>1, <2>3
    <3>2. \A t \in Slots : ~Named(pool[t], u.user)
      BY <1>0, <2>3 DEF Named, Known
    <3>3. QED
      BY <1>1, <2>1, <2>3, <3>1, <3>2 DEF CookieInv, Named
  <2>4. CASE u.user \notin issued /\ issued' = issued \cup {u.user} /\ UNCHANGED mint
    BY <1>1, <2>1, <2>4 DEF CookieInv, Named
  <2>5. QED
    BY <1>1, <2>2, <2>3, <2>4 DEF Obtains, CookieMinted, AnonymousMinted
<1>2. ASSUME NEW s \in Slots, NEW u \in Creds, Fetched(s, u) \/ Filled(s, u) PROVE CookieInv'
  BY <1>1, <1>2 DEF Fetched, Filled
<1>3. ASSUME UNCHANGED <<mint, issued>>, process' # "down" \/ process = "down",
             \A s \in Slots : pool'[s].cred \in {None, pool[s].cred}
      PROVE  CookieInv'
  BY <1>3 DEF CookieInv, Named
<1>4. ASSUME NEW s \in Slots, Acquired(s) \/ Released(s) \/ Rejected(s) PROVE CookieInv'
  <2>1. \A t \in Slots : pool'[t].cred \in {None, pool[t].cred}
    <3>1. pool[s] \in Entry
      BY <1>0
    <3>2. PICK e : pool' = [pool EXCEPT ![s] = e] /\ e.cred \in {None, pool[s].cred}
      <4>1. CASE Acquired(s)
        <5>1. pool' = [pool EXCEPT ![s] = [pool[s] EXCEPT !.active = TRUE]]
          BY <1>0, <4>1 DEF Acquired
        <5>2. QED
          BY <3>1, <5>1, EntryTypes
      <4>2. CASE Released(s)
        <5>1. pool' = [pool EXCEPT ![s] = [pool[s] EXCEPT !.active = FALSE, !.used = 0]]
          BY <1>0, <4>2 DEF Released
        <5>2. [pool[s] EXCEPT !.active = FALSE, !.used = 0].cred = pool[s].cred
          BY <3>1 DEF Entry
        <5>3. QED
          BY <5>1, <5>2
      <4>3. CASE Rejected(s)
        BY <4>3, EntryTypes DEF Rejected
      <4>4. QED
        BY <1>4, <4>1, <4>2, <4>3
    <3>3. QED
      BY <1>0, <3>2
  <2>2. UNCHANGED <<mint, issued, process>>
    BY <1>4 DEF Acquired, Released, Rejected
  <2>3. QED
    BY <1>3, <2>1, <2>2
<1>5. CASE Wiped
  <2>1. UNCHANGED <<mint, issued, process>> /\ \A t \in Slots : pool'[t].cred = None
    BY <1>5, EntryTypes DEF Wiped
  <2>2. QED
    BY <1>3, <2>1
<1>6. CASE Dies \/ \E x \in SUBSET OnFile : Starts(x)
  <2>1. mint' = NoMint /\ UNCHANGED issued
    BY <1>6 DEF Dies, Starts, CookieInv
  <2>2. QED
    BY <2>1 DEF CookieInv, NoMint
<1>7. CASE PeriodicSave \/ FinalSave \/ AppReads \/ (\E v \in Savers : saveToDisk(v)) \/ UNCHANGED vars
  <2>1. UNCHANGED <<mint, issued, pool>> /\ (process' # "down" \/ process = "down")
    BY <1>7 DEF PeriodicSave, FinalSave, AppReads, saveToDisk, SaveSnapshots, SaveLocks, SaveWrites, SaveRenames,
       SaveFails, vars
  <2>2. QED
    BY <1>3, <2>1
<1>8. ASSUME NEW u \in Creds, AppProbes(u) PROVE CookieInv'
  BY <1>8 DEF AppProbes, CookieInv, Named
<1>9. CASE Tick
  <2>1. UNCHANGED <<mint, issued, process>> /\ \A s \in Slots : pool'[s].cred = pool[s].cred
    BY <1>0, <1>9 DEF Tick, Entry
  <2>2. QED
    BY <1>3, <2>1
<1>10. QED
  BY <1>2, <1>4, <1>5, <1>6, <1>7, <1>8, <1>9 DEF Next

IInv == TypeOK /\ FileInv /\ ContentInv /\ CookieInv

LEMMA IInvInit == Init => IInv
<1> SUFFICES ASSUME Init PROVE IInv
  OBVIOUS
<1>1. RestType
  <2>1. due \in BOOLEAN /\ diskFailed \in BOOLEAN
    BY DEF Init
  <2>2. QED
    BY <2>1, Numbers DEF Init, RestType, NoMint
<1>2. PoolOK(pool, Known)
  BY EmptyPool DEF Init
<1>3. saver \in [Savers -> SaverType] /\ \A v \in Savers : saver[v].pc = "idle" /\ saver[v].snap = NoSnapshot
  <2>1. [pc |-> "idle", snap |-> NoSnapshot] \in SaverType
    BY EmptySnapshot DEF SaverType, SnapOK
  <2>2. QED
    BY <2>1 DEF Init
<1>4. FileInv
  BY <1>3 DEF Init, FileInv, Writing
<1>5. ContentInv
  BY <1>2, <1>3, EmptySnapshot DEF Init, ContentInv, DiskOK
<1>6. TypeOK
  BY <1>1, <1>2, <1>3 DEF Init, TypeOK, RestType, PoolOK, SaverType
<1>7. CookieInv
  BY DEF Init, CookieInv, NoMint
<1>8. QED
  BY <1>4, <1>5, <1>6, <1>7 DEF IInv

LEMMA IInvKept == IInv /\ [Next]_vars => IInv'
<1> SUFFICES ASSUME IInv, [Next]_vars PROVE IInv'
  OBVIOUS
<1>1. TypeOK /\ ContentInv /\ CookieInv /\ DiskInv
  BY DEF IInv, DiskInv, TypeOK, SaverType
<1>2. PoolOK(pool', Known') /\ Known \subseteq Known'
  BY <1>1, PoolKept
<1>3. DiskGoal
  BY <1>1, <1>2, DiskKept
<1>4. seed' \in Known' \cup {None}
  BY <1>1, <1>2, SeedKept
<1>5. RestType'
  BY <1>1, RestKept
<1>6. ContentInv' /\ FileInv'
  BY <1>2, <1>3, <1>4 DEF ContentInv, DiskGoal
<1>7. TypeOK'
  <2>1. pool' \in [Slots -> Entry]
    BY <1>2 DEF PoolOK
  <2>2. file' \in Snapshots \cup {NoFile, Torn} /\ tmp' \in Snapshots \cup {NoFile, Torn}
    BY <1>3 DEF DiskGoal, DiskOK, SnapOK
  <2>3. saver' \in [Savers -> [pc : {"idle", "called", "ready", "write", "rename"}, snap : Snapshots]]
    BY <1>3 DEF DiskGoal, SaverType
  <2>4. seed' \in Creds \cup {None}
    BY <1>4 DEF Known
  <2>5. QED
    BY <1>5, <2>1, <2>2, <2>3, <2>4 DEF TypeOK, RestType
<1>8. CookieInv'
  BY <1>1, CookieKept
<1>9. QED
  BY <1>6, <1>7, <1>8 DEF IInv

LEMMA IInvAlways == Spec => []IInv
BY IInvInit, IInvKept, PTL DEF Spec

-----------------------------------------------------------------------------
(* Time.  After a quiet interval, one whose saves are over and none failed,   *)
(* the file is a snapshot taken since the last tick: it has none of the       *)
(* credentials that were gone by then, and stamps those in use.  Older stamps *)
(* are older than the last use by at most the interval the tick ends.         *)

Quiet == ~due /\ (\A v \in Savers : saver[v].pc = "idle") /\ ~diskFailed

ProcessInv ==
  /\ process = "down" => /\ \A s \in Slots : pool[s].cred = None
                         /\ \A v \in Savers : saver[v].pc = "idle"
                         /\ gone = {} /\ dropped = {}
  /\ seed # None => process # "up"
  /\ \A v \in Savers : saver[v].pc \in {"idle", "called"} => saver[v].snap = NoSnapshot
  /\ \A v \in Savers : saver[v].pc = "rename" => tmp = saver[v].snap

(* What a process threw away is not found again, but in a file still to be    *)
(* replaced.                                                                  *)
ForgetInv ==
  /\ gone \cup dropped \subseteq Known
  /\ \A u \in gone \cup dropped, s \in Slots : pool[s].cred # u
  /\ \A u \in gone, v \in Savers, s \in Slots : saver[v].snap[s].cred # u
  /\ Quiet /\ process = "up" => \A u \in gone : u \notin OnFile

UseInv ==
  /\ \A u \in Creds : InUse(u) => u \in usedHere /\ alloc[u] = Cooldown
  /\ \A u \in Creds \ Known : stretch[u] = 0

(* A credential in use since the last tick is stamped in every snapshot taken *)
(* since.                                                                     *)
StampInv ==
  \A u \in Creds, s \in Slots : InUse(u) /\ stretch[u] >= 1 =>
    /\ \A v \in Savers : saver[v].snap[s].cred = u => saver[v].snap[s].used = 0
    /\ Quiet /\ Readable /\ file[s].cred = u => file[s].used = 0

(* Whoever takes u for used a intervals ago waits for its allocations, but    *)
(* for one interval.                                                          *)
Covers(u, a) == stretch[u] = 2 /\ ~diskFailed => a + alloc[u] <= Cooldown + 1

CoversNext(u, a) == stretch'[u] = 2 /\ ~diskFailed' => a + alloc'[u] <= Cooldown + 1

Covered(f) == \A s \in Slots : f[s].cred # None => Covers(f[s].cred, f[s].used)

AgeInv ==
  /\ \A s \in Slots : pool[s].cred # None =>
       /\ ~pool[s].active => Covers(pool[s].cred, pool[s].used)
       /\ pool[s].cred \notin usedHere => Covers(pool[s].cred, Cooldown - pool[s].wait)
  /\ Readable => Covered(file)
  /\ \A v \in Savers : Covered(saver[v].snap)
  /\ seed # None => Covers(seed, Cooldown)

TimeInv == ProcessInv /\ ForgetInv /\ UseInv /\ StampInv /\ AgeInv

-----------------------------------------------------------------------------
(* What a step may do *)

LEMMA Fields ==
  ASSUME IInv
  PROVE  /\ \A s \in Slots : /\ pool[s] \in Entry
                             /\ pool[s].cred \in Creds \cup {None} /\ pool[s].active \in BOOLEAN
                             /\ pool[s].used \in 0 .. Cooldown /\ pool[s].wait \in 0 .. Cooldown
         /\ \A v \in Savers : saver[v] \in SaverType /\ saver[v].snap \in Snapshots
         /\ Readable => file \in Snapshots
         /\ \A u \in Creds : alloc[u] \in 0 .. Cooldown /\ stretch[u] \in 0 .. 2
<1>1. \A e \in Entry : /\ e.cred \in Creds \cup {None} /\ e.active \in BOOLEAN
                       /\ e.used \in 0 .. Cooldown /\ e.wait \in 0 .. Cooldown
  BY DEF Entry
<1>2. \A s \in Slots : pool[s] \in Entry
  BY DEF IInv, TypeOK
<1>3. \A v \in Savers : saver[v] \in SaverType /\ saver[v].snap \in Snapshots
  BY DEF IInv, TypeOK, SaverType
<1>4. (Readable => file \in Snapshots) /\ \A u \in Creds : alloc[u] \in 0 .. Cooldown /\ stretch[u] \in 0 .. 2
  BY DEF IInv, TypeOK, Readable
<1>5. QED
  BY <1>1, <1>2, <1>3, <1>4

LEMMA SnapshotFields ==
  \A f \in Snapshots, s \in Slots : f[s].cred \in Creds \cup {None} /\ f[s].used \in 0 .. Cooldown
BY DEF Snapshots

LEMMA NoSnapshotEmpty == \A s \in Slots : NoSnapshot[s].cred = None
BY DEF NoSnapshot

LEMMA SaveStep ==
  ASSUME IInv, Saves
  PROVE  /\ \A v \in Savers : saver'[v].snap = saver[v].snap
         /\ \A v \in Savers : saver'[v].pc # saver[v].pc => saver[v].pc = "idle" /\ saver'[v].pc = "called"
         /\ \E v \in Savers : saver'[v].pc = "called"
<1>1. PICK v \in Savers : saver[v].pc = "idle" /\ saver' = [saver EXCEPT ![v].pc = "called"]
  BY DEF Saves
<1>2. saver \in [Savers -> SaverType]
  BY DEF IInv, TypeOK, SaverType
<1>3. QED
  BY <1>1, <1>2 DEF SaverType

(* A step that is not Tick uses a credential, or leaves it alone. *)
LEMMA UseStep ==
  ASSUME IInv, [Next]_vars, ~Tick, NEW u \in Creds
  PROVE  /\ \/ stretch'[u] = 0 /\ alloc'[u] = Cooldown /\ u \in usedHere' /\ u \in Known'
            \/ stretch'[u] \in {0, stretch[u]} /\ alloc'[u] = alloc[u]
         /\ \A a : Covers(u, a) => CoversNext(u, a)
         /\ diskFailed => diskFailed'
<1>0. IInv' /\ alloc \in [Creds -> 0 .. Cooldown] /\ stretch \in [Creds -> 0 .. 2]
  BY IInvKept DEF IInv, TypeOK
<1>1. diskFailed => diskFailed'
  BY DEF Next, Fetched, Filled, Acquired, Released, Rejected, Wiped, PeriodicSave, FinalSave, AppReads, AppProbes,
     Starts, Dies, saveToDisk, SaveSnapshots, SaveLocks, SaveWrites, SaveRenames, SaveFails, vars, vkVars, history
<1>2. \/ UNCHANGED <<stretch, alloc>>
      \/ UNCHANGED alloc /\ \E w \in Creds : stretch' = [stretch EXCEPT ![w] = 0]
      \/ \E w \in Creds : Uses(w) /\ w \in Known'
  <2>1. ASSUME NEW s \in Slots, Acquired(s) PROVE Uses(pool[s].cred) /\ pool[s].cred \in Creds /\ pool[s].cred \in Known'
    <3>1. pool[s].cred \in Creds
      BY <2>1, Fields DEF Acquired, Fresh
    <3>2. pool[s].cred \in Known /\ Known' = Known
      BY <2>1, <3>1, CredDiskAssumption DEF Acquired, IInv, ContentInv, PoolOK, Issued, Known
    <3>3. QED
      BY <2>1, <3>1, <3>2 DEF Acquired
  <2>2. ASSUME NEW s \in Slots, NEW w \in Creds, Fetched(s, w) PROVE Uses(w) /\ w \in Known'
    <3>1. Obtains(s, w) /\ Uses(w)
      BY <2>2 DEF Fetched
    <3>2. w \in Known'
      BY <3>1, ObtainedNew DEF IInv
    <3>3. QED
      BY <3>1, <3>2
  <2>3. ASSUME NEW s \in Slots, NEW w \in Creds, Filled(s, w)
        PROVE  UNCHANGED alloc /\ stretch' = [stretch EXCEPT ![w] = 0]
    BY <2>3 DEF Filled
  <2>4. QED
    BY <2>1, <2>2, <2>3 DEF Next, Released, Rejected, Wiped, PeriodicSave, FinalSave, AppReads, AppProbes,
     Starts, Dies, saveToDisk, SaveSnapshots, SaveLocks, SaveWrites, SaveRenames, SaveFails, vars, vkVars, history
<1>3. \/ stretch'[u] = 0 /\ alloc'[u] = Cooldown /\ u \in usedHere' /\ u \in Known'
      \/ stretch'[u] \in {0, stretch[u]} /\ alloc'[u] = alloc[u]
  BY <1>0, <1>2 DEF Uses
<1>4. \A a : Covers(u, a) => CoversNext(u, a)
  BY <1>1, <1>3 DEF Covers, CoversNext
<1>5. QED
  BY <1>1, <1>3, <1>4

(* What it leaves in a slot that is not empty. *)
PoolOutcome(s) ==
  \/ pool'[s] = pool[s] /\ usedHere \subseteq usedHere'
  \/ \E u \in Creds :
       /\ pool'[s] = New(u, TRUE) \/ pool'[s] = New(u, FALSE)
       /\ stretch'[u] = 0 /\ u \notin gone' \cup dropped'
       /\ pool'[s].active => Uses(u)
  \/ pool'[s] = [pool[s] EXCEPT !.active = TRUE] /\ Uses(pool[s].cred)
  \/ /\ pool[s].active
     /\ pool'[s] = [pool[s] EXCEPT !.active = FALSE, !.used = 0]
     /\ UNCHANGED <<usedHere, alloc>>
  \/ /\ process = "down" /\ process' = "up" /\ UNCHANGED <<stretch, alloc, diskFailed>>
     /\ \/ seed # None /\ pool'[s] = New(seed, FALSE)
        \/ \E t \in Slots : /\ Readable /\ file[t].cred # None
                            /\ pool'[s] = [cred |-> file[t].cred, active |-> FALSE,
                                           used |-> file[t].used, wait |-> Cooldown - file[t].used]

LEMMA StartStep ==
  ASSUME IInv, NEW x \in SUBSET OnFile, Starts(x), NEW s \in Slots, pool'[s].cred # None
  PROVE  PoolOutcome(s)
<1> DEFINE loaded == [t \in Slots |-> Loaded(t, x)]
<1>1. process = "down" /\ process' = "up" /\ UNCHANGED <<stretch, alloc, diskFailed>>
  BY DEF Starts, vkVars
<1>2. pool' = IF seed = None THEN loaded ELSE Seeded(loaded, seed)
  BY DEF Starts
<1>3. \A t \in Slots : loaded[t].cred # None =>
        /\ Readable /\ file[t].cred # None
        /\ loaded[t] = [cred |-> file[t].cred, active |-> FALSE,
                        used |-> file[t].used, wait |-> Cooldown - file[t].used]
  BY EntryTypes DEF Loaded
<1> HIDE DEF loaded
<1>4. CASE seed = None
  BY <1>1, <1>2, <1>3, <1>4 DEF PoolOutcome
<1>5. CASE seed # None
  <2>1. seed \in Creds
    BY <1>5 DEF IInv, TypeOK
  <2>2. Seeded(loaded, seed)[s] \in {loaded[s], New(seed, FALSE), Empty, loaded[0]}
    BY DEF Seeded
  <2>3. pool'[s] \in {loaded[s], loaded[0]} \/ pool'[s] = New(seed, FALSE)
    BY <1>2, <1>5, <2>2, EntryTypes
  <2>4. QED
    BY <1>1, <1>3, <1>5, <2>3, Numbers DEF PoolOutcome
<1>6. QED
  BY <1>4, <1>5

LEMMA PoolStep ==
  ASSUME IInv, [Next]_vars, ~Tick, NEW s \in Slots, pool'[s].cred # None
  PROVE  PoolOutcome(s)
<1>0. pool \in [Slots -> Entry]
  BY DEF IInv, TypeOK
<1>1. ASSUME NEW t \in Slots, NEW u \in Creds, Fetched(t, u) PROVE PoolOutcome(s)
  <2>1. pool' = [pool EXCEPT ![t] = New(u, TRUE)] /\ Obtains(t, u) /\ Uses(u)
    BY <1>1 DEF Fetched
  <2>2. pool'[s] = pool[s] \/ pool'[s] = New(u, TRUE)
    BY <1>0, <2>1
  <2>3. usedHere \subseteq usedHere' /\ stretch'[u] = 0 /\ u \notin gone' \cup dropped'
    BY <2>1 DEF Uses, Obtains, IInv, TypeOK
  <2>4. QED
    BY <2>1, <2>2, <2>3 DEF PoolOutcome
<1>2. ASSUME NEW t \in Slots, NEW u \in Creds, Filled(t, u) PROVE PoolOutcome(s)
  <2>1. /\ pool' = [pool EXCEPT ![t] = New(u, FALSE)] /\ Obtains(t, u)
        /\ stretch' = [stretch EXCEPT ![u] = 0] /\ usedHere' = usedHere
    BY <1>2 DEF Filled
  <2>2. pool'[s] = pool[s] \/ (pool'[s] = New(u, FALSE) /\ ~pool'[s].active)
    BY <1>0, <2>1 DEF New
  <2>3. stretch'[u] = 0 /\ u \notin gone' \cup dropped'
    BY <2>1 DEF Obtains, IInv, TypeOK
  <2>4. QED
    BY <2>1, <2>2, <2>3 DEF PoolOutcome
<1>3. ASSUME NEW t \in Slots, Acquired(t) PROVE PoolOutcome(s)
  <2>1. pool' = [pool EXCEPT ![t] = [pool[t] EXCEPT !.active = TRUE]] /\ Uses(pool[t].cred)
    BY <1>0, <1>3 DEF Acquired
  <2>2. QED
    BY <1>0, <2>1 DEF PoolOutcome, Uses
<1>4. ASSUME NEW t \in Slots, Released(t) PROVE PoolOutcome(s)
  <2>1. pool' = [pool EXCEPT ![t] = [pool[t] EXCEPT !.active = FALSE, !.used = 0]] /\ pool[t].active
        /\ UNCHANGED <<usedHere, alloc>>
    BY <1>0, <1>4 DEF Released, history, vkVars
  <2>2. QED
    BY <1>0, <2>1 DEF PoolOutcome
<1>5. ASSUME NEW t \in Slots, Rejected(t) PROVE PoolOutcome(s)
  BY <1>0, <1>5, EntryTypes DEF Rejected, PoolOutcome
<1>6. CASE Wiped \/ Dies
  BY <1>6, EntryTypes DEF Wiped, Dies
<1>7. ASSUME NEW x \in SUBSET OnFile, Starts(x) PROVE PoolOutcome(s)
  BY <1>7, StartStep
<1>8. CASE PeriodicSave \/ FinalSave \/ AppReads \/ (\E u \in Creds : AppProbes(u))
           \/ (\E v \in Savers : saveToDisk(v)) \/ UNCHANGED vars
  <2>1. pool' = pool /\ usedHere' = usedHere
    BY <1>8 DEF PeriodicSave, FinalSave, AppReads, AppProbes, saveToDisk, SaveSnapshots, SaveLocks, SaveWrites,
       SaveRenames, SaveFails, vars, history
  <2>2. QED
    BY <2>1 DEF PoolOutcome
<1>9. QED
  BY <1>1, <1>2, <1>3, <1>4, <1>5, <1>6, <1>7, <1>8 DEF Next

(* What it leaves of the snapshots and of the file. *)
SnapOutcome(v) ==
  \/ saver'[v].snap \in {saver[v].snap, NoSnapshot}
  \/ saver'[v].snap = [s \in Slots |-> Stamp(pool[s])] /\ UNCHANGED <<pool, stretch, alloc, gone>>

FileOutcome ==
  \/ file' = file /\ (Quiet' => Quiet \/ process' = "down")
  \/ \E v \in Savers : file' = saver[v].snap /\ UNCHANGED <<pool, stretch, alloc, gone>>

LEMMA DiskStep ==
  ASSUME IInv, TimeInv, [Next]_vars, ~Tick
  PROVE  FileOutcome /\ \A v \in Savers : SnapOutcome(v)
<1>0. saver \in [Savers -> SaverType]
  BY DEF IInv, TypeOK, SaverType
<1>1. ASSUME NEW v \in Savers, saveToDisk(v) PROVE FileOutcome /\ \A w \in Savers : SnapOutcome(w)
  <2>1. UNCHANGED <<pool, stretch, alloc, gone, due>>
    BY <1>1 DEF saveToDisk, SaveSnapshots, SaveLocks, SaveWrites, SaveRenames, SaveFails, vkVars, history
  <2>2. CASE SaveSnapshots(v)
    <3>1. /\ saver' = [saver EXCEPT ![v] = [pc |-> "ready", snap |-> [s \in Slots |-> Stamp(pool[s])]]]
          /\ file' = file
      BY <2>2 DEF SaveSnapshots, diskVars
    <3>2. saver'[v].pc = "ready" /\ saver'[v].snap = [s \in Slots |-> Stamp(pool[s])]
      BY <1>0, <3>1
    <3>3. QED
      BY <1>0, <2>1, <3>1, <3>2 DEF FileOutcome, SnapOutcome, Quiet
  <2>3. CASE SaveLocks(v) \/ SaveWrites(v)
    <3>1. file' = file /\ \E pc \in {"write", "rename"} : saver' = [saver EXCEPT ![v].pc = pc]
      BY <2>3 DEF SaveLocks, SaveWrites
    <3>2. /\ saver'[v].pc \in {"write", "rename"}
          /\ \A w \in Savers : saver'[w].snap = saver[w].snap
      BY <1>0, <3>1 DEF SaverType
    <3>3. QED
      BY <3>1, <3>2 DEF FileOutcome, SnapOutcome, Quiet
  <2>4. CASE SaveRenames(v)
    <3>1. saver[v].pc = "rename" /\ saver' = [saver EXCEPT ![v] = [pc |-> "idle", snap |-> NoSnapshot]]
          /\ file' = IF tmp = NoFile THEN file ELSE tmp
      BY <2>4 DEF SaveRenames, SaveEnds
    <3>2. tmp = saver[v].snap /\ tmp # NoFile
      BY <3>1, Fields, FileAssumption DEF TimeInv, ProcessInv
    <3>3. \A w \in Savers : saver'[w].snap \in {saver[w].snap, NoSnapshot}
      BY <1>0, <3>1
    <3>4. QED
      BY <2>1, <3>1, <3>2, <3>3 DEF FileOutcome, SnapOutcome
  <2>5. CASE SaveFails(v)
    <3>1. saver' = [saver EXCEPT ![v] = [pc |-> "idle", snap |-> NoSnapshot]] /\ file' = file /\ diskFailed'
      BY <2>5 DEF SaveFails, SaveEnds
    <3>2. \A w \in Savers : saver'[w].snap \in {saver[w].snap, NoSnapshot}
      BY <1>0, <3>1
    <3>3. QED
      BY <3>1, <3>2 DEF FileOutcome, SnapOutcome, Quiet
  <2>6. QED
    BY <1>1, <2>2, <2>3, <2>4, <2>5 DEF saveToDisk
<1>2. CASE Dies
  BY <1>2 DEF Dies, FileOutcome, SnapOutcome
<1>3. ASSUME file' = file, Saves PROVE FileOutcome /\ \A v \in Savers : SnapOutcome(v)
  BY <1>3, SaveStep DEF FileOutcome, SnapOutcome, Quiet
<1>4. ASSUME file' = file, saver' = saver, due' = due, diskFailed' = diskFailed
      PROVE  FileOutcome /\ \A v \in Savers : SnapOutcome(v)
  BY <1>4 DEF FileOutcome, SnapOutcome, Quiet
<1>5. QED
  BY <1>1, <1>2, <1>3, <1>4 DEF Next, Fetched, Filled, Acquired, Released, Rejected, Wiped, PeriodicSave,
     FinalSave, AppReads, AppProbes, Starts, vars, diskVars, history

(* What is thrown away was in the pool, in one slot, and is not any more. *)
LEMMA DropStep ==
  ASSUME IInv, [Next]_vars, ~Tick
  PROVE  gone' \subseteq gone /\ \A u \in dropped' \ dropped : u \in Known /\ \A s \in Slots : pool'[s].cred # u
<1>0. /\ pool \in [Slots -> Entry] /\ Single(pool) /\ Issued(pool, Known)
      /\ \A s \in Slots : pool[s].cred \in Creds \cup {None}
  BY Fields DEF IInv, TypeOK, ContentInv, PoolOK
<1>1. ASSUME NEW t \in Slots, Rejected(t)
      PROVE  gone' = gone /\ \A u \in dropped' \ dropped : u \in Known /\ \A s \in Slots : pool'[s].cred # u
  <2>1. /\ pool' = [pool EXCEPT ![t] = Empty] /\ dropped' = dropped \cup {pool[t].cred} /\ gone' = gone
        /\ pool[t].cred # None
    BY <1>1 DEF Rejected
  <2>2. pool[t].cred \in Known /\ \A s \in Slots : pool'[s].cred # pool[t].cred
    BY <1>0, <2>1, EntryTypes DEF Single, Issued
  <2>3. QED
    BY <2>1, <2>2
<1>2. CASE Wiped
  <2>1. \A s \in Slots : pool'[s].cred = None
    BY <1>2, EntryTypes DEF Wiped
  <2>2. gone' = gone /\ dropped' = dropped \cup ({pool[s].cred : s \in Slots} \ {None})
    BY <1>2 DEF Wiped
  <2>3. QED
    BY <1>0, <2>1, <2>2 DEF Issued
<1>3. CASE Dies
  BY <1>3 DEF Dies
<1>4. CASE gone' \subseteq gone /\ dropped' \subseteq dropped
  BY <1>4
<1>5. QED
  BY <1>1, <1>2, <1>3, <1>4 DEF Next, Fetched, Filled, Obtains, Acquired, Released, PeriodicSave, FinalSave, AppReads,
     AppProbes, Starts, saveToDisk, SaveSnapshots, SaveLocks, SaveWrites, SaveRenames, SaveFails, vars, history

(* When time passes no save is under way, and the ages move. *)
LEMMA TickStep ==
  ASSUME IInv, TimeInv, Tick
  PROVE  /\ process' = process /\ process # "stopping" /\ due' = (process = "up")
         /\ saver' = saver /\ \A v \in Savers : saver[v].pc = "idle" /\ saver[v].snap = NoSnapshot
         /\ ~diskFailed => Quiet
         /\ UNCHANGED <<seed, Known, usedHere, diskFailed>>
         /\ gone' = gone \cup dropped /\ dropped' = {}
         /\ \A s \in Slots : /\ pool'[s].cred = pool[s].cred /\ pool'[s].active = pool[s].active
                             /\ pool'[s].used = Older(pool[s].used) /\ pool'[s].wait = Less(pool[s].wait)
         /\ Readable' => Readable
         /\ Readable => \A s \in Slots : file'[s].cred = file[s].cred /\ file'[s].used = Older(file[s].used)
         /\ \A u \in Creds :
              /\ InUse(u)' <=> InUse(u)
              /\ InUse(u) => alloc'[u] = alloc[u] /\ stretch'[u] = IF stretch[u] = 0 THEN 1 ELSE 2
              /\ ~InUse(u) => alloc'[u] = Less(alloc[u]) /\ stretch'[u] \in {0, stretch[u]}
              /\ ~InUse(u) /\ stretch'[u] # 0 => alloc[u] > 1
<1>1. /\ process' = process /\ process # "stopping" /\ due' = (process = "up")
      /\ saver' = saver /\ \A v \in Savers : saver[v].pc = "idle" /\ saver[v].snap = NoSnapshot
      /\ ~diskFailed => Quiet
      /\ UNCHANGED <<seed, Known, usedHere, diskFailed>>
      /\ gone' = gone \cup dropped /\ dropped' = {}
  BY DEF Tick, Quiet, TimeInv, ProcessInv, Known
<1>2. \A s \in Slots : /\ pool'[s].cred = pool[s].cred /\ pool'[s].active = pool[s].active
                       /\ pool'[s].used = Older(pool[s].used) /\ pool'[s].wait = Less(pool[s].wait)
  <2>1. \A e \in Entry : LET d == [e EXCEPT !.used = Older(@), !.wait = Less(@)] IN
          d.cred = e.cred /\ d.active = e.active /\ d.used = Older(e.used) /\ d.wait = Less(e.wait)
    BY DEF Entry
  <2>2. \A s \in Slots : pool'[s] = [pool[s] EXCEPT !.used = Older(@), !.wait = Less(@)]
    BY DEF Tick
  <2>3. QED
    BY <2>1, <2>2, Fields
<1>3. (Readable' => Readable)
      /\ (Readable => \A s \in Slots : file'[s].cred = file[s].cred /\ file'[s].used = Older(file[s].used))
  <2>1. ~Readable => ~Readable'
    BY DEF Tick, AgedSnapshot, Readable
  <2>2. Readable => \A s \in Slots : file'[s] = [file[s] EXCEPT !.used = Older(@)]
    BY DEF Tick, AgedSnapshot, Readable
  <2>3. Readable => \A s \in Slots : file'[s].cred = file[s].cred /\ file'[s].used = Older(file[s].used)
    <3>1. Readable => \A s \in Slots : file[s] \in [cred : Creds \cup {None}, used : 0 .. Cooldown]
      BY Fields DEF Snapshots
    <3>2. QED
      BY <2>2, <3>1
  <2>4. QED
    BY <2>1, <2>3
<1>4. ASSUME NEW u \in Creds
      PROVE  /\ InUse(u)' <=> InUse(u)
             /\ InUse(u) => alloc'[u] = alloc[u] /\ stretch'[u] = IF stretch[u] = 0 THEN 1 ELSE 2
             /\ ~InUse(u) => alloc'[u] = Less(alloc[u]) /\ stretch'[u] \in {0, stretch[u]}
             /\ ~InUse(u) /\ stretch'[u] # 0 => alloc[u] > 1
  <2>1. InUse(u)' <=> InUse(u)
    BY <1>2 DEF InUse
  <2>2. alloc'[u] = IF InUse(u) THEN alloc[u] ELSE Less(alloc[u])
    BY DEF Tick
  <2>3. stretch'[u] = CASE InUse(u) /\ stretch[u] < 2 -> stretch[u] + 1
                        [] ~InUse(u) /\ alloc[u] <= 1 -> 0
                        [] OTHER -> stretch[u]
    BY DEF Tick
  <2>4. alloc[u] \in 0 .. Cooldown /\ stretch[u] \in 0 .. 2
    BY Fields
  <2>5. QED
    BY <2>1, <2>2, <2>3, <2>4, Numbers
<1>5. QED
  BY <1>1, <1>2, <1>3, <1>4

-----------------------------------------------------------------------------
(* What they keep *)

LEMMA ProcessKept ==
  ASSUME IInv, TimeInv, [Next]_vars
  PROVE  ProcessInv'
<1>0. ProcessInv /\ saver \in [Savers -> SaverType] /\ pool \in [Slots -> Entry]
  BY DEF TimeInv, IInv, TypeOK, SaverType
<1> DEFINE Snaps == /\ \A v \in Savers : saver'[v].pc \in {"idle", "called"} => saver'[v].snap = NoSnapshot
                    /\ \A v \in Savers : saver'[v].pc = "rename" => tmp' = saver'[v].snap
<1>1. ASSUME NEW v \in Savers, saveToDisk(v) PROVE ProcessInv'
  <2>1. /\ UNCHANGED <<process, pool, seed, gone, dropped>> /\ saver[v].pc # "idle"
        /\ \A w \in Savers \ {v} : saver'[w] = saver[w]
    BY <1>0, <1>1 DEF saveToDisk, SaveSnapshots, SaveLocks, SaveWrites, SaveRenames, SaveFails, SaveEnds, vkVars,
       history
  <2>2. CASE SaveSnapshots(v)
    <3>1. saver'[v].pc = "ready" /\ tmp' = tmp
      BY <1>0, <2>2 DEF SaveSnapshots, diskVars
    <3>2. QED
      BY <1>0, <2>1, <3>1 DEF ProcessInv
  <2>3. CASE SaveLocks(v)
    <3>1. saver'[v].pc = "write" /\ \A w \in Savers : saver[w].pc # "rename"
      BY <1>0, <2>3 DEF SaveLocks, SaverType
    <3>2. QED
      BY <1>0, <2>1, <3>1 DEF ProcessInv
  <2>4. CASE SaveWrites(v)
    <3>1. saver'[v].pc = "rename" /\ saver'[v].snap = saver[v].snap /\ tmp' = saver[v].snap /\ Writing(v)
      BY <1>0, <2>4 DEF SaveWrites, SaverType, Writing
    <3>2. \A w \in Savers \ {v} : saver[w].pc # "rename"
      BY <3>1 DEF IInv, FileInv, Writing
    <3>3. QED
      BY <1>0, <2>1, <3>1, <3>2 DEF ProcessInv
  <2>5. CASE SaveRenames(v) \/ SaveFails(v)
    <3>1. saver'[v].pc = "idle" /\ saver'[v].snap = NoSnapshot /\ Writing(v)
      BY <1>0, <2>5 DEF SaveRenames, SaveFails, SaveEnds, Writing
    <3>2. \A w \in Savers \ {v} : saver[w].pc # "rename"
      BY <3>1 DEF IInv, FileInv, Writing
    <3>3. QED
      BY <1>0, <2>1, <3>1, <3>2 DEF ProcessInv
  <2>6. QED
    BY <1>1, <2>2, <2>3, <2>4, <2>5 DEF saveToDisk
<1>2. CASE Dies
  <2>1. /\ \A s \in Slots : pool'[s].cred = None
        /\ \A v \in Savers : saver'[v].pc = "idle" /\ saver'[v].snap = NoSnapshot
        /\ process' = "down" /\ gone' = {} /\ dropped' = {}
    BY <1>2, EntryTypes DEF Dies
  <2>2. QED
    BY <2>1 DEF ProcessInv
<1>3. CASE Tick
  BY <1>0, <1>3, TickStep DEF ProcessInv
<1>4. ASSUME tmp' = tmp, Saves \/ saver' = saver PROVE Snaps
  BY <1>0, <1>4, SaveStep DEF ProcessInv
<1>5. ASSUME NEW s \in Slots, Released(s) PROVE ProcessInv'
  <2>1. /\ pool' = [pool EXCEPT ![s] = [pool[s] EXCEPT !.active = FALSE, !.used = 0]]
        /\ UNCHANGED <<process, saver, tmp, seed, gone, dropped>>
    BY <1>0, <1>5 DEF Released, diskVars, history
  <2>2. \A t \in Slots : pool'[t].cred = pool[t].cred
    BY <1>0, <2>1 DEF Entry
  <2>3. QED
    BY <1>0, <2>1, <2>2 DEF ProcessInv
<1>6. CASE AppReads
  <2>1. process # "up" /\ UNCHANGED <<process, pool, saver, tmp, gone, dropped>>
    BY <1>6 DEF AppReads, diskVars
  <2>2. QED
    BY <1>0, <2>1 DEF ProcessInv
<1>7. ASSUME NEW u \in Creds, AppProbes(u) PROVE ProcessInv'
  <2>1. process = "down" /\ UNCHANGED <<process, pool, saver, tmp, gone, dropped>>
    BY <1>7 DEF AppProbes, diskVars, history
  <2>2. QED
    BY <1>0, <2>1 DEF ProcessInv
<1>8. ASSUME NEW x \in SUBSET OnFile, Starts(x) PROVE ProcessInv'
  <2>1. process' = "up" /\ seed' = None /\ tmp' = tmp /\ (Saves \/ saver' = saver)
    BY <1>8 DEF Starts, diskVars
  <2>2. QED
    BY <1>4, <2>1 DEF ProcessInv
<1>9. CASE \/ \E s \in Slots, u \in Creds : Fetched(s, u) \/ Filled(s, u)
           \/ \E s \in Slots : Acquired(s) \/ Rejected(s)
           \/ Wiped \/ PeriodicSave \/ FinalSave
  <2>1. /\ process = "up" /\ process' \in {"up", "stopping"} /\ seed' = seed /\ tmp' = tmp
        /\ Saves \/ saver' = saver
    BY <1>9 DEF Fetched, Filled, Acquired, Rejected, Wiped, PeriodicSave, FinalSave, diskVars
  <2>2. QED
    BY <1>0, <1>4, <2>1 DEF ProcessInv
<1>10. CASE UNCHANGED vars
  BY <1>0, <1>10 DEF ProcessInv, vars, diskVars, history
<1>11. QED
  BY <1>1, <1>2, <1>3, <1>5, <1>6, <1>7, <1>8, <1>9, <1>10 DEF Next

LEMMA ForgetKept ==
  ASSUME IInv, TimeInv, [Next]_vars
  PROVE  ForgetInv'
<1>0. ForgetInv /\ ProcessInv /\ IInv'
  BY IInvKept DEF TimeInv
<1>1. CASE Tick
  <2>1. \A u \in gone', v \in Savers, s \in Slots : saver'[v].snap[s].cred # u
    <3>1. gone' \subseteq Creds
      BY <1>0 DEF IInv, TypeOK
    <3>2. QED
      BY <1>1, <3>1, TickStep, NoSnapshotEmpty
  <2>2. ~(Quiet' /\ process' = "up")
    BY <1>1, TickStep DEF Quiet
  <2>3. QED
    BY <1>0, <1>1, <2>1, <2>2, TickStep DEF ForgetInv
<1>2. CASE ~Tick
  <2>1. gone' \cup dropped' \subseteq Known'
    BY <1>0, <1>2, DropStep, PoolKept DEF ForgetInv, IInv
  <2>2. ASSUME NEW u \in gone' \cup dropped', NEW s \in Slots PROVE pool'[s].cred # u
    <3>1. u \in Creds
      BY <2>1 , <1>0 DEF IInv, TypeOK
    <3> SUFFICES ASSUME pool'[s].cred = u, u \in gone \cup dropped PROVE FALSE
      BY <1>2, DropStep
    <3>2. PoolOutcome(s) /\ pool[s].cred # u /\ u \in Known /\ process # "down" /\ pool[s] \in Entry
      BY <1>0, <1>2, <3>1, PoolStep, Fields DEF ForgetInv, ProcessInv
    <3>3. /\ [pool[s] EXCEPT !.active = TRUE].cred = pool[s].cred
          /\ [pool[s] EXCEPT !.active = FALSE, !.used = 0].cred = pool[s].cred
      BY <3>2 DEF Entry
    <3>4. \A w \in Creds : w \notin gone' \cup dropped' => pool'[s] # New(w, TRUE) /\ pool'[s] # New(w, FALSE)
      BY DEF New
    <3>5. QED
      BY <3>2, <3>3, <3>4 DEF PoolOutcome
  <2>3. ASSUME NEW u \in gone', NEW v \in Savers, NEW s \in Slots PROVE saver'[v].snap[s].cred # u
    <3>1. u \in gone /\ u \in Creds /\ pool[s].cred # u /\ saver[v].snap[s].cred # u
      BY <1>0, <1>2, DropStep DEF ForgetInv, IInv, TypeOK
    <3>2. SnapOutcome(v)
      BY <1>2, DiskStep
    <3>3. Stamp(pool[s]).cred = pool[s].cred
      BY DEF Stamp
    <3>4. QED
      BY <3>1, <3>2, <3>3, NoSnapshotEmpty DEF SnapOutcome
  <2>4. ASSUME Quiet', process' = "up", NEW u \in gone' PROVE u \notin OnFile'
    <3>1. u \in gone /\ u \in Creds /\ process # "down"
      BY <1>0, <1>2, DropStep DEF ProcessInv, IInv, TypeOK
    <3>2. process = "up"
      BY <2>4, <3>1 DEF Next, Fetched, Filled, Acquired, Released, Rejected, Wiped, PeriodicSave, FinalSave,
         AppReads, AppProbes, Starts, Dies, Tick, saveToDisk, SaveSnapshots, SaveLocks, SaveWrites, SaveRenames,
         SaveFails, vars
    <3>3. FileOutcome
      BY <1>2, DiskStep
    <3>4. CASE file' = file /\ Quiet
      BY <1>0, <3>1, <3>2, <3>4 DEF ForgetInv, OnFile, Readable
    <3>5. ASSUME NEW v \in Savers, file' = saver[v].snap PROVE u \notin OnFile'
      BY <1>0, <3>1, <3>5 DEF ForgetInv, OnFile
    <3>6. QED
      BY <2>4, <3>3, <3>4, <3>5 DEF FileOutcome
  <2>5. QED
    BY <2>1, <2>2, <2>3, <2>4 DEF ForgetInv
<1>3. QED
  BY <1>1, <1>2

(* Who is in use after a step that uses nothing was in use before it. *)
LEMMA InUseStep ==
  ASSUME IInv, TimeInv, [Next]_vars, ~Tick, NEW u \in Creds, InUse(u)'
  PROVE  /\ u \in usedHere'
         /\ \/ stretch'[u] = 0 /\ alloc'[u] = Cooldown
            \/ InUse(u) /\ stretch'[u] \in {0, stretch[u]} /\ alloc'[u] = alloc[u]
<1> SUFFICES ASSUME ~(stretch'[u] = 0 /\ alloc'[u] = Cooldown /\ u \in usedHere')
             PROVE  InUse(u) /\ stretch'[u] \in {0, stretch[u]} /\ u \in usedHere' /\ alloc'[u] = alloc[u]
  OBVIOUS
<1>0. (\A s \in Slots : pool[s] \in Entry) /\ UseInv
  BY Fields DEF TimeInv
<1>1. stretch'[u] \in {0, stretch[u]} /\ alloc'[u] = alloc[u]
  BY UseStep
<1>2. PICK s \in Slots : pool'[s].cred = u /\ pool'[s].active
  BY DEF InUse
<1>3. PoolOutcome(s)
  BY <1>2, PoolStep
<1>4. CASE pool'[s] = pool[s] /\ usedHere \subseteq usedHere'
  <2>1. InUse(u)
    BY <1>2, <1>4 DEF InUse
  <2>2. QED
    BY <1>0, <1>1, <1>4, <2>1 DEF UseInv
<1>5. ASSUME NEW w \in Creds, Uses(w), u = w PROVE FALSE
  BY <1>5 DEF Uses, IInv, TypeOK
<1>6. ASSUME NEW w \in Creds, pool'[s] = New(w, TRUE) \/ pool'[s] = New(w, FALSE), pool'[s].active => Uses(w)
      PROVE  FALSE
  <2>1. pool'[s].cred = w
    BY <1>6 DEF New
  <2>2. QED
    BY <1>2, <1>5, <1>6, <2>1
<1>7. ASSUME pool'[s] = [pool[s] EXCEPT !.active = TRUE], Uses(pool[s].cred) PROVE FALSE
  BY <1>0, <1>2, <1>5, <1>7, EntryTypes
<1>8. pool'[s] # [pool[s] EXCEPT !.active = FALSE, !.used = 0]
  BY <1>0, <1>2 DEF Entry
<1>9. /\ pool'[s] # New(seed, FALSE)
      /\ \A c, a, w : pool'[s] # [cred |-> c, active |-> FALSE, used |-> a, wait |-> w]
  BY <1>2 DEF New
<1>10. QED
  BY <1>2, <1>3, <1>4, <1>6, <1>7, <1>8, <1>9 DEF PoolOutcome

LEMMA UseKept ==
  ASSUME IInv, TimeInv, [Next]_vars
  PROVE  UseInv'
<1>0. UseInv /\ ContentInv
  BY DEF TimeInv, IInv
<1>1. CASE Tick
  <2>1. \A u \in Creds \ Known : ~InUse(u)
    BY <1>0 DEF InUse, ContentInv, PoolOK, Issued
  <2>2. QED
    BY <1>0, <1>1, <2>1, TickStep DEF UseInv
<1>2. CASE ~Tick
  <2>1. ASSUME NEW u \in Creds, InUse(u)' PROVE u \in usedHere' /\ alloc'[u] = Cooldown
    BY <1>0, <1>2, <2>1, InUseStep DEF UseInv
  <2>2. ASSUME NEW u \in Creds \ Known' PROVE stretch'[u] = 0
    BY <1>0, <1>2, <2>2, UseStep, PoolKept DEF UseInv, IInv
  <2>3. QED
    BY <2>1, <2>2 DEF UseInv
<1>3. QED
  BY <1>1, <1>2

LEMMA StampKept ==
  ASSUME IInv, TimeInv, [Next]_vars
  PROVE  StampInv'
<1>0. IInv' /\ StampInv /\ ProcessInv /\ ProcessInv' /\ UseInv
  BY IInvKept, ProcessKept DEF TimeInv
<1> SUFFICES ASSUME NEW u \in Creds, NEW s \in Slots, InUse(u)', stretch'[u] >= 1
             PROVE  /\ \A v \in Savers : saver'[v].snap[s].cred = u => saver'[v].snap[s].used = 0
                    /\ Quiet' /\ Readable' /\ file'[s].cred = u => file'[s].used = 0
  BY DEF StampInv
<1>1. process' # "down"
  BY <1>0 DEF InUse, ProcessInv
<1>2. CASE Tick
  <2>1. ~Quiet'
    BY <1>1, <1>2, TickStep, Fields DEF Quiet, IInv, TypeOK
  <2>2. \A v \in Savers : saver'[v].snap[s].cred # u
    BY <1>2, TickStep, NoSnapshotEmpty
  <2>3. QED
    BY <2>1, <2>2
<1>3. CASE ~Tick
  <2>1. InUse(u) /\ stretch[u] >= 1
    <3>1. stretch'[u] # 0
      OBVIOUS
    <3>2. QED
      BY <1>3, <3>1, InUseStep
  <2>2. ASSUME NEW v \in Savers, saver'[v].snap[s].cred = u PROVE saver'[v].snap[s].used = 0
    <3>1. SnapOutcome(v)
      BY <1>3, DiskStep
    <3>2. CASE saver'[v].snap \in {saver[v].snap, NoSnapshot}
      BY <1>0, <2>1, <2>2, <3>2, NoSnapshotEmpty DEF StampInv
    <3>3. CASE saver'[v].snap = [t \in Slots |-> Stamp(pool[t])]
      <4>1. saver'[v].snap[s] = Stamp(pool[s]) /\ pool[s].cred = u
        BY <2>2, <3>3 DEF Stamp
      <4>2. PICK t \in Slots : pool[t].cred = u /\ pool[t].active
        BY <2>1 DEF InUse
      <4>3. t = s
        BY <4>1, <4>2 DEF IInv, ContentInv, PoolOK, Single
      <4>4. QED
        BY <4>1, <4>2, <4>3 DEF Stamp
    <3>4. QED
      BY <3>1, <3>2, <3>3 DEF SnapOutcome
  <2>3. ASSUME Quiet', Readable', file'[s].cred = u PROVE file'[s].used = 0
    <3>1. FileOutcome
      BY <1>3, DiskStep
    <3>2. CASE file' = file /\ Quiet
      BY <1>0, <2>1, <2>3, <3>2 DEF StampInv, Readable
    <3>3. ASSUME NEW v \in Savers, file' = saver[v].snap PROVE file'[s].used = 0
      BY <1>0, <2>1, <2>3, <3>3 DEF StampInv
    <3>4. QED
      BY <1>1, <2>3, <3>1, <3>2, <3>3 DEF FileOutcome
  <2>4. QED
    BY <2>2, <2>3
<1>4. QED
  BY <1>2, <1>3

(* A moment more passes over an age and over an allocation nobody uses. *)
LEMMA CoverAges ==
  ASSUME IInv, TimeInv, Tick, NEW u \in Creds, NEW a \in 0 .. Cooldown, ~InUse(u), Covers(u, a)
  PROVE  CoversNext(u, Older(a))
<1>1. alloc[u] \in 0 .. Cooldown /\ stretch[u] \in 0 .. 2
  BY Fields
<1>2. /\ diskFailed' = diskFailed /\ alloc'[u] = Less(alloc[u]) /\ stretch'[u] \in {0, stretch[u]}
      /\ stretch'[u] # 0 => alloc[u] > 1
  BY TickStep
<1>3. Older(a) \in 0 .. a + 1
  BY DEF Older
<1>4. QED
  BY <1>1, <1>2, <1>3, Numbers DEF Covers, CoversNext, Less

LEMMA AgeTicks ==
  ASSUME IInv, TimeInv, Tick
  PROVE  AgeInv'
<1>0. AgeInv /\ StampInv /\ UseInv /\ IInv'
  BY IInvKept DEF TimeInv, Next
<1>1. ASSUME NEW s \in Slots, pool'[s].cred # None
      PROVE  /\ ~pool'[s].active => CoversNext(pool'[s].cred, pool'[s].used)
             /\ pool'[s].cred \notin usedHere' => CoversNext(pool'[s].cred, Cooldown - pool'[s].wait)
  <2>0. PICK u \in Creds : u = pool[s].cred
    BY <1>1, TickStep, Fields
  <2>1. /\ pool'[s].cred = u /\ pool'[s].active = pool[s].active
        /\ pool'[s].used = Older(pool[s].used) /\ pool'[s].wait = Less(pool[s].wait)
        /\ usedHere' = usedHere
        /\ pool[s].active \in BOOLEAN /\ pool[s].used \in 0 .. Cooldown /\ pool[s].wait \in 0 .. Cooldown
    BY <2>0, TickStep, Fields
  <2>2. ASSUME ~pool'[s].active PROVE CoversNext(u, Older(pool[s].used))
    <3>1. ~InUse(u)
      BY <2>0, <2>1, <2>2 DEF InUse, IInv, ContentInv, PoolOK, Single
    <3>2. Covers(u, pool[s].used)
      BY <1>0, <2>0, <2>1, <2>2 DEF AgeInv
    <3>3. QED
      BY <2>1, <3>1, <3>2, CoverAges
  <2>3. ASSUME u \notin usedHere' PROVE CoversNext(u, Cooldown - Less(pool[s].wait))
    <3>1. ~InUse(u)
      BY <1>0, <2>1, <2>3 DEF UseInv
    <3>2. Covers(u, Cooldown - pool[s].wait)
      BY <1>0, <2>0, <2>1, <2>3 DEF AgeInv
    <3>3. Cooldown - pool[s].wait \in 0 .. Cooldown /\ Cooldown - Less(pool[s].wait) = Older(Cooldown - pool[s].wait)
      BY <2>1, Numbers DEF Less, Older
    <3>4. QED
      BY <3>1, <3>2, <3>3, CoverAges
  <2>4. QED
    BY <2>1, <2>2, <2>3
<1>2. ASSUME Readable' PROVE Covered(file)'
  <2> SUFFICES ASSUME NEW s \in Slots, file'[s].cred # None PROVE CoversNext(file'[s].cred, file'[s].used)
    BY DEF Covered, Covers, CoversNext
  <2>0. Readable /\ file \in Snapshots /\ file'[s].cred = file[s].cred /\ file'[s].used = Older(file[s].used)
    BY <1>2, TickStep, Fields
  <2>1. PICK u \in Creds : u = file[s].cred
    BY <2>0, SnapshotFields
  <2>2. file[s].used \in 0 .. Cooldown /\ Covers(u, file[s].used)
    BY <1>0, <2>0, <2>1, SnapshotFields DEF AgeInv, Covered
  <2>3. CASE ~InUse(u)
    BY <2>0, <2>1, <2>2, <2>3, CoverAges
  <2>4. CASE InUse(u)
    <3>1. /\ alloc'[u] = alloc[u] /\ alloc[u] \in 0 .. Cooldown /\ diskFailed' = diskFailed
          /\ ~diskFailed => Quiet
      BY <2>4, TickStep, Fields
    <3>2. CASE stretch[u] = 0
      <4>1. stretch'[u] = 1
        BY <2>4, <3>2, TickStep
      <4>2. QED
        BY <2>0, <2>1, <4>1 DEF CoversNext
    <3>3. CASE stretch[u] # 0 /\ ~diskFailed
      <4>1. file[s].used = 0
        BY <1>0, <2>0, <2>1, <2>4, <3>1, <3>3, Fields DEF StampInv
      <4>2. QED
        BY <2>0, <2>1, <3>1, <4>1, Numbers DEF Covers, CoversNext, Older
    <3>4. CASE diskFailed
      BY <2>0, <2>1, <3>1, <3>4 DEF CoversNext
    <3>5. QED
      BY <3>2, <3>3, <3>4
  <2>5. QED
    BY <2>3, <2>4
<1>3. ASSUME NEW v \in Savers PROVE Covered(saver[v].snap)'
  BY TickStep, NoSnapshotEmpty DEF Covered
<1>4. ASSUME seed' # None PROVE CoversNext(seed', Cooldown)
  <2>1. seed' = seed /\ seed \in Creds /\ process # "up"
    BY <1>4, TickStep DEF IInv, TypeOK, TimeInv, ProcessInv
  <2>2. ~InUse(seed)
    BY <2>1, TickStep DEF InUse, TimeInv, ProcessInv, IInv, TypeOK
  <2>3. CoversNext(seed, Older(Cooldown))
    BY <1>0, <1>4, <2>1, <2>2, CoverAges, Numbers DEF AgeInv
  <2>4. QED
    BY <2>1, <2>3, Numbers DEF Older
<1>5. QED
  BY <1>1, <1>2, <1>3, <1>4 DEF AgeInv, Covers, CoversNext

LEMMA AgeSteps ==
  ASSUME IInv, TimeInv, [Next]_vars, ~Tick
  PROVE  AgeInv'
<1>0. AgeInv /\ UseInv /\ ProcessInv /\ IInv'
  BY IInvKept DEF TimeInv
<1>1. \A u \in Creds : \A a : Covers(u, a) => CoversNext(u, a)
  BY UseStep
<1>2. ASSUME NEW s \in Slots, pool'[s].cred # None
      PROVE  /\ ~pool'[s].active => CoversNext(pool'[s].cred, pool'[s].used)
             /\ pool'[s].cred \notin usedHere' => CoversNext(pool'[s].cred, Cooldown - pool'[s].wait)
  <2>0. /\ pool[s] \in Entry /\ pool[s].cred \in Creds \cup {None}
        /\ pool[s].used \in 0 .. Cooldown /\ pool[s].wait \in 0 .. Cooldown
    BY Fields
  <2>1. CASE pool'[s] = pool[s] /\ usedHere \subseteq usedHere'
    BY <1>0, <1>1, <1>2, <2>0, <2>1 DEF AgeInv
  <2>2. ASSUME NEW u \in Creds, pool'[s] = New(u, TRUE) \/ pool'[s] = New(u, FALSE), stretch'[u] = 0
        PROVE  CoversNext(pool'[s].cred, pool'[s].used) /\ CoversNext(pool'[s].cred, Cooldown - pool'[s].wait)
    <3>1. pool'[s].cred = u /\ stretch'[u] = 0
      BY <2>2 DEF New
    <3>2. QED
      BY <3>1 DEF CoversNext
  <2>3. CASE pool'[s] = [pool[s] EXCEPT !.active = TRUE] /\ Uses(pool[s].cred)
    BY <2>0, <2>3 DEF Entry, Uses
  <2>4. CASE /\ pool[s].active
             /\ pool'[s] = [pool[s] EXCEPT !.active = FALSE, !.used = 0]
             /\ UNCHANGED <<usedHere, alloc>>
    <3>1. pool'[s].cred = pool[s].cred /\ pool'[s].used = 0 /\ pool'[s].wait = pool[s].wait
      BY <2>0, <2>4 DEF Entry
    <3>2. pool[s].cred \in Creds /\ alloc'[pool[s].cred] \in 0 .. Cooldown
      BY <1>2, <2>0, <2>4, <3>1, Fields
    <3>3. CoversNext(pool'[s].cred, pool'[s].used)
      BY <3>1, <3>2, Numbers DEF CoversNext
    <3>4. pool[s].cred \notin usedHere => CoversNext(pool[s].cred, Cooldown - pool[s].wait)
      BY <1>0, <1>1, <3>2 DEF AgeInv
    <3>5. QED
      BY <2>4, <3>1, <3>3, <3>4
  <2>5. CASE seed # None /\ pool'[s] = New(seed, FALSE)
    <3>1. pool'[s].cred = seed /\ pool'[s].used = Cooldown /\ pool'[s].wait = 0 /\ seed \in Creds
      BY <2>5 DEF New, Never, IInv, TypeOK
    <3>2. CoversNext(seed, Cooldown)
      BY <1>0, <1>1, <2>5, <3>1 DEF AgeInv
    <3>3. QED
      BY <3>1, <3>2, Numbers
  <2>6. ASSUME NEW t \in Slots, Readable, file[t].cred # None,
               pool'[s] = [cred |-> file[t].cred, active |-> FALSE,
                           used |-> file[t].used, wait |-> Cooldown - file[t].used]
        PROVE  CoversNext(pool'[s].cred, pool'[s].used) /\ CoversNext(pool'[s].cred, Cooldown - pool'[s].wait)
    <3>1. file[t].cred \in Creds /\ file[t].used \in 0 .. Cooldown
      BY <2>6, Fields, SnapshotFields
    <3>2. CoversNext(file[t].cred, file[t].used)
      BY <1>0, <1>1, <2>6, <3>1 DEF AgeInv, Covered
    <3>3. Cooldown - (Cooldown - file[t].used) = file[t].used
      BY <3>1, Numbers
    <3>4. QED
      BY <2>6, <3>2, <3>3
  <2>7. QED
    BY <1>2, <2>1, <2>2, <2>3, <2>4, <2>5, <2>6, PoolStep DEF PoolOutcome
<1>3. ASSUME NEW f \in Snapshots, Covered(f)
      PROVE  \A s \in Slots : f[s].cred # None => CoversNext(f[s].cred, f[s].used)
  BY <1>1, <1>3, SnapshotFields DEF Covered
<1>4. ASSUME NEW v \in Savers, NEW s \in Slots, saver'[v].snap[s].cred # None
      PROVE  CoversNext(saver'[v].snap[s].cred, saver'[v].snap[s].used)
  <2>1. CASE saver'[v].snap \in {saver[v].snap, NoSnapshot}
    BY <1>0, <1>3, <1>4, <2>1, NoSnapshotEmpty, Fields DEF AgeInv
  <2>2. CASE saver'[v].snap = [t \in Slots |-> Stamp(pool[t])] /\ UNCHANGED <<pool, stretch, alloc, gone>>
    <3>1. saver'[v].snap[s].cred = pool[s].cred /\ saver'[v].snap[s].used = IF pool[s].active THEN 0 ELSE pool[s].used
      BY <2>2 DEF Stamp
    <3>2. pool[s].cred \in Creds /\ alloc'[pool[s].cred] \in 0 .. Cooldown
      BY <1>4, <2>2, <3>1, Fields
    <3>3. CASE pool[s].active
      BY <3>1, <3>2, <3>3, Numbers DEF CoversNext
    <3>4. CASE ~pool[s].active
      BY <1>0, <1>1, <3>1, <3>2, <3>4 DEF AgeInv
    <3>5. QED
      BY <3>3, <3>4
  <2>3. QED
    BY <2>1, <2>2, DiskStep DEF SnapOutcome
<1>5. ASSUME Readable', NEW s \in Slots, file'[s].cred # None
      PROVE  CoversNext(file'[s].cred, file'[s].used)
  <2>1. CASE file' = file
    BY <1>0, <1>3, <1>5, <2>1, Fields DEF AgeInv, Readable
  <2>2. ASSUME NEW v \in Savers, file' = saver[v].snap PROVE CoversNext(file'[s].cred, file'[s].used)
    BY <1>0, <1>3, <1>5, <2>2, Fields DEF AgeInv
  <2>3. QED
    BY <2>1, <2>2, DiskStep DEF FileOutcome
<1>6. ASSUME seed' # None PROVE CoversNext(seed', Cooldown)
  <2>1. CASE seed' = seed
    BY <1>0, <1>1, <1>6, <2>1 DEF AgeInv, IInv, TypeOK
  <2>2. CASE AppReads
    <3>1. PICK s \in Slots : Readable /\ file[s].cred # None /\ file[s].used = Cooldown /\ seed' = file[s].cred
      BY <2>2 DEF AppReads, Never
    <3>2. QED
      BY <1>0, <1>3, <3>1, Fields DEF AgeInv
  <2>3. ASSUME NEW u \in Creds, AppProbes(u) PROVE CoversNext(seed', Cooldown)
    <3>1. seed' = u /\ u \notin Known /\ stretch' = stretch
      BY <2>3 DEF AppProbes, history, Known
    <3>2. QED
      BY <1>0, <3>1 DEF UseInv, CoversNext
  <2>4. ASSUME NEW x \in SUBSET OnFile, Starts(x) PROVE CoversNext(seed', Cooldown)
    BY <1>6, <2>4 DEF Starts
  <2>5. QED
    BY <2>1, <2>2, <2>3, <2>4 DEF Next, Fetched, Filled, Acquired, Released, Rejected, Wiped, PeriodicSave,
       FinalSave, Dies, saveToDisk, SaveSnapshots, SaveLocks, SaveWrites, SaveRenames, SaveFails, vars
<1>7. QED
  BY <1>2, <1>4, <1>5, <1>6 DEF AgeInv, Covered, Covers, CoversNext

LEMMA TimeInit == Init => TimeInv
<1> SUFFICES ASSUME Init PROVE TimeInv
  OBVIOUS
<1>1. /\ \A s \in Slots : pool[s].cred = None
      /\ \A v \in Savers : saver[v].pc = "idle" /\ saver[v].snap = NoSnapshot
      /\ gone = {} /\ dropped = {} /\ seed = None /\ file = NoFile
      /\ \A u \in Creds : stretch[u] = 0
  BY EntryTypes DEF Init
<1>2. \A u \in Creds : ~InUse(u)
  BY <1>1 DEF InUse
<1>3. \A v \in Savers : Covered(saver[v].snap)
  BY <1>1, NoSnapshotEmpty DEF Covered
<1>4. QED
  BY <1>1, <1>2, <1>3 DEF TimeInv, ProcessInv, ForgetInv, UseInv, StampInv, AgeInv, Readable

LEMMA TimeAlways == Spec => [](IInv /\ TimeInv)
<1>1. IInv /\ TimeInv /\ [Next]_vars => TimeInv'
  BY ProcessKept, ForgetKept, UseKept, StampKept, AgeTicks, AgeSteps DEF TimeInv
<1>2. QED
  BY <1>1, IInvInit, IInvKept, TimeInit, PTL DEF Spec

-----------------------------------------------------------------------------
(* The theorems *)

(* The pool, the files and the snapshots of the saves keep their types over   *)
(* every crash and restart.                                                   *)
THEOREM TypeCorrect == Spec => []TypeOK
<1>1. IInv => TypeOK
  BY DEF IInv
<1>2. QED
  BY <1>1, IInvAlways, PTL

(* The file can be read after a crash between any two steps of any number of  *)
(* concurrent saves: saveMu covers the writing and the renaming.              *)
THEOREM FileAlwaysWhole == Spec => []FileWhole
<1>1. IInv => FileWhole
  BY DEF IInv, FileInv, FileWhole
<1>2. QED
  BY <1>1, IInvAlways, PTL

(* No two slots ever hold the same user name on the same relay, for a pool of *)
(* any size, with anonymous credentials and with those of the cookie's cached *)
(* mints, though saves finish out of order, a cached mint is handed out again *)
(* and seedSlot moves what it displaces.                                      *)
THEOREM NeverTwins == Spec => []NoTwins
<1>1. IInv => NoTwins
  BY DEF IInv, ContentInv, PoolOK, Single, NoTwins
<1>2. QED
  BY <1>1, IInvAlways, PTL

(* What a process threw away, and has not fetched again since, is out of the  *)
(* file after every quiet interval, for any number of savers: a save writes   *)
(* only a snapshot taken since the last tick, and the periodic one is taken   *)
(* after it.  What cookieCache hands out again is in the file with reason.    *)
THEOREM DeadAlwaysForgotten == Spec => []DeadForgotten
<1>1. IInv /\ TimeInv => DeadForgotten
  BY DEF TimeInv, ForgetInv, DeadForgotten, Quiet
<1>2. QED
  BY <1>1, TimeAlways, PTL

(* A credential used for two intervals since it was last fetched is never     *)
(* usable in a later process while VK holds its allocations, for any          *)
(* cooldown, whichever way it came there: the stamps on disk are never behind *)
(* by more than an interval.  One that cookieCache hands out again has lost   *)
(* the time of its use before.                                                *)
THEOREM QuarantineHolds == Spec => []QuarantineKept
<1>1. ASSUME IInv, TimeInv PROVE QuarantineKept
  <2> SUFFICES ASSUME NEW s \in Slots, Fresh(pool[s]), pool[s].cred \notin usedHere,
                      stretch[pool[s].cred] = 2, ~diskFailed
               PROVE  alloc[pool[s].cred] <= 1
    BY DEF QuarantineKept
  <2>1. pool[s].cred \in Creds /\ pool[s].cred # None /\ pool[s].wait = 0
    BY <1>1, Fields DEF Fresh
  <2>2. Covers(pool[s].cred, Cooldown - 0)
    BY <1>1, <2>1 DEF TimeInv, AgeInv
  <2>3. QED
    BY <1>1, <2>1, <2>2, Fields, Numbers DEF Covers
<1>2. QED
  BY <1>1, TimeAlways, PTL

=============================================================================
