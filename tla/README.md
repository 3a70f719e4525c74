# Specifications of vk-turn-proxy-macos

TLA+ models, TLC runs and TLAPS proofs for the proxy that carries WireGuard
packets through VK's TURN relays: the Go package `pkg/proxy`, its C bridge
`WireGuardBridge` and the credential cache the app shares with it. Paths below
are relative to `src/`.

## The system

| part | source | state it keeps | operations | what is hard |
|---|---|---|---|---|
| credential pool | `pkg/proxy/creds.go` | one entry per slot: credential and its expiry, users (`active`), `fetching`, fetch cooldown, saturation mark, pending time; path-change pause | `get`, `release`, `markSaturated`, `invalidate`, `invalidateEntry`, `tryFill`, `pickSlotToFill`, `MarkInUseSlotsForPathChange`, `ExtendPauseAcquireForTransition` | up to 50 connections, the grower and the app share it; `get` and `tryFill` let go of the mutex for a fetch that takes seconds to minutes |
| background grower | `pkg/proxy/proxy.go` `growCredPool` | `coldStartMet` | fills slots up to the cold-start target fast, the others slowly | races conn-driven fetches for the target |
| disk cache of the pool | `creds.go` `saveToDisk`, `loadFromDisk`, `seedSlot`; `CredCache.swift` | `creds.json` | periodic and event-driven saves, load, seed | snapshot and write are not one step; crash between; ghost allocations after a restart |
| lifecycle and captcha | `proxy.go` `Start`, `startConnections`, `waitCaptchaAndRestart`, `Pause`, `Resume`, `ForceReconnect`, `WakeHealthCheck`, `runWatchdog`, `SolveCaptcha`, `RefreshCaptchaURL`, `Stop` | session context, pending captcha and its tokens, waiter flag, answer channel | start, stop and restart of all connections | five goroutines that restart, cancel and publish without a common lock |
| connection loop | `proxy.go` `runConnection` | failure count | retry with back-off, woken by slot-available | wake-up channel captured after the failure |
| sessions | `proxy.go` `runDTLSSession`, `runSRTPSession`, `runWrapASession`, `runDirectSession`, `runTURN` | slot held, TURN goroutine and its outcome | allocate, relay, reconnect | release on every path; goroutines that outlive their session |
| probes | `proxy.go`, the probers and receivers | ping and pong clocks, pong sequence | periodic and active probes, zombie check | a frozen process must not mistake itself for a dead relay |
| SRTP wrapper | `srtpwrap/srtp.go` | demultiplexer, two queues, buffer pool, deadlines, sequence numbers | `Client`, `Read`, `Write`, `SetReadDeadline`, `Close` | full queues, shared buffers, a timer that fires while it is reset |
| VK client | `creds.go` `GetVKCreds`, `creds_vkcalls.go`, `creds_vkcookie.go`, `proxy.go` `fetchFreshCreds` | one-shot captcha tokens, cookie configuration, relays and mints | request chain that ends in a credential, a captcha or an error | tokens and caches shared by concurrent fetches |
| captcha solvers | `captcha_pow.go`, `captcha_slider.go` | a captcha session | proof of work, slider | external service, pictures |
| bridge | `WireGuardBridge/bridge.go`, `pkg/turnbind` | handle table of tunnels, a proxy and a device per entry | exported C functions | start, attach, stop and calls on stale handles from any thread |
| SOCKS agent | `cmd/vk-turn-socks` | control server, associations | SOCKS, HTTP proxy, control API | association teardown |
| apps | `VKTurnProxy`, `VKTurnMenuBar` | tunnel status, credential cache, agent process | pre-bootstrap, polling, supervision | callbacks after stop |

The parts interact through the pool (every session gets and releases a slot),
through the session context (a restart cancels all connections), through the
pending captcha (while its URL is set, the watchdog, the grower, `Resume` and
`ForceReconnect` all stand still), through `creds.json` (written by the proxy,
read by the app and by the next process) and through the bridge's handles.

What makes each part right:

* pool: the VK quota of ten allocations per credential is kept; no capacity is
  leaked; no usable credential is thrown away; a fetch is not duplicated; a
  saturated credential is left alone; every connection is served in the end;
* sizing: three separate roundings agree;
* lifecycle: one captcha waiter, a pending captcha has somebody who acts on the
  answer, the tunnel comes back by itself, Stop ends everything;
* sessions: a slot is released exactly once, a refusal is reported first,
  cancellation ends every goroutine, a sleeper tries again;
* probes: a dead relay is noticed in time, an answered one is not killed;
* SRTP: a buffer has one owner, packets leave in order, Close ends the
  demultiplexer, a deadline is heard;
* VK client: a captcha on show is still solvable, an answer goes back with its
  own tokens, slots get different relays, every fetch returns;
* disk cache: the file is whole after any crash, no credential is in two slots,
  nothing is handed out before VK has forgotten a dead process's allocations,
  what was thrown away leaves the file;
* bridge: an open device and a running proxy have an owner, one teardown per
  tunnel, a bootstrap outcome is not lost, switching off returns.

## Modules

| module | models | composed with |
|---|---|---|
| `CredPool` | the pool and the grower | |
| `PoolSizing` | the sizing formulas | |
| `Lifecycle` | who starts, cancels and restarts connections; the captcha hand-over | the pool as "a `get` would be served" |
| `ConnUse` | abstract: what a connection promises the pool | |
| `Session` | `runConnection`, the four sessions, their goroutines | implements `ConnUse`; the pool as a count per slot |
| `Probe` | liveness probes under a clock with freezes | sessions as up or not |
| `CookieMint` | credentials of a logged-in account | |
| `VKFetch` | a fetch from VK, by the proxy or by the app | extends `CookieMint` |
| `Srtp` | the SRTP client connection | |
| `CredDisk` | the cache file over crashes and restarts | the pool as what the file tells apart |
| `Bridge` | the C API, the bind, a proxy's outside | |
| `MC...` | constants, symmetry, for `CredDisk` a view, for TLC | |
| `..._proofs` | TLAPS proofs | extends its module |

### CredPool

Each action is one critical section of `credPool.mu`. `get` is
`Acquire` (Phase 1), `StartFetch` (Phase 2 up to `cp.fetch`), then `FetchOk` or
`FetchFail`; a `get` that returns an error before the fetch changes nothing and
is no step. `tryFill` is `TryFillStart`, then `TryFillOk` or `TryFillFail`,
between the grower's own steps `GrowerPick`, `GrowerGuard` and `GrowerSettle`.
A session that was handed a slot either returns (`Release`) or first handles a
486 (`MarkSaturated`) or 401/403 (`InvalidateEntry`) and then returns.
`PathChange` and `PathTransition` come from the network monitor, `Invalidate`
from `Pause` and `Resume`. `Init` includes every outcome of `loadFromDisk`.

Data are abstracted to what the code's conditions tell apart. A credential is
"there" with the time left until it is within `credExpiryBuffer` of its end.
Deadlines are the time left, past moments ages capped at the largest age the
code distinguishes, so `Tick` keeps the state space finite and behaviours
infinite. Logging, the addresses and the two timers are left out: the timers
only call `broadcastSlotAvailable`, whose effect (a retry now rather than a few
seconds later) is within "an idle conn may call `get` at any time".

Three history variables, read by no guard, state the properties: `users` (who
was handed the credential now in the slot), `strayed` (slots whose count a conn
of an older credential lowered) and `orphan` (fetches whose entry was wiped or
replaced under them).

### PoolSizing

The integer formulas of `poolSizeForNumConns`, of `get`'s cold-start cap and of
the grower's target, as functions of `NumConns`. It has no states and no run:
`SizesAlwaysFit` is proved for every integer.

### Lifecycle

The goroutines share atomics and the short critical sections of `sessMu`; each
action is one such access, so `Resume` is `Enter` (the captcha check),
`SwapSession` (under `sessMu`) and `Finish` (invalidate, `go startConnections`),
and anything may happen in between.

* `starter[s]` is one run of `startConnections`: `new` (the goroutine has not read
  `sessCtx` yet), `fetch` (conn 0 waits for VK), `dial` (it allocates and shakes
  hands), `sleep` (back-off between attempts), `spawn` (captcha published, the
  compare-and-swap still to come). `live` is whether the session it captured is
  still current.
* `groups`, `active`, `oldActive` are what is left of a run once conn 0 is up: how
  many sets of connections the current session has, and whether some connection
  of it, or of a cancelled one, counts in `activeConns`.
* `waiter[w]` is the `waitCaptchaAndRestart` that run `w` spawned; `call[c]` the
  progress of the app, the watchdog, `WakeHealthCheck`, the goroutine
  `SolveCaptcha` leaves behind, or a waiter, within `Resume`, `ForceReconnect` or
  `Pause`.
* `captchaImageURL`, `captchaWaiterActive`, `captchaCh` are the code's; the URL is
  whether it is non-empty. `refreshing` is a `RefreshCaptchaURL` that talks to VK.
* `creds` is all this module knows of the pool: whether a `get` would be served
  without VK. `CredPool` has the rest.

The watchdog's five minutes are "it has seen zero connections before"
(`zeroConnSince`), its two minutes and `WakeHealthCheck`'s byte counts may come
true at any time. A probe does not start while a refresh is under way, which is
what the ten minutes of `lastRefreshCaptchaTime` amount to. The history variable
`unheard` records the two races in which a captcha is shown that no waiter will
hear: a refresh that stores its URL after the waiter has left its wait, and a
bootstrap whose compare-and-swap fails because the waiter that holds the flag is
on its way out.

`runDirectSession` reports ready before it is, and never counts in `activeConns`:
`Lifecycle` models the DTLS, SRTP and WRAP-A modes.

### Session and ConnUse

`main[c]` is where connection `c`'s own goroutine is, from `runConnection`'s loop
through the session's dial, the `getconf` of WRAP-A, the pumps and the deferred
calls, one action per defer. `sess[c][g]` is what outlives the session's function:
its context, its TURN goroutine with the outcome in `turnDone`, and for direct
sessions the reconnecting goroutine with `currentSlot`. A connection may start
its next session while the goroutines of an earlier one still run; `Incarnations`
bounds how many have some left. The pool is `used`, a count per slot, with
`release` ignoring -1 and 0 as the code does, and `woken` is the slot-available
channel a sleeper captured. `told` and `owed` are history: what the pool was told
of a refusal, and what made the dial fail.

`ConnUse` is the abstract specification: acquire a slot, be established, be lost,
release. `Use` is the refinement mapping (a connection is at its session's
`current` slot while its function holds one). Direct sessions are left out of the
mapping, because they do not keep the promise.

### Probe

The prober and the receiver of `runDTLSSession` and their copies in
`runSRTPSession`, with the clock they read. A unit of time is `probeInterval`.
`Tick` is a unit in which every goroutine and the network did what was due;
`Freeze` is time that passes over a process the system suspended. `calm`,
`unanswered` and `wronged` are history.

### CookieMint and VKFetch

`CookieMint` is `SetVKCookieAuth`, store by store, and `cookieCredForSlot` with its
mutex, its discovery of relays call by call and its cache of mints. `VKFetch` adds
the anonymous way: `fetchFreshCreds` with its one-shot tokens, the captcha-free
calls path, and `GetVKCreds` with its waves of network retries, its list of
clients, the answers to step 2, the proof-of-work attempts and the captcha it hands
to the user. Captchas are numbers; what VK, the solver or the user answers is a
choice. The app's own calls of `wgProbeVKCreds` run beside the proxy's fetches.

### Srtp

The client of `srtpwrap`. Buffers are model values, so that the pool they come from
can be wrong; packets have no content but their number. `demux` is
`runDemuxFromPacketConn`, `reader` is `Read` with the deadline's channel and timer,
`writer` the sender and the prober, `client` the life of the connection.

### CredDisk

`saveToDisk` is the snapshot under the pool's mutex, the lock of the save mutex,
the write of the temporary file and the rename, each of which may be the last thing
the process does. A unit of time is the periodic save's interval. `alloc` is how
long VK still holds a credential's allocations; `stretch`, `usedHere`, `dropped`,
`gone` and `diskFailed` are history for the properties.

A credential is a user name with the relay it is for. `Obtains` is what
`fetchFreshCreds` brings a slot: an anonymous fetch a new user name
(`AnonymousMinted`), a fetch with the cookie the user name of its call's cached mint,
on the slot's own relay (`CookieMinted`). So the slots of one call share a user name,
and a slot that was wiped gets the credential back that it had, until the mint is
close to its expiry. `dropped` and `gone` lose a credential that is fetched again, and
its `stretch` of use starts anew: the pool's entry knows nothing of the use before.
Which way is used (`cookieAuth`) stays as it is, since `TunnelManager` deletes the
file before a change; the TURN server override, which gives all slots one relay, is
off.

### Bridge

`tunnels` is the map from handles to entries; a call is a record of the handle, the
device it made and its program point, and each action is one critical section of
`tunnelsMu` or one call outside of it. A proxy is whether it was started, stopped
and has connections, and what its bootstrap channel holds. `overtaken` and
`abandoned` are history: an attach during which its tunnel was switched off, and a
proxy whose `wgTurnOnWithTURN` failed after starting it.

## Runs

| run | instance | what it shows |
|---|---|---|
| `credpool_accounting` | 3 conns, 2 slots of quota 1, grower, credentials that expire after one tick, no cooldowns | the usage count never exceeds the quota nor the number of users; exact unless strayed; the flag is exact; a fetch never lands on a usable credential; conns have no more fetches under way than the target |
| `credpool_timing` | 2 conns, 1 slot of quota 2, cooldowns of 1, pauses of 1 and 3, cascade window of 2, fair | once disturbances cease everybody is served again and again; a saturated credential gains no conn; no event shortens a pause |
| `lifecycle_safety` | 2 bootstraps of one attempt, `WakeHealthCheck`, the user's answers with their timer | at most one captcha waiter, the flag is true; a pending captcha is watched but for the two races |
| `lifecycle_recovery` | 1 bootstrap at a time of two attempts, the app's Pause and Resume, the watchdog, fair | the tunnel comes back once VK, the network and the user leave it alone; after Stop every goroutine ends |
| `session` | 1 conn in every mode, 1 slot, two sessions with goroutines left, fair | sessions implement `ConnUse`; refusals are reported; SRTP closes before it releases; cancellation ends all; sleepers retry |
| `probe` | 1 conn, two sessions, four pings, freezes of 1 and 4 units | the zombie check is fair and finds the dead |
| `vk_fetch` | a fetcher, an app, two clients, waves, answers and solver attempts, cookies, fair | captchas on show are untouched, answers are whole, every step of a fetch uses up a retry, every fetch returns |
| `cookie_mint` | 2 fetchers, 2 slots, 2 calls whose relays overlap, configured anew in either order at any moment | two slots never get one relay |
| `srtp` | 2 buffers, queues of one, two writers, fair | one owner per buffer; order on the wire; the demultiplexer ends; deadlines are heard |
| `cred_disk` | 2 slots, 2 savers, a cooldown of two units; 2 anonymous credentials, or one cached mint for both slots | the file is whole; no twins; quarantine after a crash; the dead are forgotten unless fetched again |
| `bridge` | 3 threads, 1 handle, 2 devices, fair | owners of devices and proxies; one teardown; the outcome is kept; switching off returns and comes to rest |

One run refutes what a comment says:

| run | comment | what happens |
|---|---|---|
| `session_direct` | a defer "releases the LATEST slot at function exit" (`pkg/proxy/proxy.go:2106`) | the reconnecting goroutine of a direct session is inside `resolveTURNAddr` when the session ends; it is given a slot that nobody releases |

### Bounds and why they are enough

Quota 1 makes a slot full with one conn, so "full", "room" and "over quota" all
occur with three conns; two slots give own and foreign slots, and
`Redundancy = 2` a cold-start target of one below the pool size. Durations of 0
to 3 keep every order in which the code's deadlines can expire relative to each
other; the code only compares them. `credpool_timing` uses one slot of quota two so
that conns share and wait for the same slot; liveness on two slots is beyond five
minutes. No counter is capped in `CredPool`: the state space is finite as it is.

In `Lifecycle`, `Starters` bounds the runs of `startConnections` that have not
returned at one time (one more waits to be launched until one ends); two are
enough for every pair of bootstraps to race for the waiter and the session, and
the liveness run has one, where the races are between the bootstrap, its waiter
and the callers. `MaxAttempts` is 7 in the code; 1 and 2 have the last attempt and
one that is not the last. `groups` counts two sets of connections or more as two.
The callers are split over the runs, since all four at once exceed five minutes;
the invariants are proved for any of them.

Connections of `Session` meet only in the pool's counts, so one connection with
two generations of goroutines has the races within a connection; the refinement is
proved for any number. `MaxFailures` (3 in the code) and `MaxRetries` (5) are 1:
the code tells only the last from the others. In `Probe`, `StaleThreshold`,
`FreezeGap` and `RecvStale` keep the order of the code's 2 minutes, 90 seconds and
3 minutes in units of 30 seconds, scaled down; freezes are shorter than the gap's
detection and longer than all thresholds; `MaxSeq` and `MaxSessions` bound pings
and sessions. `MaxIds` in `VKFetch` bounds the captchas known to somebody at a time;
numbers are used again. `Cooldown` in `CredDisk` is 10 save intervals in the code
and 2 in the run: the property compares it with one interval. A mint is fetched again
in the same process, so one user name on two relays has the sharing and the return; two
anonymous ones are what a seed displaces. `View` leaves out of the comparison of
states the history no property can look at any more, and no guard does. The two
fetchers of `CookieMint` stand for any two that meet at its mutex. `MaxWrites` bounds the
packets of `Srtp`; its channels of one are full and empty. In `Bridge` two calls may
race with a third; handles are never used again, so one is enough for everything
that happens to a tunnel.

### Fairness

`FairSpec` of `CredPool` assumes: time passes; the grower's fetch ends (VK
requests have timeouts) and a rejected session returns; a conn whose retry loop
finds a slot to take, a slot to fetch into or a VK that answers infinitely often
gets it one day. The last is strong fairness: `runConnection` retries every 2 to
60 seconds for ever with a random delay, while credentials stay available for
hours. Nothing is assumed of a session's end.

`FairSpec` of `Lifecycle` assumes that goroutines run, requests and timers end
and the watchdog ticks (weak fairness), and that a handshake which is tried again
and again on a live session succeeds one day (strong: the watchdog's five minutes
do not cut off every attempt of fifteen seconds). `Recovers` supposes that the
disturbances cease: captchas, failures, lost connections and credentials, and
what the user and the watchdog's traffic rule do. Nothing is assumed of the
user, who may never answer, nor of lost connections, which may never come back.

`Session`, `Srtp`, `Bridge` and `VKFetch` assume weak fairness of goroutines that
have nothing left to wait for: a timer that has been armed fires, a request with a
timeout returns, a goroutine whose context is cancelled looks. Nothing is assumed
of packets, of VK's answers, of relays, or of callers who may call.

## Proofs

All theorems are for every value of the constants that satisfies the named
assumptions of their module, and are checked by tlapm to the last leaf.

| module | theorems | inductive invariant |
|---|---|---|
| `CredPool_proofs` | `TypeCorrect`, `NoLeak`, `QuotaUnlessStrayed`, `FlagExact`, `NoUsableOverwritten`, `FetchesBounded`, and the action properties `SaturatedNeverShared`, `PauseOnlyEndsByTime` | `TypeOK`, `CountInv`, `FetchInv` |
| `Lifecycle_proofs` | `TypeCorrect`, `OneWaiterAlways`, `PendingAlwaysWatched`; of `PoolSizing`: `SizesAlwaysFit` | the conjunction of the first three; none needed for `PoolSizing`, which is arithmetic |
| `Session_proofs` | `SessionImplementsConnUse`, `RefusalAlwaysReported`, `AlwaysClosedBeforeRelease`, `TypeCorrect`, `ActiveConnsExact` | `Shape`, `ModeInv`, `SlotInv`, `ConnInv`; for the last two also `Bounds` |
| `Probe_proofs` | `TypeCorrect`, `ZombieCheckIsFair`, `ZombieIsFound` | `TypeOK`, `FairInv`, `CalmInv`, `DueInv` |
| `Srtp_proofs` | `TypeCorrect`, `OneOwnerAlways`, `WireAlwaysInOrder` | `TypeOK`, `HandInv`, `OneOwner`, `WriteInv` |
| `CredDisk_proofs` | `TypeCorrect`, `FileAlwaysWhole`, `NeverTwins`, `DeadAlwaysForgotten`, `QuarantineHolds` | `TypeOK`, `FileInv`, `ContentInv`, `CookieInv`; for the last two also `TimeInv` |
| `VKFetch_proofs` | `ShownStaysUntouched`, `AnswerStaysWhole`, `TypeCorrect`, `CallsAlwaysProgress`, `WorkIsNatural`; of `CookieMint`: `CookieImplemented`, `CookieTypeCorrect`, `RelaysStayDistinct` | `Shape`, `ShownInv`, `AnswerInv`, `TypedInv`; `CookieTypeOK`, `CookieMuInv`, `ListInv`, `ServedInv` |
| `Bridge_proofs` | `TypeCorrect`, `OneTeardownAlways`, `ProxyAlwaysOwned`, `OutcomeAlwaysKept`, `DeviceAlwaysOwned` | `TypeOK`, `CallInv`, `HandleInv`, `StopInv`, `OutcomeInv`, `DeviceInv` |

`CredPool`: none of the invariants is inductive alone. `CountInv` adds, per slot,
that the conns of `users` hold the slot, that the count is at most their number and
equal to it unless the slot strayed: a release by a stranger lowers the count, and
only `strayed` remembers it. `FetchInv` adds that orphans are really fetching, that
the flag is set exactly when a fetch that is no orphan is there, that there is one
such fetch, and that its slot holds nothing usable: time can only make a
credential less usable, and every action that fills a slot turns the other
fetches into orphans. Both are preserved action by action over `TypeOK`. From
`FetchInv` the fetches of conns map one to one into the slots whose flag is up, so
the cap of Phase 2, which counts flags, bounds them.

`Lifecycle`: a spawned waiter keeps the types only because none was inside `Resume`
(`OneWaiter`), and a bootstrap that spawns none leaves the captcha watched or
`unheard` only because the flag means that a waiter exists. `WaitersMove` sums up
what any step may do to the waiters and the flag.

`Session`: `SlotInv` says that a session's record names the slot it is counted on and
that a slot's count is the number of sessions on it, so a release never meets a count
of zero; `ModeInv` that only direct sessions have a reconnector, which the mapping
leaves out. `ConnInv` carries the refusal: as long as an outcome is owed, the TURN
goroutine has ended and left it in `turnDone`, because `spawnTURN` cancels only after
it has sent, and a goroutine of an earlier session writes into its own record. Each
action is then a step of `ConnUse` or a stutter. From the refinement follows that
`activeConns` is the number of DTLS, SRTP and WRAP-A sessions established and not yet
torn down: the steps of `ConnUse` that change either change both. Direct sessions are
not counted, so in that mode it is zero whoever is connected (`CountedSessions`). `Bounds` has what the types need
beyond that, such as the direct session's retry count while its reconnector waits, and
holds in the mode that leaks slots too.

`Probe`: the check compares the age of the last pong with `probeStaleThreshold`, unless
the age of the last tick shows a freeze. `ClockInv` is why it wrongs nobody: until a
ping has gone unanswered the pong is no older than the last tick, or that tick is so
old that the freeze is noticed; afterwards the ping is the younger by at most a freeze
that goes unnoticed. `PollInv` covers the active probe, whose own echo must have reset
the clock. `DueInv` bounds the pong's age by what the prober has still to do: nothing,
a tick that is due, or a tick that is due behind a poll. Neither needs a relation
between the threshold and the gap but that the gap is the smaller.

`Srtp`: `HandInv` ties what the demultiplexer and the reader have in their hands to
their program points; `WriteInv` says that the holder of the write mutex has the
highest number and that everything sent is below it.

`CredDisk`: `FileInv` says that only the saver inside the save mutex has a temporary
file, which is torn only while it writes; `ContentInv` that no snapshot, saved,
held by a saver or in memory, has a credential twice. A credential a fetch brings is in
no other slot because its user name is new, or, by `CookieInv`, because all that the pool
has of a cached mint is in the slot of its relay; a mint does not outlive its process,
so the file of the last one has none of it. `TimeInv` adds who may still know
of a credential, and since when. `ForgetInv`: what the process threw away is in no
snapshot taken since, and in the file only while a saver or the periodic save has yet to
replace it. `StampInv`: a credential in use since the last tick is stamped "used now" in
every snapshot a saver holds, and in the file once the savers are done. `AgeInv`: an
age in the file, in a snapshot, in the pool or on its way to the app is behind VK's own
clock by at most the one interval between a use and its save (`Covers`). The app may
read the file before the old process's last save, and needs no exception: it takes only
what was not used for the whole cooldown, and what is in use is stamped in every save.

`Bridge`: `HandleInv` says that a handle is in the map or was taken by one call;
`StopInv` that a stopped proxy has no entry; `OutcomeInv` that an outcome is in the
channel or in one waiter's hand; `DeviceInv` which call or entry has which device.

`VKFetch`: `ShownInv` says that the captcha a solver works on is in no other hands, so
that nothing it does reaches one on show, and that one about to be stored for the
user is untouched or burnt; `AnswerInv` that the tokens an app passed are of one
captcha and that its waves try that captcha's client alone. The steps fall into three
kinds: no call gets a captcha, VK issues a new one (`NewKeeps`), one goes to the user
(`ShowKeeps`).

Termination is half proved. `Work` is what a call may still spend, as eight natural
numbers (`WorkIsNatural`): what remains before, in and after the tries, the waves, the
clients of the wave, whether one is being tried, its attempts, the step of the attempt,
the solver's tries. `CallsProgress` says that every step lowers it lexicographically,
`ClientFailed` and `NextAttempt` included, which set inner counts back; `TypedInv`
carries the bounds, such as that a refresh follows only if the solver has a try left.
That the steps are also taken, `FetchReturns`, needs fairness and is TLC's.

`CookieMint` is proved through `VKFetch`: `CookieImplemented` shows that each step there
is a step of `CookieSpec` or leaves its variables alone. `CookieMuInv` says that whoever
discovers or serves holds the mutex, so the list of relays has not changed since its
length was looked at; `ListInv` that the list has each address once, which rests on
`AppendNew` adding, in order, each unseen address of an answer once. That the p-th new
position exists for each p up to their number (`RankIsOnto`) needs no induction: the
rank of a position is injective into as many numbers, hence onto. `ServedInv` then follows
because the list only grows until a new configuration clears it together with what
was served.

Only model-checked: liveness (`ServedOnceCalm`, `Recovers`, `StopEndsAll`,
`CancelEndsAll`, `SleepersRetry`, `DemuxEnds`, `DeadlineHeard`, `FetchReturns`,
`TurnOffReturns`, `SwitchedOffRests`), since fairness is beyond the prover. Every
invariant and action property that a passing run checks is a theorem.

## Disagreements and limits seen while modelling

These are behaviours of the code that differ from a comment or that a reader should
know of. Where a property has an exception, it is one of these.

* Pool: a late `release` of an older credential lowers the new one's count, so the
  quota of the comment at `creds.go:831` can be exceeded (`strayed`). A wipe clears the
  `fetching` flag of a fetch under way, so a second one may start (`orphan`). A late 401
  wipes the successor of the credential it is about. A path change leaves a slot that
  is saturated already with its shorter mark.
* Lifecycle: a pending captcha may be left without a waiter (`unheard`); two quick
  restarts may both start connections for the second session (`groups`). The grower
  returns for good when the bootstrap takes more than two minutes (`proxy.go:662`,
  comment "Lifetime = p.ctx"). The `Resume` after a successful probe invalidates the
  pool (`proxy.go:1088`, comment "preserve it for use, not discard it").
* Sessions: direct sessions may leak a slot (`session_direct`) and never count in
  `activeConns`; the slot is released while the old TURN goroutine may still hold its
  allocation; the short failures that lead to dormancy need not be consecutive.
* Probes: `lastPongSeq` outlives the session, so a prober may take an earlier session's
  pong for its own; sessions it happened to are excepted in `ZombieCheckFair`.
* VK client: a failed mint uses up the link's turn until the next configuration; a
  fetch that began under the old cookie may latch the new one as rejected; a one-shot
  token is sent again with other clients and waves; the refresh path may show a burnt
  captcha (`burnt`). Two fetches, or a fetch and the app, may take SID, key and token of
  a solved captcha in turns (`LoadSid` to `ClearToken1`) and each send a mixture; no
  property excludes it, `AppAnswerWhole` is about the app's own calls.
* Bridge: a `wgTurnOff` during `wgAttachWireGuard` may leave the device open
  (`overtaken`); a `wgTurnOnWithTURN` that fails after `Start` leaves its proxy running
  (`abandoned`).
* Disk: the file lags by up to one save interval, so a credential first used just before
  a crash is loaded without its stamp (`QuarantineKept` asks for two intervals of use).
  With the cookie, `invalidate` and `invalidateEntry` leave `cookieCache` alone, so what
  they throw away is fetched again, also what VK has just rejected, until the mint nears
  its expiry, although `Pause` invalidates "so Resume fetches fresh ones"
  (`proxy.go:1126`). It comes without the time of its last use, so a process
  that dies before its stamp is renewed leaves it usable: `QuarantineKept` counts from
  the last fetch and `DeadForgotten` excepts it. VK counts by account and relay
  (`proxy.go:1979`), the code's dedup and quarantine by user name: that a new mint of
  the same account meets the allocations of the old one is not in the model, nor the
  override, with which the slots of a call would hold one credential for one relay.

## Not modelled

Captcha solving (`captcha_pow.go`, `captcha_slider.go`) works on pictures and
scraped pages; `VKFetch` has its outcomes. Ciphers and record formats (`wrap.go`,
`wrapa.go`), HTTP fingerprints and generated identities are data without state.
`srtpwrap`'s server side is used by test tools only. `waitForCaptchaAnswer` is
reachable only with `allowCaptchaBlock = true`, which no caller passes.

The SOCKS agent relays bytes per association through a netstack that is not in the
repository; its own state is its configuration. The Swift apps are the environment of
`Bridge`, `Lifecycle`, `VKFetch` and `CredDisk`, which let them call in any order; their
views, preferences and process supervision belong to the system frameworks. Parsing
of configurations, log filters, packaging and measurement tools carry no protocol
state.

## Order of work and what could follow

The modules were written in the order pool, sizing, lifecycle, sessions, probes, VK
client, SRTP, disk, bridge, from the part every connection depends on to the edges.
What could follow: the pool's `CredPool` refined to the counts `Session` uses;
`Lifecycle` and `Bridge` in one module, so that the bootstrap of a tunnel and its
handle are followed together; the SOCKS agent's associations.
