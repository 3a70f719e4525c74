------------------------------ MODULE Lifecycle ------------------------------
(***************************************************************************)
(* Who starts, cancels and restarts the tunnel's connections: the          *)
(* goroutines of Proxy in pkg/proxy/proxy.go around startConnections, with *)
(* the hand-over of a captcha to the user and back.                        *)
(*                                                                         *)
(* The goroutines share atomics and sessMu, and no lock spans a whole      *)
(* operation: each action is one atomic access or one critical section.    *)
(*                                                                         *)
(* The connections of one run of startConnections are one group: conn 0    *)
(* decides the bootstrap, then the group lives until its context is        *)
(* cancelled.  The credential pool is whether it holds a credential (see   *)
(* CredPool), VK is the outcome of a fetch.                                *)
(***************************************************************************)
EXTENDS Naturals, FiniteSets

CONSTANTS
  Starters,      \* goroutines that run startConnections (bounds those at once)
  MaxAttempts,   \* maxBootstrapAttempts
  Callers        \* who may call Resume, ForceReconnect or Pause, next to the waiters

ASSUME StarterAssumption == IsFiniteSet(Starters) /\ Starters # {}
ASSUME AttemptAssumption == MaxAttempts \in Nat \ {0}

App == "app"            \* wgResume and wgPause
Watchdog == "watchdog"  \* runWatchdog
Wake == "wake"          \* WakeHealthCheck
SolveTimer == "timer"   \* the goroutine SolveCaptcha leaves behind

ASSUME CallerAssumption ==
  /\ Callers \subseteq {App, Watchdog, Wake, SolveTimer}
  /\ Starters \cap Callers = {}

VARIABLES
  starter,              \* the runs of startConnections that have not returned
  groups,               \* how many of them started connections in the current session
  active,               \* some connection of the current session is established
  oldActive,            \* and some of a cancelled one
  waiter,               \* the waitCaptchaAndRestart each of them may have spawned
  call,                 \* how far a caller is within Resume, ForceReconnect or Pause
  sessLive,             \* the current sessCtx is not cancelled
  ctxDone,              \* Stop was called
  creds,                \* the pool holds a usable credential
  captchaImageURL,      \* a captcha is pending
  captchaWaiterActive,
  captchaCh,            \* an answer is in the channel
  refreshing,           \* RefreshCaptchaURL is talking to VK
  zeroConnSince,        \* the watchdog has seen zero connections
  \* History variable: no action's guard reads it.
  unheard               \* the pending captcha was shown when no waiter would hear its answer

groupVars == <<groups, active, oldActive>>
captchaVars == <<captchaImageURL, captchaWaiterActive, captchaCh, refreshing, unheard>>
vars == <<starter, groupVars, waiter, call, sessLive, ctxDone, creds, captchaVars,
          zeroConnSince>>

-----------------------------------------------------------------------------
(* The runs of startConnections *)

StarterState ==
  [pc       : {"free", "new", "fetch", "dial", "sleep", "spawn"},
   live     : BOOLEAN,               \* the session it captured is not cancelled
   attempt  : 0 .. MaxAttempts - 1]  \* conn 0's failed attempts

Free == [pc |-> "free", live |-> FALSE, attempt |-> 0]

New == [Free EXCEPT !.pc = "new"]

WaiterPC == {"off", "drain", "wait", "probe", "answered", "exit"}

CallState == [pc : {"idle", "send", "timer", "enter", "swap", "finish"},
              op : {"Resume", "ForceReconnect", "Pause"}]

NoCall == [pc |-> "idle", op |-> "Resume"]

(* A waiter that has not yet taken an answer. *)
Heard == \E w \in Starters : waiter[w] \in {"drain", "wait", "probe"}

(* A waiter that has, and is on its way out. *)
Leaving == \E w \in Starters : waiter[w] \in {"answered", "exit"}

activeConns == active \/ oldActive

Init ==
  /\ \E s \in Starters :
       starter = [t \in Starters |-> IF t = s THEN New ELSE Free]
  /\ groups = 0 /\ active = FALSE /\ oldActive = FALSE
  /\ waiter = [s \in Starters |-> "off"]
  /\ call = [c \in Callers \cup Starters |-> NoCall]
  /\ sessLive = TRUE
  /\ ctxDone = FALSE
  /\ creds \in BOOLEAN
  /\ captchaImageURL = FALSE
  /\ captchaWaiterActive = FALSE
  /\ captchaCh = FALSE
  /\ refreshing = FALSE
  /\ zeroConnSince = FALSE
  /\ unheard = FALSE

(* startConnections returns an error. *)
Fail(s) == starter' = [starter EXCEPT ![s] = Free]

(* conn 0 returned an error: sleep and try again, or give up. *)
Conn0Error(s) ==
  IF starter[s].attempt + 1 < MaxAttempts
  THEN starter' = [starter EXCEPT ![s].pc = "sleep", ![s].attempt = @ + 1]
  ELSE Fail(s)

(* spawnConn0: runConnection looks at its context, then takes a credential   *)
(* from the pool or asks VK for one.                                          *)
SpawnConn0(s, live) ==
  IF live /\ ~ctxDone
  THEN starter' = [starter EXCEPT ![s].pc = IF creds THEN "dial" ELSE "fetch", ![s].live = TRUE]
  ELSE Conn0Error(s)

(* startConnections reads p.sessCtx only once it runs. *)
Begin(s) ==
  /\ starter[s].pc = "new"
  /\ SpawnConn0(s, sessLive)
  /\ UNCHANGED <<groupVars, waiter, call, sessLive, ctxDone, creds, captchaVars, zeroConnSince>>

(* VK's answer.  No context reaches the request: a cancelled session waits too. *)
Conn0FetchOk(s) ==
  /\ starter[s].pc = "fetch"
  /\ creds' = TRUE
  /\ starter' = [starter EXCEPT ![s].pc = "dial"]
  /\ UNCHANGED <<groupVars, waiter, call, sessLive, ctxDone, captchaVars, zeroConnSince>>

(* A captcha error: show it, ... *)
Publish(s) ==
  /\ starter[s].pc = "fetch"
  /\ captchaImageURL' = TRUE
  /\ starter' = [starter EXCEPT ![s].pc = "spawn"]
  /\ UNCHANGED <<groupVars, waiter, call, sessLive, ctxDone, creds, captchaWaiterActive, captchaCh,
                 refreshing, unheard, zeroConnSince>>

(* The fetch, the allocation or the handshake fails. *)
Conn0Fails(s) ==
  /\ starter[s].pc \in {"fetch", "dial"}
  /\ Conn0Error(s)
  /\ UNCHANGED <<groupVars, waiter, call, sessLive, ctxDone, creds, captchaVars, zeroConnSince>>

(* conn 0 is established: the other connections follow.  Two groups or more    *)
(* count as two.                                                              *)
Conn0Up(s) ==
  /\ starter[s].pc = "dial"
  /\ starter[s].live
  /\ starter' = [starter EXCEPT ![s] = Free]
  /\ groups' = IF groups = 2 THEN 2 ELSE groups + 1
  /\ active' = TRUE
  /\ UNCHANGED <<oldActive, waiter, call, sessLive, ctxDone, creds, captchaVars, zeroConnSince>>

Retry(s) ==
  /\ starter[s].pc = "sleep"
  /\ IF ctxDone THEN Fail(s) ELSE SpawnConn0(s, starter[s].live)
  /\ UNCHANGED <<groupVars, waiter, call, sessLive, ctxDone, creds, captchaVars, zeroConnSince>>

(* Mutant: the flag is set without looking at it. *)
AlwaysSpawn(s) == waiter' = [waiter EXCEPT ![s] = "drain"] /\ captchaWaiterActive' = TRUE

(* captchaWaiterActive.CompareAndSwap *)
SpawnOneWaiter(s) ==
  /\ waiter' = IF captchaWaiterActive THEN waiter ELSE [waiter EXCEPT ![s] = "drain"]
  /\ captchaWaiterActive' = TRUE

(* ... and spawn the goroutine that waits for the answer, unless there is one. *)
SpawnWaiter(s) ==
  /\ starter[s].pc = "spawn"
  /\ SpawnOneWaiter(s)
  /\ unheard' = (captchaWaiterActive /\ (unheard \/ (captchaImageURL /\ Leaving)))
  /\ starter' = [starter EXCEPT ![s] = Free]
  /\ UNCHANGED <<groupVars, call, sessLive, ctxDone, creds, captchaImageURL, captchaCh,
                 refreshing, zeroConnSince>>

(* The connections of a cancelled session return. *)
GroupEnds ==
  /\ oldActive
  /\ oldActive' = FALSE
  /\ UNCHANGED <<starter, groups, active, waiter, call, sessLive, ctxDone, creds, captchaVars,
                 zeroConnSince>>

(* All connections are lost, or one of them is back. *)
ConnsLost ==
  /\ active
  /\ active' = FALSE
  /\ UNCHANGED <<starter, groups, oldActive, waiter, call, sessLive, ctxDone, creds, captchaVars,
                 zeroConnSince>>

ConnsBack ==
  /\ groups > 0 /\ ~active
  /\ creds' = TRUE
  /\ active' = TRUE
  /\ UNCHANGED <<starter, groups, oldActive, waiter, call, sessLive, ctxDone, captchaVars,
                 zeroConnSince>>

(* The credentials expire or are rejected. *)
CredsLost ==
  /\ creds
  /\ creds' = FALSE
  /\ UNCHANGED <<starter, groupVars, waiter, call, sessLive, ctxDone, captchaVars, zeroConnSince>>

-----------------------------------------------------------------------------
(* Resume, ForceReconnect and Pause *)

Calling(op) == [pc |-> "enter", op |-> op]

(* c returns; a waiter's Resume is the last thing it does. *)
Return(c) ==
  /\ call' = [call EXCEPT ![c] = NoCall]
  /\ waiter' = IF c \in Starters THEN [waiter EXCEPT ![c] = "exit"] ELSE waiter

(* The first two return at once while a captcha is pending. *)
Enter(c) ==
  /\ call[c].pc = "enter"
  /\ IF captchaImageURL /\ call[c].op # "Pause"
     THEN Return(c)
     ELSE call' = [call EXCEPT ![c].pc = "swap"] /\ UNCHANGED waiter
  /\ UNCHANGED <<starter, groupVars, sessLive, ctxDone, creds, captchaVars, zeroConnSince>>

(* sessCancel(), as every goroutine of the session sees it. *)
CancelSession ==
  /\ starter' = [s \in Starters |-> [starter[s] EXCEPT !.live = FALSE]]
  /\ groups' = 0
  /\ active' = FALSE
  /\ oldActive' = (oldActive \/ active)

(* Under sessMu: cancel the session; Pause puts no new one in its place. *)
SwapSession(c) ==
  /\ call[c].pc = "swap"
  /\ CancelSession
  /\ sessLive' = (call[c].op # "Pause" /\ ~ctxDone)
  /\ call' = [call EXCEPT ![c].pc = "finish"]
  /\ UNCHANGED <<waiter, ctxDone, creds, captchaVars, zeroConnSince>>

(* Mutant: nobody is left to start the connections. *)
LaunchNothing(c) == starter' = starter

(* go p.startConnections() *)
Launch(c) ==
  IF call[c].op = "Pause" THEN starter' = starter
  ELSE \E s \in Starters : starter[s].pc = "free" /\ starter' = [starter EXCEPT ![s] = New]

(* Then invalidate the pool (not ForceReconnect) and start over. *)
Finish(c) ==
  /\ call[c].pc = "finish"
  /\ creds' = (creds /\ call[c].op = "ForceReconnect")
  /\ Launch(c)
  /\ Return(c)
  /\ UNCHANGED <<groupVars, sessLive, ctxDone, captchaVars, zeroConnSince>>

Idle(c) == c \in Callers /\ call[c].pc = "idle" /\ ~ctxDone

(* A call from the outside begins. *)
Begins(c, op) ==
  /\ Idle(c)
  /\ call' = [call EXCEPT ![c] = Calling(op)]
  /\ UNCHANGED <<starter, groupVars, waiter, sessLive, ctxDone, creds, captchaVars>>

AppCall(op) == Begins(App, op) /\ UNCHANGED zeroConnSince

(* WakeHealthCheck found traffic out and none in. *)
WakeReconnects == ~captchaImageURL /\ Begins(Wake, "ForceReconnect") /\ UNCHANGED zeroConnSince

(* A tick of the watchdog; a pending captcha makes it skip the tick. *)
WatchdogStale ==
  /\ ~captchaImageURL /\ activeConns
  /\ Begins(Watchdog, "ForceReconnect")
  /\ UNCHANGED zeroConnSince

WatchdogLooks ==
  /\ Idle(Watchdog) /\ ~captchaImageURL
  /\ zeroConnSince' = (~activeConns)
  /\ UNCHANGED <<starter, groupVars, waiter, call, sessLive, ctxDone, creds, captchaVars>>

(* No connection for five minutes. *)
WatchdogZero ==
  /\ ~captchaImageURL /\ ~activeConns /\ zeroConnSince
  /\ Begins(Watchdog, "ForceReconnect")
  /\ zeroConnSince' = FALSE

-----------------------------------------------------------------------------
(* The captcha *)

(* Mutant: the captcha stays on show. *)
KeepCaptcha == UNCHANGED <<captchaImageURL, unheard>>

(* p.captchaImageURL.Store("") *)
ClearCaptcha == captchaImageURL' = FALSE /\ unheard' = FALSE

(* waitCaptchaAndRestart: drain a stale answer, ... *)
Drain(w) ==
  /\ waiter[w] = "drain"
  /\ waiter' = [waiter EXCEPT ![w] = "wait"]
  /\ captchaCh' = FALSE
  /\ UNCHANGED <<starter, groupVars, call, sessLive, ctxDone, creds, captchaImageURL,
                 captchaWaiterActive, refreshing, unheard, zeroConnSince>>

(* ... take the answer and call Resume, ... *)
TakeAnswer(w) ==
  /\ waiter[w] = "wait" /\ captchaCh
  /\ captchaCh' = FALSE
  /\ ClearCaptcha
  /\ waiter' = [waiter EXCEPT ![w] = "answered"]
  /\ call' = [call EXCEPT ![w] = Calling("Resume")]
  /\ UNCHANGED <<starter, groupVars, sessLive, ctxDone, creds, captchaWaiterActive, refreshing,
                 zeroConnSince>>

(* ... or ask the pool for a credential now and then, though not while the     *)
(* user is at it.                                                             *)
ProbeStart(w) ==
  /\ waiter[w] = "wait" /\ ~refreshing /\ ~ctxDone
  /\ waiter' = [waiter EXCEPT ![w] = "probe"]
  /\ UNCHANGED <<starter, groupVars, call, sessLive, ctxDone, creds, captchaVars, zeroConnSince>>

ProbeOk(w) ==
  /\ waiter[w] = "probe"
  /\ creds' = TRUE
  /\ ClearCaptcha
  /\ waiter' = [waiter EXCEPT ![w] = "answered"]
  /\ call' = [call EXCEPT ![w] = Calling("Resume")]
  /\ UNCHANGED <<starter, groupVars, sessLive, ctxDone, captchaWaiterActive, captchaCh, refreshing,
                 zeroConnSince>>

(* VK still wants a captcha (the URL is a new one) or does not answer. *)
ProbeNo(w) ==
  /\ waiter[w] = "probe" /\ ~creds
  /\ captchaImageURL' \in {TRUE, captchaImageURL}
  /\ waiter' = [waiter EXCEPT ![w] = "wait"]
  /\ UNCHANGED <<starter, groupVars, call, sessLive, ctxDone, creds, captchaWaiterActive, captchaCh,
                 refreshing, unheard, zeroConnSince>>

(* Mutant: the select has no case for the proxy's context. *)
IgnoreStop(w) ==
  /\ waiter[w] = "wait" /\ ctxDone
  /\ UNCHANGED vars

WaiterStopped(w) ==
  /\ waiter[w] = "wait" /\ ctxDone
  /\ ClearCaptcha
  /\ waiter' = [waiter EXCEPT ![w] = "exit"]
  /\ UNCHANGED <<starter, groupVars, call, sessLive, ctxDone, creds, captchaWaiterActive, captchaCh, refreshing,
                 zeroConnSince>>

(* defer p.captchaWaiterActive.Store(false) *)
WaiterExit(w) ==
  /\ waiter[w] = "exit"
  /\ captchaWaiterActive' = FALSE
  /\ waiter' = [waiter EXCEPT ![w] = "off"]
  /\ UNCHANGED <<starter, groupVars, call, sessLive, ctxDone, creds, captchaImageURL, captchaCh, refreshing,
                 unheard, zeroConnSince>>

(* SolveCaptcha: clear the captcha, send the answer, and leave a goroutine that *)
(* looks again after 15 seconds.  A second answer within these is left out.    *)
SolveCaptcha ==
  /\ Idle(SolveTimer)
  /\ ClearCaptcha
  /\ call' = [call EXCEPT ![SolveTimer].pc = "send"]
  /\ UNCHANGED <<starter, groupVars, waiter, sessLive, ctxDone, creds, captchaWaiterActive, captchaCh,
                 refreshing, zeroConnSince>>

SendAnswer ==
  /\ SolveTimer \in Callers /\ call[SolveTimer].pc = "send"
  /\ captchaCh' = TRUE
  /\ call' = [call EXCEPT ![SolveTimer].pc = "timer"]
  /\ UNCHANGED <<starter, groupVars, waiter, sessLive, ctxDone, creds, captchaImageURL,
                 captchaWaiterActive, refreshing, unheard, zeroConnSince>>

TimerFires ==
  /\ SolveTimer \in Callers /\ call[SolveTimer].pc = "timer"
  /\ call' = [call EXCEPT ![SolveTimer] = IF activeConns THEN NoCall ELSE Calling("Resume")]
  /\ UNCHANGED <<starter, groupVars, waiter, sessLive, ctxDone, creds, captchaVars, zeroConnSince>>

(* RefreshCaptchaURL, from the window that shows the pending captcha. *)
RefreshStart ==
  /\ captchaImageURL /\ ~refreshing /\ ~ctxDone
  /\ refreshing' = TRUE
  /\ UNCHANGED <<starter, groupVars, waiter, call, sessLive, ctxDone, creds, captchaImageURL,
                 captchaWaiterActive, captchaCh, unheard, zeroConnSince>>

RefreshDone ==
  /\ refreshing
  /\ refreshing' = FALSE
  /\ \/ captchaImageURL' = TRUE /\ unheard' = (unheard \/ ~Heard)
     \/ UNCHANGED <<captchaImageURL, unheard>>
  /\ UNCHANGED <<starter, groupVars, waiter, call, sessLive, ctxDone, creds,
                 captchaWaiterActive, captchaCh, zeroConnSince>>

-----------------------------------------------------------------------------
(* The end *)

Stop ==
  /\ ~ctxDone
  /\ ctxDone' = TRUE
  /\ sessLive' = FALSE
  /\ CancelSession
  /\ UNCHANGED <<waiter, call, creds, captchaVars, zeroConnSince>>

StarterStep(s) ==
  \/ Begin(s) \/ Conn0FetchOk(s) \/ Conn0Fails(s) \/ Conn0Up(s) \/ Retry(s)
  \/ Publish(s) \/ SpawnWaiter(s)

WaiterStep(w) ==
  \/ Drain(w) \/ TakeAnswer(w) \/ ProbeStart(w) \/ ProbeOk(w) \/ ProbeNo(w)
  \/ WaiterStopped(w) \/ WaiterExit(w)

CallStep(c) == Enter(c) \/ SwapSession(c) \/ Finish(c)

WatchdogStep == WatchdogLooks \/ WatchdogZero

AppStep == (\E op \in {"Resume", "Pause"} : AppCall(op)) \/ WakeReconnects \/ SolveCaptcha

Next ==
  \/ \E s \in Starters : StarterStep(s) \/ WaiterStep(s)
  \/ \E c \in Callers \cup Starters : CallStep(c)
  \/ GroupEnds \/ ConnsLost \/ ConnsBack \/ CredsLost
  \/ AppStep \/ WatchdogStale \/ WatchdogStep \/ SendAnswer \/ TimerFires
  \/ RefreshStart \/ RefreshDone \/ Stop

Spec == Init /\ [][Next]_vars

(* What VK, the network and the user do to the tunnel. *)
Disturbance ==
  \/ \E s \in Starters :
       \/ Publish(s) \/ ProbeNo(s)
       \/ (starter[s].live \/ starter[s].pc = "fetch") /\ Conn0Fails(s)
  \/ ConnsLost \/ CredsLost \/ AppStep \/ WatchdogStale \/ RefreshStart

(* Goroutines run, requests and timers end, the watchdog ticks; a handshake    *)
(* that is tried again and again is not cut off every time by the five-minute  *)
(* watchdog.  Nothing is assumed of the user and of connections that were lost. *)
Fairness ==
  /\ \A s \in Starters :
       /\ WF_vars(StarterStep(s)) /\ WF_vars(WaiterStep(s))
       /\ SF_vars(Conn0Up(s))
  /\ \A c \in Callers \cup Starters : WF_vars(CallStep(c))
  /\ WF_vars(WatchdogLooks) /\ WF_vars(WatchdogZero)
  /\ WF_vars(SendAnswer) /\ WF_vars(TimerFires) /\ WF_vars(GroupEnds)
  /\ WF_vars(RefreshDone)

FairSpec == Spec /\ Fairness

-----------------------------------------------------------------------------
(* Properties *)

GoroutineTypes ==
  /\ starter \in [Starters -> StarterState]
  /\ waiter \in [Starters -> WaiterPC]
  /\ call \in [Callers \cup Starters -> CallState]
  /\ \A w \in Starters : call[w].pc # "idle" <=> waiter[w] = "answered"
  /\ \A c \in Callers \cup Starters : call[c].pc \in {"send", "timer"} => c = SolveTimer

FlagTypes ==
  /\ groups \in 0 .. 2
  /\ active \in BOOLEAN /\ oldActive \in BOOLEAN /\ sessLive \in BOOLEAN /\ ctxDone \in BOOLEAN
  /\ creds \in BOOLEAN /\ captchaImageURL \in BOOLEAN /\ captchaWaiterActive \in BOOLEAN
  /\ captchaCh \in BOOLEAN /\ refreshing \in BOOLEAN /\ zeroConnSince \in BOOLEAN
  /\ unheard \in BOOLEAN

(* Every variable has its type; a waiter is inside Resume exactly while it has *)
(* its answer, and only SolveCaptcha has a timer.                *)
TypeOK == GoroutineTypes /\ FlagTypes

(* Two captcha waiters would steal each other's answers: at most one runs, and *)
(* captchaWaiterActive says whether one does.                                 *)
OneWaiter ==
  /\ captchaWaiterActive <=> \E w \in Starters : waiter[w] # "off"
  /\ \A v, w \in Starters : waiter[v] # "off" /\ waiter[w] # "off" => v = w

(* While a captcha is pending, which stops every other kind of restart, some  *)
(* waiter will hear the answer or is about to be spawned, except after the two *)
(* races that unheard records.                                                *)
PendingIsWatched ==
  captchaImageURL => Heard \/ unheard \/ \E s \in Starters : starter[s].pc = "spawn"

(* The tunnel comes back by itself: once VK hands out credentials, the network *)
(* works and the user leaves the proxy alone, some connection is up again and  *)
(* again, whatever state the bootstraps, the captcha and the calls were in.    *)
Recovers ==
  (<>[][~Disturbance]_vars /\ <>[]~unheard) => []<>(active \/ ctxDone)

(* After Stop every goroutine of the proxy ends. *)
StopEndsAll ==
  ctxDone ~> /\ ~activeConns
             /\ \A s \in Starters : starter[s].pc = "free" /\ waiter[s] = "off"

=============================================================================
