--------------------------- MODULE Lifecycle_proofs ---------------------------
(***************************************************************************)
(* Proofs about Lifecycle, for any number of runs of startConnections, any *)
(* number of attempts and any set of callers; and about the sizes that     *)
(* NewProxy and the grower compute (PoolSizing), for any NumConns.         *)
(***************************************************************************)
EXTENDS Lifecycle, PoolSizing, TLAPS

USE StarterAssumption, AttemptAssumption, CallerAssumption

(* The records a run of startConnections starts from have their type. *)
LEMMA RecordTypes ==
  Free \in StarterState /\ New \in StarterState
<1>1. 0 \in 0 .. MaxAttempts - 1
  OBVIOUS
<1>2. QED
  BY <1>1 DEF Free, New, StarterState

(* Cancelling a session keeps the types of what it changes. *)
LEMMA CancelTypes ==
  ASSUME TypeOK, CancelSession
  PROVE  /\ starter' \in [Starters -> StarterState]
         /\ groups' \in 0 .. 2 /\ active' \in BOOLEAN /\ oldActive' \in BOOLEAN
<1>1. \A s \in Starters : [starter[s] EXCEPT !.live = FALSE] \in StarterState
  BY DEF TypeOK, GoroutineTypes, StarterState
<1>2. starter' \in [Starters -> StarterState]
  BY <1>1 DEF CancelSession
<1>3. active' \in BOOLEAN /\ oldActive' \in BOOLEAN
  BY Zenon DEF CancelSession
<1>4. groups' \in 0 .. 2
  BY DEF CancelSession
<1>5. QED
  BY <1>2, <1>3, <1>4

(* What a run of startConnections does to its own record keeps its type. *)
LEMMA SpawnType ==
  ASSUME TypeOK, NEW s \in Starters, NEW live \in BOOLEAN,
         SpawnConn0(s, live) \/ Conn0Error(s) \/ Fail(s)
  PROVE  starter' \in [Starters -> StarterState]
<1>1. CASE Fail(s)
  BY <1>1 DEF TypeOK, GoroutineTypes, FlagTypes, StarterState, Fail, Free
<1>2. CASE Conn0Error(s)
  BY <1>1, <1>2 DEF TypeOK, GoroutineTypes, FlagTypes, StarterState, Conn0Error
<1>3. CASE SpawnConn0(s, live)
  BY <1>2, <1>3 DEF TypeOK, GoroutineTypes, FlagTypes, StarterState, SpawnConn0
<1>4. QED
  BY <1>1, <1>2, <1>3

(* Every step of a run of startConnections keeps the types: a waiter is only    *)
(* spawned when there is none, hence over none that is within Resume.         *)
LEMMA StarterType ==
  ASSUME TypeOK, OneWaiter, NEW s \in Starters, StarterStep(s)
  PROVE  TypeOK'
<1>1. CASE Begin(s)
  <2>1. SpawnConn0(s, sessLive) /\ sessLive \in BOOLEAN
    BY <1>1 DEF Begin, TypeOK, GoroutineTypes, FlagTypes
  <2>2. QED
    BY <1>1, <2>1, SpawnType DEF Begin, TypeOK, GoroutineTypes, FlagTypes, groupVars, captchaVars
<1>2. CASE Conn0FetchOk(s)
  BY <1>2 DEF Conn0FetchOk, TypeOK, GoroutineTypes, FlagTypes, StarterState, groupVars, captchaVars
<1>3. CASE Conn0Fails(s)
  <2>1. Conn0Error(s)
    BY <1>3 DEF Conn0Fails
  <2>2. QED
    BY <1>3, <2>1, SpawnType DEF Conn0Fails, TypeOK, GoroutineTypes, FlagTypes, groupVars, captchaVars
<1>4. CASE Conn0Up(s)
  BY <1>4 DEF Conn0Up, TypeOK, GoroutineTypes, FlagTypes, StarterState, Free, captchaVars
<1>5. CASE Retry(s)
  <2>1. /\ Fail(s) \/ SpawnConn0(s, starter[s].live)
        /\ starter[s].live \in BOOLEAN
    BY <1>5 DEF Retry, TypeOK, GoroutineTypes, FlagTypes, StarterState
  <2>2. QED
    BY <1>5, <2>1, SpawnType DEF Retry, TypeOK, GoroutineTypes, FlagTypes, groupVars, captchaVars
<1>6. CASE Publish(s)
  BY <1>6 DEF Publish, TypeOK, GoroutineTypes, FlagTypes, StarterState, groupVars
<1>7. CASE SpawnWaiter(s)
  <2>1. GoroutineTypes'
    <3>1. starter' \in [Starters -> StarterState]
      BY <1>7, RecordTypes DEF TypeOK, GoroutineTypes, SpawnWaiter
    <3>2. waiter' = waiter \/ (waiter[s] = "off" /\ waiter' = [waiter EXCEPT ![s] = "drain"])
      BY <1>7 DEF SpawnWaiter, SpawnOneWaiter, OneWaiter
    <3>3. QED
      BY <1>7, <3>1, <3>2 DEF TypeOK, GoroutineTypes, SpawnWaiter, WaiterPC
  <2>2. FlagTypes'
    BY <1>7 DEF TypeOK, FlagTypes, SpawnWaiter, SpawnOneWaiter, groupVars
  <2>3. QED
    BY <2>1, <2>2 DEF TypeOK
<1>8. QED
  BY <1>1, <1>2, <1>3, <1>4, <1>5, <1>6, <1>7 DEF StarterStep

(* Every step of a captcha waiter does. *)
LEMMA WaiterType ==
  ASSUME TypeOK, NEW w \in Starters, WaiterStep(w)
  PROVE  TypeOK'
<1>1. CASE Drain(w)
  <2>1. GoroutineTypes'
    BY <1>1 DEF TypeOK, GoroutineTypes, Drain, WaiterPC
  <2>2. FlagTypes'
    BY <1>1 DEF TypeOK, FlagTypes, Drain, groupVars
  <2>3. QED
    BY <2>1, <2>2 DEF TypeOK
<1>2. CASE TakeAnswer(w)
  <2>1. GoroutineTypes'
    BY <1>2 DEF TypeOK, GoroutineTypes, TakeAnswer, WaiterPC, CallState, Calling
  <2>2. FlagTypes'
    BY <1>2 DEF TypeOK, FlagTypes, TakeAnswer, ClearCaptcha, groupVars
  <2>3. QED
    BY <2>1, <2>2 DEF TypeOK
<1>3. CASE ProbeStart(w)
  <2>1. GoroutineTypes'
    BY <1>3 DEF TypeOK, GoroutineTypes, ProbeStart, WaiterPC
  <2>2. FlagTypes'
    BY <1>3 DEF TypeOK, FlagTypes, ProbeStart, groupVars, captchaVars
  <2>3. QED
    BY <2>1, <2>2 DEF TypeOK
<1>4. CASE ProbeOk(w)
  <2>1. GoroutineTypes'
    BY <1>4 DEF TypeOK, GoroutineTypes, ProbeOk, WaiterPC, CallState, Calling
  <2>2. FlagTypes'
    BY <1>4 DEF TypeOK, FlagTypes, ProbeOk, ClearCaptcha, groupVars
  <2>3. QED
    BY <2>1, <2>2 DEF TypeOK
<1>5. CASE ProbeNo(w)
  <2>1. GoroutineTypes'
    BY <1>5 DEF TypeOK, GoroutineTypes, ProbeNo, WaiterPC
  <2>2. FlagTypes'
    BY <1>5 DEF TypeOK, FlagTypes, ProbeNo, groupVars
  <2>3. QED
    BY <2>1, <2>2 DEF TypeOK
<1>6. CASE WaiterStopped(w)
  <2>1. GoroutineTypes'
    BY <1>6 DEF TypeOK, GoroutineTypes, WaiterStopped, WaiterPC
  <2>2. FlagTypes'
    BY <1>6 DEF TypeOK, FlagTypes, WaiterStopped, ClearCaptcha, groupVars
  <2>3. QED
    BY <2>1, <2>2 DEF TypeOK
<1>7. CASE WaiterExit(w)
  <2>1. GoroutineTypes'
    BY <1>7 DEF TypeOK, GoroutineTypes, WaiterExit, WaiterPC
  <2>2. FlagTypes'
    BY <1>7 DEF TypeOK, FlagTypes, WaiterExit, groupVars
  <2>3. QED
    BY <2>1, <2>2 DEF TypeOK
<1>8. QED
  BY <1>1, <1>2, <1>3, <1>4, <1>5, <1>6, <1>7 DEF WaiterStep

(* The call within Resume, ForceReconnect or Pause returns. *)
LEMMA ReturnType ==
  ASSUME TypeOK, NEW c \in Callers \cup Starters, Return(c), call[c].pc # "idle"
  PROVE  /\ waiter' \in [Starters -> WaiterPC]
         /\ call' \in [Callers \cup Starters -> CallState]
         /\ \A w \in Starters : call'[w].pc # "idle" <=> waiter'[w] = "answered"
         /\ \A d \in Callers \cup Starters : call'[d].pc \in {"send", "timer"} => d = SolveTimer
BY DEF TypeOK, GoroutineTypes, FlagTypes, Return, WaiterPC, CallState, NoCall

(* Every step of a caller does. *)
LEMMA CallType ==
  ASSUME TypeOK, NEW c \in Callers \cup Starters, CallStep(c)
  PROVE  TypeOK'
<1>1. CASE Enter(c)
  <2>1. CASE Return(c)
    BY <1>1, <2>1, ReturnType DEF Enter, TypeOK, GoroutineTypes, FlagTypes, groupVars, captchaVars
  <2>2. CASE call' = [call EXCEPT ![c].pc = "swap"] /\ UNCHANGED waiter
    BY <1>1, <2>2 DEF Enter, TypeOK, GoroutineTypes, FlagTypes, CallState, groupVars, captchaVars
  <2>3. QED
    BY <1>1, <2>1, <2>2 DEF Enter
<1>2. CASE SwapSession(c)
  <2>1. GoroutineTypes'
    BY <1>2, CancelTypes DEF TypeOK, GoroutineTypes, SwapSession, CallState
  <2>2. sessLive' \in BOOLEAN
    BY <1>2, Zenon DEF SwapSession
  <2>3. QED
    BY <1>2, <2>1, <2>2, CancelTypes DEF TypeOK, FlagTypes, SwapSession, captchaVars
<1>3. CASE Finish(c)
  <2>1. starter' \in [Starters -> StarterState]
    BY <1>3, RecordTypes DEF Finish, Launch, TypeOK, GoroutineTypes
  <2>2. QED
    BY <1>3, <2>1, ReturnType DEF Finish, TypeOK, GoroutineTypes, FlagTypes, groupVars, captchaVars
<1>4. QED
  BY <1>1, <1>2, <1>3 DEF CallStep

(* A call that begins keeps the types. *)
LEMMA BeginsType ==
  ASSUME TypeOK, NEW c, NEW op \in {"Resume", "ForceReconnect", "Pause"}, Begins(c, op),
         zeroConnSince' \in BOOLEAN
  PROVE  TypeOK'
BY DEF TypeOK, GoroutineTypes, FlagTypes, Begins, Idle, Calling, CallState, groupVars, captchaVars

(* Every step keeps the types. *)
LEMMA TypeStep == TypeOK /\ OneWaiter /\ [Next]_vars => TypeOK'
<1> SUFFICES ASSUME TypeOK, OneWaiter, [Next]_vars PROVE TypeOK'
  OBVIOUS
<1>1. ASSUME NEW s \in Starters, StarterStep(s) \/ WaiterStep(s) PROVE TypeOK'
  BY <1>1, StarterType, WaiterType
<1>2. ASSUME NEW c \in Callers \cup Starters, CallStep(c) PROVE TypeOK'
  BY <1>2, CallType
<1>3. CASE GroupEnds \/ ConnsLost \/ ConnsBack \/ CredsLost
  <2>1. GoroutineTypes'
    BY <1>3 DEF TypeOK, GoroutineTypes, GroupEnds, ConnsLost, ConnsBack, CredsLost
  <2>2. FlagTypes'
    <3>1. CASE GroupEnds
      BY <3>1 DEF TypeOK, FlagTypes, GroupEnds, captchaVars
    <3>2. CASE ConnsLost
      BY <3>2 DEF TypeOK, FlagTypes, ConnsLost, captchaVars
    <3>3. CASE ConnsBack
      BY <3>3 DEF TypeOK, FlagTypes, ConnsBack, captchaVars
    <3>4. CASE CredsLost
      BY <3>4 DEF TypeOK, FlagTypes, CredsLost, groupVars, captchaVars
    <3>5. QED
      BY <1>3, <3>1, <3>2, <3>3, <3>4
  <2>3. QED
    BY <2>1, <2>2 DEF TypeOK
<1>4. CASE AppStep
  <2>1. ASSUME NEW op \in {"Resume", "Pause"}, AppCall(op) PROVE TypeOK'
    <3>1. Begins(App, op) /\ zeroConnSince' = zeroConnSince
      BY <2>1 DEF AppCall
    <3>2. QED
      BY <3>1, BeginsType DEF TypeOK, GoroutineTypes, FlagTypes
  <2>2. CASE WakeReconnects
    BY <2>2, BeginsType DEF WakeReconnects, TypeOK, GoroutineTypes, FlagTypes
  <2>3. CASE SolveCaptcha
    BY <2>3, ZenonT(30) DEF SolveCaptcha, Idle, ClearCaptcha, TypeOK, GoroutineTypes, FlagTypes, CallState, groupVars
  <2>4. QED
    BY <1>4, <2>1, <2>2, <2>3 DEF AppStep
<1>5. CASE WatchdogStale
  BY <1>5, BeginsType DEF WatchdogStale, TypeOK, GoroutineTypes, FlagTypes
<1>6. CASE WatchdogStep
  <2>1. CASE WatchdogLooks
    BY <2>1 DEF WatchdogLooks, TypeOK, GoroutineTypes, FlagTypes, groupVars, captchaVars
  <2>2. CASE WatchdogZero
    BY <2>2, BeginsType DEF WatchdogZero
  <2>3. QED
    BY <1>6, <2>1, <2>2 DEF WatchdogStep
<1>7. CASE SendAnswer
  BY <1>7 DEF SendAnswer, TypeOK, GoroutineTypes, FlagTypes, CallState, groupVars
<1>8. CASE TimerFires
  BY <1>8 DEF TimerFires, TypeOK, GoroutineTypes, FlagTypes, CallState, NoCall, Calling, groupVars, captchaVars
<1>9. CASE RefreshStart \/ RefreshDone
  <2>1. GoroutineTypes'
    BY <1>9 DEF TypeOK, GoroutineTypes, RefreshStart, RefreshDone
  <2>2. refreshing' \in BOOLEAN /\ captchaImageURL' \in BOOLEAN /\ unheard' \in BOOLEAN
    BY <1>9, Zenon DEF TypeOK, FlagTypes, RefreshStart, RefreshDone
  <2>3. QED
    BY <1>9, <2>1, <2>2 DEF TypeOK, FlagTypes, RefreshStart, RefreshDone, groupVars
<1>10. CASE Stop
  BY <1>10, CancelTypes DEF Stop, TypeOK, GoroutineTypes, FlagTypes, captchaVars
<1>11. CASE UNCHANGED vars
  BY <1>11 DEF vars, TypeOK, GoroutineTypes, FlagTypes, groupVars, captchaVars
<1>12. QED
  BY <1>1, <1>2, <1>3, <1>4, <1>5, <1>6, <1>7, <1>8, <1>9, <1>10, <1>11 DEF Next

(* Init establishes the types. *)
LEMMA TypeInit == Init => TypeOK
<1> SUFFICES ASSUME Init PROVE TypeOK
  OBVIOUS
<1>1. GoroutineTypes
  <2>1. starter \in [Starters -> StarterState]
    BY RecordTypes DEF Init
  <2>2. QED
    BY <2>1 DEF GoroutineTypes, Init, WaiterPC, CallState, NoCall
<1>2. FlagTypes
  <2>1. groups \in 0 .. 2
    BY DEF Init
  <2>2. QED
    BY <2>1, Zenon DEF FlagTypes, Init
<1>3. QED
  BY <1>1, <1>2 DEF TypeOK

-----------------------------------------------------------------------------
(* The inductive invariant.  None of the three is inductive alone: the types   *)
(* need OneWaiter (see StarterType), PendingIsWatched needs it to know that a  *)
(* waiter it did not spawn exists.                                            *)
IInv == TypeOK /\ OneWaiter /\ PendingIsWatched

(* What a step does to the waiters and the flag: nothing, spawn the first one,  *)
(* move one that runs, or end one.                                            *)
WaitersMove ==
  \/ UNCHANGED <<waiter, captchaWaiterActive>>
  \/ captchaWaiterActive /\ captchaWaiterActive' /\ UNCHANGED waiter
  \/ \E w \in Starters, pc \in WaiterPC \ {"off"} :
       /\ waiter' = [waiter EXCEPT ![w] = pc]
       /\ \/ ~captchaWaiterActive /\ captchaWaiterActive'
          \/ waiter[w] # "off" /\ UNCHANGED captchaWaiterActive
  \/ \E w \in Starters :
       waiter[w] # "off" /\ waiter' = [waiter EXCEPT ![w] = "off"] /\ ~captchaWaiterActive'

(* Every step does one of these: the compare-and-swap of startConnections, the  *)
(* waiter's own steps and the Resume it makes are all that touch the waiters.  *)
LEMMA StepMovesWaiters == TypeOK /\ OneWaiter /\ [Next]_vars => WaitersMove
<1> SUFFICES ASSUME TypeOK, OneWaiter, [Next]_vars PROVE WaitersMove
  OBVIOUS
<1>1. ASSUME NEW s \in Starters, StarterStep(s) PROVE WaitersMove
  <2>1. CASE SpawnWaiter(s)
    BY <2>1 DEF SpawnWaiter, SpawnOneWaiter, WaitersMove, WaiterPC, TypeOK, FlagTypes
  <2>2. CASE ~SpawnWaiter(s)
    <3>1. UNCHANGED <<waiter, captchaWaiterActive>>
      BY <1>1, <2>2 DEF StarterStep, Begin, Conn0FetchOk, Conn0Fails, Conn0Up, Retry, Publish,
                        captchaVars
    <3>2. QED
      BY <3>1 DEF WaitersMove
  <2>3. QED
    BY <2>1, <2>2
<1>2. ASSUME NEW w \in Starters, WaiterStep(w) PROVE WaitersMove
  <2>1. CASE WaiterExit(w)
    BY <2>1 DEF WaiterExit, WaitersMove
  <2>2. CASE ~WaiterExit(w)
    <3>1. /\ \E pc \in WaiterPC \ {"off"} : waiter' = [waiter EXCEPT ![w] = pc]
          /\ waiter[w] # "off"
          /\ UNCHANGED captchaWaiterActive
      BY <1>2, <2>2 DEF WaiterStep, Drain, TakeAnswer, ProbeStart, ProbeOk, ProbeNo, WaiterStopped,
                        WaiterPC, captchaVars
    <3>2. QED
      BY <3>1 DEF WaitersMove
  <2>3. QED
    BY <2>1, <2>2
<1>3. ASSUME NEW c \in Callers \cup Starters, CallStep(c) PROVE WaitersMove
  <2>1. call[c].pc # "idle" /\ UNCHANGED captchaWaiterActive
    BY <1>3 DEF CallStep, Enter, SwapSession, Finish, captchaVars
  <2>2. UNCHANGED waiter \/ (c \in Starters /\ waiter' = [waiter EXCEPT ![c] = "exit"])
    BY <1>3 DEF CallStep, Enter, SwapSession, Finish, Return
  <2>3. c \in Starters => waiter[c] # "off"
    BY <2>1 DEF TypeOK, GoroutineTypes
  <2>4. QED
    BY <2>1, <2>2, <2>3 DEF WaitersMove, WaiterPC
<1>4. CASE \/ GroupEnds \/ ConnsLost \/ ConnsBack \/ CredsLost \/ AppStep \/ WatchdogStale
           \/ WatchdogStep \/ SendAnswer \/ TimerFires \/ RefreshStart \/ RefreshDone
           \/ Stop \/ UNCHANGED vars
  <2>1. UNCHANGED <<waiter, captchaWaiterActive>>
    BY <1>4 DEF GroupEnds, ConnsLost, ConnsBack, CredsLost, AppStep, AppCall, WakeReconnects,
                Begins, SolveCaptcha, WatchdogStale, WatchdogStep, WatchdogLooks, WatchdogZero,
                SendAnswer, TimerFires, RefreshStart, RefreshDone, Stop, vars, captchaVars
  <2>2. QED
    BY <2>1 DEF WaitersMove
<1>5. QED
  BY <1>1, <1>2, <1>3, <1>4 DEF Next

(* Hence two captcha waiters never come to run together. *)
LEMMA OneWaiterStep == TypeOK /\ OneWaiter /\ [Next]_vars => OneWaiter'
<1> SUFFICES ASSUME TypeOK, OneWaiter, WaitersMove PROVE OneWaiter'
  BY StepMovesWaiters
<1> USE DEF TypeOK, GoroutineTypes, OneWaiter, WaiterPC
<1>1. CASE UNCHANGED <<waiter, captchaWaiterActive>>
  BY <1>1
<1>2. CASE captchaWaiterActive /\ captchaWaiterActive' /\ UNCHANGED waiter
  BY <1>2
<1>3. ASSUME NEW w \in Starters, NEW pc \in WaiterPC \ {"off"},
             waiter' = [waiter EXCEPT ![w] = pc],
             \/ ~captchaWaiterActive /\ captchaWaiterActive'
             \/ waiter[w] # "off" /\ UNCHANGED captchaWaiterActive
      PROVE  OneWaiter'
  BY <1>3
<1>4. ASSUME NEW w \in Starters, waiter[w] # "off",
             waiter' = [waiter EXCEPT ![w] = "off"], ~captchaWaiterActive'
      PROVE  OneWaiter'
  BY <1>4
<1>5. QED
  BY <1>1, <1>2, <1>3, <1>4 DEF WaitersMove

(* A step that leaves the captcha as it is, keeps the runs that are about to    *)
(* spawn and the waiters that will hear, keeps PendingIsWatched.              *)
LEMMA WatchedFrame ==
  ASSUME PendingIsWatched, UNCHANGED <<captchaImageURL, unheard>>,
         \A s \in Starters : starter[s].pc = "spawn" => starter'[s].pc = "spawn",
         \A w \in Starters : waiter[w] \in {"drain", "wait", "probe"} => waiter'[w] = waiter[w]
  PROVE  PendingIsWatched'
BY DEF PendingIsWatched, Heard

(* A run of startConnections shows a captcha only on its way to spawning the    *)
(* waiter, and does not leave it without one that will hear the answer.        *)
LEMMA StarterWatched ==
  ASSUME TypeOK, OneWaiter, PendingIsWatched, NEW s \in Starters, StarterStep(s)
  PROVE  PendingIsWatched'
<1>1. CASE Publish(s)
  BY <1>1 DEF Publish, PendingIsWatched, TypeOK, GoroutineTypes, StarterState
<1>2. CASE SpawnWaiter(s)
  <2>1. CASE ~captchaWaiterActive
    <3>1. waiter'[s] = "drain"
      BY <1>2, <2>1 DEF SpawnWaiter, SpawnOneWaiter, TypeOK, GoroutineTypes
    <3>2. QED
      BY <3>1 DEF PendingIsWatched, Heard
  <2>2. CASE captchaWaiterActive
    <3>1. Heard \/ Leaving
      BY <2>2 DEF OneWaiter, Heard, Leaving, TypeOK, GoroutineTypes, WaiterPC
    <3>2. /\ waiter' = waiter
          /\ unheard' <=> unheard \/ (captchaImageURL /\ Leaving)
          /\ captchaImageURL' = captchaImageURL
      BY <1>2, <2>2 DEF SpawnWaiter, SpawnOneWaiter
    <3>3. Heard' <=> Heard
      BY <3>2 DEF Heard
    <3>4. QED
      BY <3>1, <3>2, <3>3 DEF PendingIsWatched
  <2>3. QED
    BY <2>1, <2>2
<1>3. CASE Begin(s) \/ Conn0FetchOk(s) \/ Conn0Fails(s) \/ Conn0Up(s) \/ Retry(s)
  <2>1. starter[s].pc # "spawn" /\ UNCHANGED <<waiter, captchaImageURL, unheard>>
    BY <1>3 DEF Begin, Conn0FetchOk, Conn0Fails, Conn0Up, Retry, captchaVars
  <2>2. \A t \in Starters \ {s} : starter'[t] = starter[t]
    BY <1>3 DEF Begin, Conn0FetchOk, Conn0Fails, Conn0Up, Retry, SpawnConn0, Conn0Error, Fail,
                TypeOK, GoroutineTypes
  <2>3. QED
    BY <2>1, <2>2, WatchedFrame
<1>4. QED
  BY <1>1, <1>2, <1>3 DEF StarterStep

(* A waiter that will not hear any more clears the captcha first. *)
LEMMA WaiterWatched ==
  ASSUME TypeOK, PendingIsWatched, NEW w \in Starters, WaiterStep(w)
  PROVE  PendingIsWatched'
<1>1. CASE Drain(w) \/ ProbeStart(w) \/ ProbeNo(w)
  <2>1. waiter'[w] \in {"wait", "probe"}
    BY <1>1 DEF Drain, ProbeStart, ProbeNo, TypeOK, GoroutineTypes
  <2>2. QED
    BY <2>1 DEF PendingIsWatched, Heard
<1>2. CASE TakeAnswer(w) \/ ProbeOk(w) \/ WaiterStopped(w)
  BY <1>2 DEF TakeAnswer, ProbeOk, WaiterStopped, ClearCaptcha, PendingIsWatched
<1>3. CASE WaiterExit(w)
  BY <1>3, WatchedFrame DEF WaiterExit, TypeOK, GoroutineTypes
<1>4. QED
  BY <1>1, <1>2, <1>3 DEF WaiterStep

(* Only a waiter that has its answer is inside Resume, and a call that starts   *)
(* the connections does not touch the runs that exist.                        *)
LEMMA CallWatched ==
  ASSUME TypeOK, PendingIsWatched, NEW c \in Callers \cup Starters, CallStep(c)
  PROVE  PendingIsWatched'
<1>1. call[c].pc # "idle" /\ UNCHANGED <<captchaImageURL, unheard>>
  BY DEF CallStep, Enter, SwapSession, Finish, captchaVars
<1>2. c \in Starters => waiter[c] = "answered"
  BY <1>1 DEF TypeOK, GoroutineTypes
<1>3. UNCHANGED waiter \/ (c \in Starters /\ waiter' = [waiter EXCEPT ![c] = "exit"])
  BY DEF CallStep, Enter, SwapSession, Finish, Return
<1>4. \A w \in Starters : waiter[w] \in {"drain", "wait", "probe"} => waiter'[w] = waiter[w]
  BY <1>2, <1>3 DEF TypeOK, GoroutineTypes
<1>5. \A s \in Starters : starter[s].pc = "spawn" => starter'[s].pc = "spawn"
  <2>1. CASE Enter(c)
    BY <2>1 DEF Enter
  <2>2. CASE SwapSession(c)
    BY <2>2 DEF SwapSession, CancelSession, TypeOK, GoroutineTypes, StarterState
  <2>3. CASE Finish(c)
    BY <2>3 DEF Finish, Launch, TypeOK, GoroutineTypes
  <2>4. QED
    BY <2>1, <2>2, <2>3 DEF CallStep
<1>6. QED
  BY <1>1, <1>4, <1>5, WatchedFrame

(* Hence no step leaves a pending captcha unwatched, save for the two races. *)
LEMMA PendingStep == TypeOK /\ OneWaiter /\ PendingIsWatched /\ [Next]_vars => PendingIsWatched'
<1> SUFFICES ASSUME TypeOK, OneWaiter, PendingIsWatched, [Next]_vars PROVE PendingIsWatched'
  OBVIOUS
<1>1. ASSUME NEW s \in Starters, StarterStep(s) \/ WaiterStep(s) PROVE PendingIsWatched'
  BY <1>1, StarterWatched, WaiterWatched
<1>2. ASSUME NEW c \in Callers \cup Starters, CallStep(c) PROVE PendingIsWatched'
  BY <1>2, CallWatched
<1>3. CASE SolveCaptcha
  BY <1>3 DEF SolveCaptcha, ClearCaptcha, PendingIsWatched
<1>4. CASE RefreshDone
  <2>1. UNCHANGED <<starter, waiter>>
    BY <1>4 DEF RefreshDone
  <2>2. CASE UNCHANGED <<captchaImageURL, unheard>>
    BY <2>1, <2>2, WatchedFrame
  <2>3. CASE unheard' <=> unheard \/ ~Heard
    BY <2>1, <2>3 DEF PendingIsWatched, Heard
  <2>4. QED
    BY <1>4, <2>2, <2>3 DEF RefreshDone
<1>5. CASE Stop
  BY <1>5, WatchedFrame DEF Stop, CancelSession, TypeOK, GoroutineTypes, StarterState, captchaVars
<1>6. CASE \/ GroupEnds \/ ConnsLost \/ ConnsBack \/ CredsLost \/ WakeReconnects \/ WatchdogStale
           \/ (\E op \in {"Resume", "Pause"} : AppCall(op))
           \/ WatchdogStep \/ SendAnswer \/ TimerFires \/ RefreshStart \/ UNCHANGED vars
  <2>1. UNCHANGED <<starter, waiter, captchaImageURL, unheard>>
    BY <1>6 DEF GroupEnds, ConnsLost, ConnsBack, CredsLost, AppCall, WakeReconnects, Begins,
                WatchdogStale, WatchdogStep, WatchdogLooks, WatchdogZero, SendAnswer, TimerFires,
                RefreshStart, vars, captchaVars
  <2>2. QED
    BY <2>1, WatchedFrame
<1>7. QED
  BY <1>1, <1>2, <1>3, <1>4, <1>5, <1>6 DEF Next, AppStep

(* The inductive invariant holds in every reachable state. *)
LEMMA IInvHolds == Spec => []IInv
<1>1. Init => IInv
  BY TypeInit DEF Init, IInv, OneWaiter, PendingIsWatched
<1>2. IInv /\ [Next]_vars => IInv'
  BY TypeStep, OneWaiterStep, PendingStep DEF IInv
<1>3. QED
  BY <1>1, <1>2, PTL DEF Spec

(* Every variable keeps its type: in particular a waiter is inside Resume       *)
(* exactly while it has its answer.                              *)
THEOREM TypeCorrect == Spec => []TypeOK
<1>1. IInv => TypeOK
  BY DEF IInv
<1>2. QED
  BY <1>1, IInvHolds, PTL

(* At most one waitCaptchaAndRestart runs and captchaWaiterActive says whether  *)
(* one does, however many bootstraps meet a captcha at once.                   *)
THEOREM OneWaiterAlways == Spec => []OneWaiter
<1>1. IInv => OneWaiter
  BY DEF IInv
<1>2. QED
  BY <1>1, IInvHolds, PTL

(* A pending captcha is watched by a goroutine that will hear its answer, with  *)
(* no exception but the two races PendingIsWatched names.                      *)
THEOREM PendingAlwaysWatched == Spec => []PendingIsWatched
<1>1. IInv => PendingIsWatched
  BY DEF IInv
<1>2. QED
  BY <1>1, IInvHolds, PTL

-----------------------------------------------------------------------------
(* PoolSizing: NewProxy's pool and the two cold-start targets. *)

(* get's cap and the grower's target agree for every configured NumConns. *)
LEMMA SameTarget == \A n \in Int : TargetsAgree(n)
BY DEF TargetsAgree, coldStartTarget, coldStartSlots, poolSizeForNumConns, AtLeast

(* The cold-start target is enough for every configured NumConns. *)
LEMMA TargetSuffices == \A n \in Int : TargetHostsAll(n)
BY DEF TargetHostsAll, coldStartTarget, poolSizeForNumConns, AtLeast, connsPerSlot

(* Every connection's own slot is in the pool, for every configured NumConns. *)
LEMMA OwnSlotInPool == \A n \in Int : OwnSlotExists(n)
BY DEF OwnSlotExists, ownSlot, poolSizeForNumConns, AtLeast, connsPerSlot

(* The three formulas of creds.go and proxy.go fit together for every value an  *)
(* app may give NumConns, also zero and less: neither get nor the grower       *)
(* fetches past the other's target, a pool filled up to it hosts every conn    *)
(* within the quota, and each conn's own slot exists.                          *)
THEOREM SizesAlwaysFit == \A n \in Int : SizesFit(n)
BY SameTarget, TargetSuffices, OwnSlotInPool DEF SizesFit

=============================================================================
