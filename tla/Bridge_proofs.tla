---------------------------- MODULE Bridge_proofs -----------------------------
(***************************************************************************)
(* Proofs about Bridge, for any number of calling threads, tunnels and     *)
(* devices.                                                                *)
(*                                                                         *)
(* An export does one thing under tunnelsMu and the rest outside of it, so *)
(* none of the properties is inductive.  What makes them so is said by     *)
(* CallInv (a call is where its function can be, and knows a tunnel that   *)
(* was made), HandleInv (between the two critical sections of a call that  *)
(* makes or removes a tunnel nobody else has its handle) and DeviceInv     *)
(* (whose device a call holds).                                            *)
(***************************************************************************)
EXTENDS Bridge, TLAPS

USE BridgeAssumption

-----------------------------------------------------------------------------
(* The strengthening *)

(* The function a call is in fits the point it is at. *)
OpAt(k) ==
  /\ k.pc = "idle" <=> k = Idle
  /\ k.pc = "idle" <=> k.op = "none"
  /\ k.pc \in {"create", "up", "starting", "publish"} => k.op \in {"TurnOn", "Attach"}
  /\ k.pc = "close" => k.op \in {"TurnOn", "Attach", "TurnOff"}
  /\ k.pc \in {"wait", "replay"} => k.op = "Wait"
  /\ k.pc = "replay" => k.got \in {"ok", "failed"}
  /\ k.pc \in {"stop", "drain"} => k.op = "TurnOff"
  /\ k.pc = "use" => k.op = "Use"
  /\ k.pc \in {"create", "stop"} => k.dev = None
  /\ k.pc \in {"up", "starting", "publish", "close"} => k.dev \in Devices

CallInv ==
  /\ \A c \in Callers : OpAt(call[c])
  /\ \A c \in Callers : call[c].op # "none" => call[c].id \in 1 .. nextID
  /\ \A i \in Ids : boot[i] # "none" \/ proxy[i].started => i \in 1 .. nextID

(* The calls that make a tunnel or tear it down. *)
Exclusive(k) == k.op \in {"TurnOn", "TurnOff"}

HandleInv ==
  /\ \A c \in Callers : Exclusive(call[c]) => call[c].id \notin tunnels
  /\ \A b, c \in Callers :
       Exclusive(call[b]) /\ Exclusive(call[c]) /\ call[b].id = call[c].id => b = c

StopInv ==
  /\ \A c \in Callers :
       call[c].op = "TurnOff" /\ call[c].pc # "stop" => proxy[call[c].id].done
  /\ \A i \in 1 .. nextID :
       \/ i \in tunnels \/ proxy[i].done \/ i \in abandoned
       \/ \E c \in Callers : call[c].id = i /\ Exclusive(call[c])

OutcomeInv ==
  /\ \A i \in Ids : proxy[i].ch \in {"empty", proxy[i].outcome}
  /\ \A c \in Callers : call[c].pc = "replay" => call[c].got = proxy[call[c].id].outcome
  /\ OutcomeKept

DeviceInv ==
  /\ \A c \in Callers :
       call[c].op \in {"TurnOn", "Attach"} /\ call[c].dev # None
         => device[call[c].dev].of = call[c].id /\ device[call[c].dev].pc # "unused"
  /\ \A c \in Callers : call[c].op = "Attach" => call[c].id \in tunnels \cup overtaken
  /\ OpenDeviceOwned

-----------------------------------------------------------------------------
(* Type correctness *)

LEMMA RecordTypes ==
  /\ Idle \in CallState
  /\ NewProxy \in ProxyState
  /\ NoDevice \in DeviceState
BY DEF Idle, CallState, NewProxy, ProxyState, NoDevice, DeviceState

LEMMA TypeInit == Init => TypeOK
BY RecordTypes DEF Init, TypeOK, Ids

(* One field of a record changes: it keeps its type. *)
LEMMA CallField ==
  ASSUME NEW k \in CallState
  PROVE  /\ \A pc \in {"idle", "create", "up", "starting", "publish", "close", "wait", "replay",
                       "stop", "drain", "use"} : [k EXCEPT !.pc = pc] \in CallState
         /\ \A d \in Devices \cup {None}, pc \in {"up", "drain"} :
              [k EXCEPT !.dev = d, !.pc = pc] \in CallState /\ [k EXCEPT !.pc = pc, !.dev = d] \in CallState
         /\ \A g \in {"ok", "failed"} : [k EXCEPT !.pc = "replay", !.got = g] \in CallState
BY ZenonT(30) DEF CallState

LEMMA ProxyField ==
  ASSUME NEW p \in ProxyState
  PROVE  /\ [p EXCEPT !.started = TRUE] \in ProxyState
         /\ [p EXCEPT !.done = TRUE] \in ProxyState
         /\ [p EXCEPT !.conns = TRUE] \in ProxyState /\ [p EXCEPT !.conns = FALSE] \in ProxyState
         /\ \A o \in {"empty", "ok", "failed"} : [p EXCEPT !.ch = o] \in ProxyState
         /\ \A o \in {"ok", "failed"} : Signalled(p, o) \in ProxyState
BY DEF ProxyState, Signalled

LEMMA DeviceField ==
  ASSUME NEW q \in DeviceState
  PROVE  /\ [q EXCEPT !.pc = "closing"] \in DeviceState
         /\ [q EXCEPT !.pc = "closed"] \in DeviceState
         /\ [q EXCEPT !.pc = "up", !.recv = "reading"] \in DeviceState
         /\ [q EXCEPT !.recv = "ended"] \in DeviceState
BY DEF DeviceState

LEMMA TypeProxy ==
  ASSUME TypeOK, NEW i \in Ids, ProxyStep(i)
  PROVE  TypeOK'
<1>0. proxy[i] \in ProxyState
  BY DEF TypeOK
<1>1. proxy' \in [Ids -> ProxyState]
  BY <1>0, ProxyField DEF TypeOK, ProxyStep, Connects, ConnUp, ConnsEnd, BootStarts, Started,
     BootReturns, StartFailed
<1>2. boot' \in [Ids -> {"none", "settle", "starting", "ended"}]
  BY DEF TypeOK, ProxyStep, Connects, ConnUp, ConnsEnd, BootStarts, BootReturns
<1>3. UNCHANGED <<tunnels, nextID, entryDev, device, call, overtaken, abandoned>>
  BY DEF ProxyStep, Connects, ConnUp, ConnsEnd, BootStarts, BootReturns, history
<1>4. QED
  BY <1>1, <1>2, <1>3 DEF TypeOK

LEMMA TypeDevice ==
  ASSUME TypeOK, NEW d \in Devices, ReceiveEnds(d) \/ CloseEnds(d)
  PROVE  TypeOK'
<1>0. device[d] \in DeviceState
  BY DEF TypeOK
<1>1. device' \in [Devices -> DeviceState]
  BY <1>0, DeviceField DEF TypeOK, ReceiveEnds, CloseEnds
<1>2. UNCHANGED <<tunnels, nextID, entryDev, proxy, boot, call, overtaken, abandoned>>
  BY DEF ReceiveEnds, CloseEnds, history
<1>3. QED
  BY <1>1, <1>2 DEF TypeOK

LEMMA TypeMake ==
  ASSUME TypeOK, NEW c \in Callers, StartVKBootstrap(c) \/ TurnOnBegins(c)
  PROVE  TypeOK'
<1>1. nextID' = nextID + 1 /\ nextID' \in Ids /\ tunnels \subseteq 1 .. nextID'
  BY DEF TypeOK, StartVKBootstrap, TurnOnBegins, Ids
<1>2. CASE StartVKBootstrap(c)
  <2>1. tunnels' \subseteq 1 .. nextID' /\ nextID' \in 0 .. MaxTunnels
    BY <1>1, <1>2 DEF TypeOK, StartVKBootstrap, Ids
  <2>2. boot' \in [Ids -> {"none", "settle", "starting", "ended"}]
    BY <1>1, <1>2 DEF TypeOK, StartVKBootstrap
  <2>3. QED
    BY <1>2, <2>1, <2>2 DEF TypeOK, StartVKBootstrap, history
<1>3. CASE TurnOnBegins(c)
  <2>1. Entering("TurnOn", "create", nextID', None) \in CallState
    BY <1>1 DEF Entering, CallState
  <2>2. call' \in [Callers -> CallState]
    BY <1>3, <2>1 DEF TypeOK, TurnOnBegins
  <2>3. nextID' \in 0 .. MaxTunnels
    BY <1>1 DEF Ids
  <2>4. QED
    BY <1>1, <1>3, <2>2, <2>3 DEF TypeOK, TurnOnBegins, history
<1>4. QED
  BY <1>2, <1>3

LEMMA TypeBegin ==
  ASSUME TypeOK, NEW c \in Callers, NEW i \in Ids,
         AttachBegins(c, i) \/ WaitBegins(c, i) \/ TurnOffBegins(c, i) \/ UseBegins(c, i)
  PROVE  TypeOK'
<1>1. CASE AttachBegins(c, i)
  BY <1>1 DEF TypeOK, AttachBegins, history, CallState, Entering
<1>2. CASE WaitBegins(c, i)
  BY <1>2 DEF TypeOK, WaitBegins, history, CallState, Entering
<1>3. CASE TurnOffBegins(c, i)
  BY <1>3 DEF TypeOK, TurnOffBegins, history, CallState, Entering
<1>4. CASE UseBegins(c, i)
  BY <1>4 DEF TypeOK, UseBegins, history, CallState, Entering
<1>5. QED
  BY <1>1, <1>2, <1>3, <1>4

(* The steps within a call: each variable it changes keeps its type. *)
LEMMA TypeCall ==
  ASSUME TypeOK, CallInv, NEW c \in Callers, CallStep(c)
  PROVE  TypeOK'
<1>0. call[c] \in CallState /\ OpAt(call[c])
  BY DEF TypeOK, CallInv
<1>a. call[c].op # "none" => call[c].id \in Ids
  BY DEF CallInv, TypeOK, Ids
<1>b. /\ call[c].pc \in {"create", "starting", "close", "wait", "replay", "stop", "up"} => call[c].id \in Ids
      /\ call[c].pc \in {"up", "starting", "publish", "close"} => call[c].dev \in Devices
      /\ call[c].op = "TurnOff" => call[c].id \in Ids
  BY <1>0, <1>a DEF OpAt
<1>1. CASE NoTun(c) \/ SetupClosed(c)
  <2>1. call' \in [Callers -> CallState]
    BY <1>1, RecordTypes DEF TypeOK, NoTun, SetupClosed, Return
  <2>2. abandoned' \subseteq Ids
    BY <1>1, <1>b DEF TypeOK, NoTun, SetupClosed, Forsake
  <2>3. QED
    BY <1>1, <2>1, <2>2 DEF TypeOK, NoTun, SetupClosed
<1>2. CASE IpcSetFails(c)
  <2>1. call' \in [Callers -> CallState]
    BY <1>0, <1>2, CallField DEF TypeOK, IpcSetFails, Goto
  <2>2. device' \in [Devices -> DeviceState]
    BY <1>b, <1>2, DeviceField DEF TypeOK, IpcSetFails, Close
  <2>3. QED
    BY <1>2, <2>1, <2>2 DEF TypeOK, IpcSetFails, history
<1>3. CASE UpOpens(c)
  <2>1. call' \in [Callers -> CallState]
    BY <1>0, <1>3, CallField, ZenonT(30) DEF TypeOK, UpOpens, Opened, Goto
  <2>a. device[call[c].dev] \in DeviceState
    BY <1>b, <1>3 DEF TypeOK, UpOpens
  <2>2. device' \in [Devices -> DeviceState]
    BY <1>b, <2>a, <1>3, DeviceField DEF TypeOK, UpOpens, Opened
  <2>3. proxy' \in [Ids -> ProxyState]
    BY <1>b, <1>3, ProxyField DEF TypeOK, UpOpens, Started
  <2>4. QED
    BY <1>3, <2>1, <2>2, <2>3 DEF TypeOK, UpOpens, history
<1>4. CASE UpStarted(c)
  <2>1. call' \in [Callers -> CallState]
    BY <1>0, <1>4, CallField DEF TypeOK, UpStarted, Opened, Goto
  <2>2. device' \in [Devices -> DeviceState]
    BY <1>b, <1>4, DeviceField DEF TypeOK, UpStarted, Opened
  <2>3. QED
    BY <1>4, <2>1, <2>2 DEF TypeOK, UpStarted, history
<1>5. CASE UpFails(c)
  <2>1. call' \in [Callers -> CallState]
    BY <1>0, <1>5, CallField DEF TypeOK, UpFails, Goto
  <2>2. device' \in [Devices -> DeviceState]
    BY <1>b, <1>5, DeviceField DEF TypeOK, UpFails, Close
  <2>3. proxy' \in [Ids -> ProxyState]
    BY <1>b, <1>5, ProxyField DEF TypeOK, UpFails, StartFailed
  <2>4. QED
    BY <1>5, <2>1, <2>2, <2>3 DEF TypeOK, UpFails, history
<1>6. CASE AttachPublishes(c) \/ TurnOnPublishes(c)
  <2>0. call[c].dev \in Devices /\ call[c].id \in 1 .. nextID
    BY <1>0, <1>b, <1>6 DEF AttachPublishes, TurnOnPublishes, At, CallInv
  <2>1. call' \in [Callers -> CallState]
    BY <1>0, <1>6, CallField, RecordTypes, ZenonT(30)
       DEF TypeOK, AttachPublishes, TurnOnPublishes, AttachRaced, Attached, Goto, Return
  <2>a. device[call[c].dev] \in DeviceState
    BY <2>0 DEF TypeOK
  <2>2. device' \in [Devices -> DeviceState]
    BY <2>0, <2>a, <1>6, DeviceField DEF TypeOK, AttachPublishes, TurnOnPublishes, AttachRaced, Attached, Close
  <2>3. entryDev' \in [Ids -> Devices \cup {None}]
    BY <2>0, <1>6 DEF TypeOK, AttachPublishes, TurnOnPublishes, AttachRaced, Attached
  <2>4. tunnels' \subseteq 1 .. nextID'
    BY <2>0, <1>6 DEF TypeOK, AttachPublishes, TurnOnPublishes
  <2>5. QED
    BY <1>6, <2>1, <2>2, <2>3, <2>4 DEF TypeOK, AttachPublishes, TurnOnPublishes, history
<1>7. CASE WaitTakes(c)
  <2>1. proxy[call[c].id] \in ProxyState
    BY <1>b, <1>7 DEF TypeOK, WaitTakes
  <2>2. proxy[call[c].id].ch \in {"ok", "failed"}
    BY <2>1, <1>7 DEF WaitTakes, ProxyState
  <2>3. call' \in [Callers -> CallState]
    BY <1>0, <2>2, <1>7, CallField DEF TypeOK, WaitTakes
  <2>4. proxy' \in [Ids -> ProxyState]
    BY <1>b, <2>1, <1>7, ProxyField DEF TypeOK, WaitTakes
  <2>5. QED
    BY <1>7, <2>3, <2>4 DEF TypeOK, WaitTakes, history
<1>8. CASE WaitReplays(c)
  <2>1. proxy[call[c].id] \in ProxyState
    BY <1>b, <1>8 DEF TypeOK, WaitReplays
  <2>2. (IF proxy[call[c].id].ch = "empty" THEN call[c].got ELSE proxy[call[c].id].ch)
          \in {"empty", "ok", "failed"}
    BY <1>0, <2>1, <1>8 DEF ProxyState, CallState, OpAt, WaitReplays
  <2>3. proxy' \in [Ids -> ProxyState]
    BY <1>b, <2>1, <2>2, <1>8, ProxyField DEF TypeOK, WaitReplays
  <2>4. call' \in [Callers -> CallState]
    BY <1>8, RecordTypes DEF TypeOK, WaitReplays, Return
  <2>5. QED
    BY <1>8, <2>3, <2>4 DEF TypeOK, WaitReplays, history
<1>9. CASE WaitGivesUp(c) \/ UseEnds(c)
  <2>1. call' \in [Callers -> CallState]
    BY <1>9, RecordTypes DEF TypeOK, WaitGivesUp, UseEnds, Return
  <2>2. QED
    BY <1>9, <2>1 DEF TypeOK, WaitGivesUp, UseEnds, history
<1>10. CASE TurnOffStops(c)
  <2>0. call[c].id \in Ids
    BY <1>b, <1>10 DEF TurnOffStops, At
  <2>1. call' \in [Callers -> CallState]
    BY <1>0, <2>0, <1>10, CallField DEF TypeOK, TurnOffStops
  <2>2. proxy' \in [Ids -> ProxyState]
    BY <2>0, <1>10, ProxyField DEF TypeOK, TurnOffStops
  <2>3. QED
    BY <1>10, <2>1, <2>2 DEF TypeOK, TurnOffStops, history
<1>11. CASE TurnOffDrained(c)
  <2>0. call[c].dev \in Devices \cup {None}
    BY <1>0 DEF CallState
  <2>1. call' \in [Callers -> CallState]
    BY <1>0, <1>11, CallField, RecordTypes DEF TypeOK, TurnOffDrained, Goto, Return
  <2>a. call[c].dev \in Devices => device[call[c].dev] \in DeviceState
    BY DEF TypeOK
  <2>2. device' \in [Devices -> DeviceState]
    BY <2>0, <2>a, <1>11, DeviceField DEF TypeOK, TurnOffDrained, Close
  <2>3. QED
    BY <1>11, <2>1, <2>2 DEF TypeOK, TurnOffDrained, history
<1>12. ASSUME NEW d \in Devices, NewDevice(c, d) PROVE TypeOK'
  <2>1. call' \in [Callers -> CallState]
    BY <1>0, <1>12, CallField DEF TypeOK, NewDevice
  <2>2. [NoDevice EXCEPT !.pc = "new", !.of = call[c].id] \in DeviceState
    BY <1>b, <1>12 DEF NewDevice, NoDevice, DeviceState
  <2>3. device' \in [Devices -> DeviceState]
    BY <2>2, <1>12 DEF TypeOK, NewDevice
  <2>4. QED
    BY <1>12, <2>1, <2>3 DEF TypeOK, NewDevice, history
<1>13. QED
  BY <1>1, <1>2, <1>3, <1>4, <1>5, <1>6, <1>7, <1>8, <1>9, <1>10, <1>11, <1>12 DEF CallStep


-----------------------------------------------------------------------------
(* What a step within a call does to the calls and to the handles *)

(* Only the caller's own record changes, to one that fits; it keeps its tunnel  *)
(* until it returns.                                                          *)
CallEffect(c) ==
  /\ \A b \in Callers \ {c} : call'[b] = call[b]
  /\ OpAt(call'[c])
  /\ call'[c] = Idle \/ (call'[c].op = call[c].op /\ call'[c].id = call[c].id)
  /\ call[c].op # "none"
  /\ nextID' = nextID /\ boot' = boot

(* A handle is only published by the call that made it, when it returns; a call *)
(* that returns without publishing or stopping its proxy abandons it.         *)
HandleEffect(c) ==
  /\ tunnels' = tunnels \/ (tunnels' = tunnels \cup {call[c].id} /\ call[c].op = "TurnOn" /\ call'[c] = Idle)
  /\ abandoned \subseteq abandoned'
  /\ overtaken' = overtaken
  /\ call[c].op = "TurnOn" /\ call'[c] = Idle => call[c].id \in tunnels' \cup abandoned'
  /\ call[c].op = "TurnOff" /\ call'[c] = Idle => call[c].pc # "stop"
  /\ call[c].op = "TurnOff" /\ call'[c].pc # "stop" => call[c].pc # "stop" \/ proxy'[call[c].id].done

LEMMA IdleShape == OpAt(Idle) /\ Idle.op = "none" /\ Idle.pc = "idle" /\ Idle.dev = None
BY DEF OpAt, Idle

LEMMA CallEffects ==
  ASSUME TypeOK, CallInv, NEW c \in Callers, CallStep(c)
  PROVE  CallEffect(c) /\ HandleEffect(c)
<1>0. call[c] \in CallState /\ OpAt(call[c]) /\ call \in [Callers -> CallState]
  BY DEF TypeOK, CallInv
<1>b. /\ call[c].op # "none" => call[c].id \in Ids
      /\ call[c].pc \in {"up", "starting", "publish", "close"} => call[c].dev \in Devices
  BY <1>0 DEF OpAt, CallInv, TypeOK, Ids
<1>1. CASE NoTun(c) \/ SetupClosed(c)
  <2>1. call' = [call EXCEPT ![c] = Idle] /\ call[c].pc \in {"create", "close"}
    BY <1>1 DEF NoTun, SetupClosed, Return
  <2>2. CallEffect(c)
    BY <1>0, <1>1, <2>1, IdleShape DEF CallEffect, NoTun, SetupClosed, OpAt, history
  <2>3. HandleEffect(c)
    BY <1>0, <1>1, <2>1, IdleShape DEF HandleEffect, NoTun, SetupClosed, Forsake, OpAt
  <2>4. QED
    BY <2>2, <2>3
<1>2. CASE IpcSetFails(c) \/ UpFails(c)
  <2>1. call' = [call EXCEPT ![c].pc = "close"] /\ call[c].pc \in {"up", "starting"}
    BY <1>2 DEF IpcSetFails, UpFails, Goto
  <2>2. call'[c] = [call[c] EXCEPT !.pc = "close"]
    BY <1>0, <2>1
  <2>3. OpAt(call'[c])
    BY <1>0, <2>1, <2>2 DEF OpAt, CallState, Idle
  <2>4. CallEffect(c)
    BY <1>0, <1>2, <2>1, <2>2, <2>3 DEF CallEffect, IpcSetFails, UpFails, OpAt, CallState
  <2>5. HandleEffect(c)
    BY <1>0, <1>2, <2>1, <2>2 DEF HandleEffect, IpcSetFails, UpFails, OpAt, CallState, Idle, history
  <2>6. QED
    BY <2>4, <2>5
<1>3. CASE UpOpens(c) \/ UpStarted(c)
  <2>1. /\ call[c].pc \in {"up", "starting"}
        /\ \E pc \in {"starting", "publish"} : call' = [call EXCEPT ![c].pc = pc]
    BY <1>3 DEF UpOpens, UpStarted, Opened, Goto
  <2>2. \E pc \in {"starting", "publish"} : call'[c] = [call[c] EXCEPT !.pc = pc]
    BY <1>0, <2>1
  <2>3. OpAt(call'[c])
    BY <1>0, <2>1, <2>2 DEF OpAt, CallState, Idle
  <2>4. CallEffect(c)
    BY <1>0, <1>3, <2>1, <2>2, <2>3 DEF CallEffect, UpOpens, UpStarted, OpAt, CallState
  <2>5. HandleEffect(c)
    BY <1>0, <1>3, <2>1, <2>2 DEF HandleEffect, UpOpens, UpStarted, OpAt, CallState, Idle, history
  <2>6. QED
    BY <2>4, <2>5
<1>4. CASE AttachPublishes(c)
  <2>1. call[c].op = "Attach" /\ call[c].pc = "publish"
    BY <1>4 DEF AttachPublishes, At
  <2>2. call' = [call EXCEPT ![c] = Idle] \/ call' = [call EXCEPT ![c].pc = "close"]
    BY <1>4 DEF AttachPublishes, AttachRaced, Attached, Return, Goto
  <2>3. call'[c] = Idle \/ call'[c] = [call[c] EXCEPT !.pc = "close"]
    BY <1>0, <2>2
  <2>4. OpAt(call'[c])
    BY <1>0, <2>1, <2>3, IdleShape DEF OpAt, CallState, Idle
  <2>5. CallEffect(c)
    BY <1>0, <1>4, <2>1, <2>2, <2>3, <2>4 DEF CallEffect, AttachPublishes, CallState
  <2>6. HandleEffect(c)
    BY <1>4, <2>1 DEF HandleEffect, AttachPublishes, history
  <2>7. QED
    BY <2>5, <2>6
<1>5. CASE TurnOnPublishes(c)
  <2>1. call[c].op = "TurnOn" /\ call' = [call EXCEPT ![c] = Idle]
    BY <1>5 DEF TurnOnPublishes, Attached, Return, At
  <2>2. CallEffect(c)
    BY <1>0, <1>5, <2>1, IdleShape DEF CallEffect, TurnOnPublishes
  <2>3. HandleEffect(c)
    BY <1>0, <1>5, <2>1 DEF HandleEffect, TurnOnPublishes, history
  <2>4. QED
    BY <2>2, <2>3
<1>6. CASE WaitTakes(c)
  <2>0. proxy[call[c].id] \in ProxyState
    BY <1>0, <1>b, <1>6 DEF TypeOK, WaitTakes, OpAt
  <2>1. proxy[call[c].id].ch \in {"ok", "failed"} /\ call[c].pc = "wait"
    BY <2>0, <1>6 DEF WaitTakes, ProxyState
  <2>2. call'[c] = [call[c] EXCEPT !.pc = "replay", !.got = proxy[call[c].id].ch]
    BY <1>0, <1>6 DEF WaitTakes
  <2>a. /\ call'[c].pc = "replay" /\ call'[c].got = proxy[call[c].id].ch
        /\ call'[c].op = call[c].op
    BY <1>0, <2>2 DEF CallState
  <2>3. OpAt(call'[c])
    BY <1>0, <2>1, <2>a, IdleShape DEF OpAt
  <2>4. CallEffect(c)
    BY <1>0, <1>6, <2>1, <2>2, <2>3 DEF CallEffect, WaitTakes, OpAt, CallState
  <2>5. HandleEffect(c)
    BY <1>0, <1>6, <2>1, <2>2 DEF HandleEffect, WaitTakes, OpAt, CallState, Idle, history
  <2>6. QED
    BY <2>4, <2>5
<1>7. CASE WaitReplays(c) \/ WaitGivesUp(c) \/ UseEnds(c)
  <2>1. call' = [call EXCEPT ![c] = Idle] /\ call[c].op \in {"Wait", "Use"}
    BY <1>0, <1>7 DEF WaitReplays, WaitGivesUp, UseEnds, Return, OpAt
  <2>2. CallEffect(c)
    BY <1>0, <1>7, <2>1, IdleShape DEF CallEffect, WaitReplays, WaitGivesUp, UseEnds
  <2>3. HandleEffect(c)
    BY <1>7, <2>1 DEF HandleEffect, WaitReplays, WaitGivesUp, UseEnds, history
  <2>4. QED
    BY <2>2, <2>3
<1>8. CASE TurnOffStops(c)
  <2>0. call[c].op = "TurnOff" /\ call[c].pc = "stop" /\ call[c].id \in Ids
    BY <1>b, <1>8 DEF TurnOffStops, At
  <2>1. entryDev[call[c].id] \in Devices \cup {None}
    BY <2>0 DEF TypeOK
  <2>2. call'[c] = [call[c] EXCEPT !.pc = "drain", !.dev = entryDev[call[c].id]]
    BY <1>0, <1>8 DEF TurnOffStops
  <2>a. /\ call'[c].pc = "drain" /\ call'[c].dev = entryDev[call[c].id]
        /\ call'[c].op = call[c].op
    BY <1>0, <2>2 DEF CallState
  <2>3. OpAt(call'[c])
    BY <2>0, <2>a, IdleShape DEF OpAt
  <2>4. CallEffect(c)
    BY <1>0, <1>8, <2>0, <2>2, <2>3 DEF CallEffect, TurnOffStops, CallState
  <2>5. proxy'[call[c].id].done
    BY <2>0, <1>8 DEF TurnOffStops, TypeOK, ProxyState
  <2>6. call'[c] # Idle
    BY <2>a, IdleShape
  <2>7. HandleEffect(c)
    BY <1>8, <2>0, <2>5, <2>6 DEF HandleEffect, TurnOffStops, history
  <2>8. QED
    BY <2>4, <2>7
<1>9. CASE TurnOffDrained(c)
  <2>0. call[c].op = "TurnOff" /\ call[c].pc = "drain"
    BY <1>9 DEF TurnOffDrained, At
  <2>1. \/ call' = [call EXCEPT ![c] = Idle]
        \/ call' = [call EXCEPT ![c].pc = "close"] /\ call[c].dev # None
    BY <1>9 DEF TurnOffDrained, Goto, Return
  <2>2. call'[c] = Idle \/ (call'[c] = [call[c] EXCEPT !.pc = "close"] /\ call[c].dev # None)
    BY <1>0, <2>1
  <2>3. OpAt(call'[c])
    BY <1>0, <2>0, <2>2, IdleShape DEF OpAt, CallState, Idle
  <2>4. CallEffect(c)
    BY <1>0, <1>9, <2>0, <2>1, <2>2, <2>3 DEF CallEffect, TurnOffDrained, CallState
  <2>5. HandleEffect(c)
    BY <1>9, <2>0 DEF HandleEffect, TurnOffDrained, history
  <2>6. QED
    BY <2>4, <2>5
<1>10. ASSUME NEW d \in Devices, NewDevice(c, d) PROVE CallEffect(c) /\ HandleEffect(c)
  <2>1. call[c].pc = "create" /\ call'[c] = [call[c] EXCEPT !.dev = d, !.pc = "up"]
    BY <1>0, <1>10 DEF NewDevice
  <2>2. call'[c].pc = "up" /\ call'[c].dev = d /\ call'[c].op = call[c].op
    BY <1>0, <2>1 DEF CallState
  <2>3. OpAt(call'[c])
    BY <1>0, <2>1, <2>2, IdleShape DEF OpAt
  <2>4. CallEffect(c)
    BY <1>0, <1>10, <2>1, <2>3 DEF CallEffect, NewDevice, CallState, OpAt
  <2>5. HandleEffect(c)
    BY <1>0, <1>10, <2>1 DEF HandleEffect, NewDevice, OpAt, CallState, Idle, history
  <2>6. QED
    BY <2>4, <2>5
<1>11. QED
  BY <1>1, <1>2, <1>3, <1>4, <1>5, <1>6, <1>7, <1>8, <1>9, <1>10 DEF CallStep

-----------------------------------------------------------------------------
(* What a step does to the proxies: a stopped one stays stopped, and only one *)
(* that was made is started.                                                  *)
ProxyEffect ==
  \A i \in Ids :
    /\ proxy[i].done => proxy'[i].done
    /\ proxy'[i].started => proxy[i].started \/ i \in 1 .. nextID

LEMMA ProxyEffectOfCalls ==
  ASSUME TypeOK, CallInv, NEW c \in Callers, CallStep(c)
  PROVE  ProxyEffect
<1>0. OpAt(call[c]) /\ (call[c].op # "none" => call[c].id \in 1 .. nextID /\ call[c].id \in Ids)
  BY DEF CallInv, TypeOK, Ids
<1>1. CASE UNCHANGED proxy
  BY <1>1 DEF ProxyEffect
<1>2. CASE UpOpens(c)
  BY <1>0, <1>2 DEF ProxyEffect, UpOpens, Started, TypeOK, ProxyState, OpAt
<1>3. CASE UpFails(c)
  <2>1. call[c].id \in Ids /\ proxy' = [proxy EXCEPT ![call[c].id] = Signalled(@, "failed")]
    BY <1>0, <1>3 DEF UpFails, StartFailed, OpAt
  <2>2. \A q \in ProxyState : Signalled(q, "failed").done = q.done /\ Signalled(q, "failed").started = q.started
    BY DEF Signalled, ProxyState
  <2>3. QED
    BY <2>1, <2>2 DEF ProxyEffect, TypeOK
<1>4. CASE WaitTakes(c)
  <2>1. call[c].id \in Ids /\ proxy' = [proxy EXCEPT ![call[c].id].ch = "empty"]
    BY <1>0, <1>4 DEF WaitTakes, OpAt
  <2>2. QED
    BY <2>1 DEF ProxyEffect, TypeOK, ProxyState
<1>5. CASE WaitReplays(c)
  <2>1. call[c].id \in Ids /\ \E o : proxy' = [proxy EXCEPT ![call[c].id].ch = o]
    BY <1>0, <1>5 DEF WaitReplays, OpAt
  <2>2. QED
    BY <2>1 DEF ProxyEffect, TypeOK, ProxyState
<1>6. CASE TurnOffStops(c)
  <2>1. call[c].id \in Ids /\ proxy' = [proxy EXCEPT ![call[c].id].done = TRUE]
    BY <1>0, <1>6 DEF TurnOffStops, At
  <2>2. QED
    BY <2>1 DEF ProxyEffect, TypeOK, ProxyState
<1>7. QED
  BY <1>1, <1>2, <1>3, <1>4, <1>5, <1>6 DEF CallStep, NoTun, IpcSetFails, UpStarted, SetupClosed,
     AttachPublishes, TurnOnPublishes, WaitGivesUp, TurnOffDrained, UseEnds, NewDevice

LEMMA ProxyEffectOfProxies ==
  ASSUME TypeOK, CallInv, NEW i \in Ids, ProxyStep(i)
  PROVE  ProxyEffect /\ UNCHANGED <<tunnels, nextID, entryDev, device, call, overtaken, abandoned>>
<1>0. UNCHANGED <<tunnels, nextID, entryDev, device, call, overtaken, abandoned>>
  BY DEF ProxyStep, Connects, ConnUp, ConnsEnd, BootStarts, BootReturns, history
<1>1. CASE Connects(i) \/ ConnsEnd(i)
  <2>1. \E b : proxy' = [proxy EXCEPT ![i].conns = b]
    BY <1>1 DEF Connects, ConnsEnd
  <2>2. QED
    BY <1>0, <2>1 DEF ProxyEffect, TypeOK, ProxyState
<1>2. CASE ConnUp(i) \/ BootReturns(i)
  <2>1. proxy' = proxy \/ \E o \in {"ok", "failed"} : proxy' = [proxy EXCEPT ![i] = Signalled(@, o)]
    BY <1>2 DEF ConnUp, BootReturns, StartFailed
  <2>2. \A q \in ProxyState, o \in {"ok", "failed"} :
          Signalled(q, o).done = q.done /\ Signalled(q, o).started = q.started
    BY DEF Signalled, ProxyState
  <2>3. QED
    BY <1>0, <2>1, <2>2 DEF ProxyEffect, TypeOK
<1>3. CASE BootStarts(i)
  <2>1. i \in 1 .. nextID /\ proxy' = [proxy EXCEPT ![i].started = TRUE]
    BY <1>3 DEF BootStarts, Started, CallInv
  <2>2. QED
    BY <1>0, <2>1 DEF ProxyEffect, TypeOK, ProxyState
<1>4. QED
  BY <1>1, <1>2, <1>3 DEF ProxyStep

-----------------------------------------------------------------------------
(* The calls stay where they fit *)

LEMMA CallInvKept ==
  ASSUME TypeOK, CallInv, [Next]_vars
  PROVE  CallInv'
<1>0. nextID \in 0 .. MaxTunnels
  BY DEF TypeOK
<1>1. ASSUME NEW c \in Callers, CallStep(c) PROVE CallInv'
  <2>1. CallEffect(c) /\ ProxyEffect
    BY <1>1, CallEffects, ProxyEffectOfCalls
  <2>2. QED
    BY <2>1, IdleShape DEF CallInv, CallEffect, ProxyEffect
<1>2. ASSUME NEW i \in Ids, ProxyStep(i) PROVE CallInv'
  <2>1. ProxyEffect /\ UNCHANGED <<nextID, call>>
    BY <1>2, ProxyEffectOfProxies
  <2>2. \A j \in Ids : boot'[j] # "none" => boot[j] # "none"
    BY <1>2 DEF ProxyStep, Connects, ConnUp, ConnsEnd, BootStarts, BootReturns, TypeOK
  <2>3. QED
    BY <2>1, <2>2 DEF CallInv, ProxyEffect
<1>3. ASSUME NEW d \in Devices, ReceiveEnds(d) \/ CloseEnds(d) PROVE CallInv'
  BY <1>3 DEF CallInv, ReceiveEnds, CloseEnds
<1>4. ASSUME NEW c \in Callers, StartVKBootstrap(c) PROVE CallInv'
  <2>1. nextID' = nextID + 1 /\ nextID' \in Ids /\ boot' = [boot EXCEPT ![nextID'] = "settle"]
        /\ UNCHANGED <<call, proxy>>
    BY <1>0, <1>4 DEF StartVKBootstrap, Ids
  <2>2. 1 .. nextID \subseteq 1 .. nextID' /\ nextID' \in 1 .. nextID'
    BY <1>0, <2>1
  <2>3. QED
    BY <2>1, <2>2 DEF CallInv, TypeOK
<1>5. ASSUME NEW c \in Callers, NEW i \in Ids,
             \/ TurnOnBegins(c) \/ AttachBegins(c, i) \/ WaitBegins(c, i)
             \/ TurnOffBegins(c, i) \/ UseBegins(c, i)
      PROVE  CallInv'
  <2>1. 1 .. nextID \subseteq 1 .. nextID' /\ UNCHANGED <<boot, proxy>>
    BY <1>0, <1>5 DEF TurnOnBegins, AttachBegins, WaitBegins, TurnOffBegins, UseBegins
  <2>2. /\ OpAt(call'[c]) /\ call'[c].id \in 1 .. nextID'
        /\ \A b \in Callers \ {c} : call'[b] = call[b]
    <3>1. CASE TurnOnBegins(c)
      <4>1. call' = [call EXCEPT ![c] = Entering("TurnOn", "create", nextID', None)]
        BY <3>1 DEF TurnOnBegins
      <4>2. nextID' \in 1 .. nextID'
        BY <1>0, <3>1 DEF TurnOnBegins
      <4>3. call'[c] = Entering("TurnOn", "create", nextID', None) /\ \A b \in Callers \ {c} : call'[b] = call[b]
        BY <4>1 DEF TypeOK
      <4>4. QED
        BY <4>2, <4>3 DEF Entering, OpAt, Idle
    <3>2. CASE AttachBegins(c, i)
      <4>1. call' = [call EXCEPT ![c] = Entering("Attach", "create", i, None)]
        BY <3>2 DEF AttachBegins
      <4>2. i \in 1 .. nextID'
        BY <2>1, <3>2 DEF AttachBegins, TypeOK
      <4>3. call'[c] = Entering("Attach", "create", i, None) /\ \A b \in Callers \ {c} : call'[b] = call[b]
        BY <4>1 DEF TypeOK
      <4>4. QED
        BY <4>2, <4>3 DEF Entering, OpAt, Idle
    <3>3. CASE WaitBegins(c, i)
      <4>1. call' = [call EXCEPT ![c] = Entering("Wait", "wait", i, None)]
        BY <3>3 DEF WaitBegins
      <4>2. i \in 1 .. nextID'
        BY <2>1, <3>3 DEF WaitBegins, TypeOK
      <4>3. call'[c] = Entering("Wait", "wait", i, None) /\ \A b \in Callers \ {c} : call'[b] = call[b]
        BY <4>1 DEF TypeOK
      <4>4. QED
        BY <4>2, <4>3 DEF Entering, OpAt, Idle
    <3>4. CASE TurnOffBegins(c, i)
      <4>1. call' = [call EXCEPT ![c] = Entering("TurnOff", "stop", i, None)]
        BY <3>4 DEF TurnOffBegins
      <4>2. i \in 1 .. nextID'
        BY <2>1, <3>4 DEF TurnOffBegins, TypeOK
      <4>3. call'[c] = Entering("TurnOff", "stop", i, None) /\ \A b \in Callers \ {c} : call'[b] = call[b]
        BY <4>1 DEF TypeOK
      <4>4. QED
        BY <4>2, <4>3 DEF Entering, OpAt, Idle
    <3>5. CASE UseBegins(c, i)
      <4>1. call' = [call EXCEPT ![c] = Entering("Use", "use", i, entryDev[i])]
        BY <3>5 DEF UseBegins
      <4>2. i \in 1 .. nextID'
        BY <2>1, <3>5 DEF UseBegins, TypeOK
      <4>3. call'[c] = Entering("Use", "use", i, entryDev[i]) /\ \A b \in Callers \ {c} : call'[b] = call[b]
        BY <4>1 DEF TypeOK
      <4>4. QED
        BY <4>2, <4>3 DEF Entering, OpAt, Idle
    <3>6. QED
      BY <1>5, <3>1, <3>2, <3>3, <3>4, <3>5
  <2>3. QED
    BY <2>1, <2>2 DEF CallInv, TypeOK
<1>6. CASE UNCHANGED vars
  BY <1>6 DEF CallInv, vars
<1>7. QED
  BY <1>1, <1>2, <1>3, <1>4, <1>5, <1>6 DEF Next, Ids

-----------------------------------------------------------------------------
(* One holder of a handle *)

(* A call that enters leaves the others alone. *)
LEMMA EnterEffect ==
  ASSUME TypeOK, NEW c \in Callers, NEW k, call' = [call EXCEPT ![c] = k]
  PROVE  call'[c] = k /\ \A b \in Callers \ {c} : call'[b] = call[b]
BY DEF TypeOK

LEMMA HandleInvKept ==
  ASSUME TypeOK, CallInv, HandleInv, [Next]_vars
  PROVE  HandleInv'
<1>0. /\ nextID \in 0 .. MaxTunnels /\ tunnels \subseteq 1 .. nextID
      /\ \A c \in Callers : Exclusive(call[c]) => call[c].id \in 1 .. nextID
  BY DEF TypeOK, CallInv, Exclusive
<1>1. ASSUME NEW c \in Callers, CallStep(c) PROVE HandleInv'
  <2>1. CallEffect(c) /\ HandleEffect(c)
    BY <1>1, CallEffects
  <2>2. QED
    BY <2>1, IdleShape DEF CallEffect, HandleEffect, HandleInv, Exclusive
<1>2. ASSUME NEW i \in Ids, ProxyStep(i) PROVE HandleInv'
  <2>1. UNCHANGED <<tunnels, call>>
    BY <1>2, ProxyEffectOfProxies
  <2>2. QED
    BY <2>1 DEF HandleInv
<1>3. ASSUME NEW d \in Devices, ReceiveEnds(d) \/ CloseEnds(d) PROVE HandleInv'
  BY <1>3 DEF HandleInv, ReceiveEnds, CloseEnds
<1>4. ASSUME NEW c \in Callers, StartVKBootstrap(c) PROVE HandleInv'
  <2>1. tunnels' = tunnels \cup {nextID + 1} /\ call' = call
    BY <1>4 DEF StartVKBootstrap
  <2>2. \A b \in Callers : Exclusive(call[b]) => call[b].id # nextID + 1
    BY <1>0
  <2>3. QED
    BY <2>1, <2>2 DEF HandleInv
<1>5. ASSUME NEW c \in Callers, TurnOnBegins(c) PROVE HandleInv'
  <2>1. /\ tunnels' = tunnels
        /\ call' = [call EXCEPT ![c] = Entering("TurnOn", "create", nextID + 1, None)]
    BY <1>5 DEF TurnOnBegins
  <2>2. \A b \in Callers : Exclusive(call[b]) => call[b].id # nextID + 1
    BY <1>0
  <2>3. nextID + 1 \notin tunnels
    BY <1>0
  <2>4. /\ call'[c].op = "TurnOn" /\ call'[c].id = nextID + 1
        /\ \A b \in Callers \ {c} : call'[b] = call[b]
    <3>1. call'[c] = Entering("TurnOn", "create", nextID + 1, None) /\ \A b \in Callers \ {c} : call'[b] = call[b]
      BY <2>1 DEF TypeOK
    <3>2. QED
      BY <2>1, <3>1 DEF Entering
  <2>5. QED
    BY <2>1, <2>2, <2>3, <2>4 DEF HandleInv, Exclusive
<1>6. ASSUME NEW c \in Callers, NEW i \in Ids, TurnOffBegins(c, i) PROVE HandleInv'
  <2>1. /\ tunnels' = tunnels \ {i} /\ i \in tunnels
        /\ call' = [call EXCEPT ![c] = Entering("TurnOff", "stop", i, None)]
    BY <1>6 DEF TurnOffBegins
  <2>2. /\ call'[c].op = "TurnOff" /\ call'[c].id = i
        /\ \A b \in Callers \ {c} : call'[b] = call[b]
    <3>1. call'[c] = Entering("TurnOff", "stop", i, None) /\ \A b \in Callers \ {c} : call'[b] = call[b]
      BY <2>1 DEF TypeOK
    <3>2. QED
      BY <2>1, <3>1 DEF Entering
  <2>3. QED
    BY <2>1, <2>2 DEF HandleInv, Exclusive
<1>7. ASSUME NEW c \in Callers, NEW i \in Ids, AttachBegins(c, i) \/ WaitBegins(c, i) \/ UseBegins(c, i)
      PROVE  HandleInv'
  <2>1. /\ tunnels' = tunnels
        /\ \/ call' = [call EXCEPT ![c] = Entering("Attach", "create", i, None)]
           \/ call' = [call EXCEPT ![c] = Entering("Wait", "wait", i, None)]
           \/ call' = [call EXCEPT ![c] = Entering("Use", "use", i, entryDev[i])]
    BY <1>7 DEF AttachBegins, WaitBegins, UseBegins
  <2>2. call'[c].op \in {"Attach", "Wait", "Use"} /\ \A b \in Callers \ {c} : call'[b] = call[b]
    BY <2>1, EnterEffect DEF Entering
  <2>3. QED
    BY <2>1, <2>2 DEF HandleInv, Exclusive
<1>8. CASE UNCHANGED vars
  BY <1>8 DEF HandleInv, vars
<1>9. QED
  BY <1>1, <1>2, <1>3, <1>4, <1>5, <1>6, <1>7, <1>8 DEF Next

-----------------------------------------------------------------------------
(* A proxy that was made is published, stopped or abandoned *)

LEMMA StopInvKept ==
  ASSUME TypeOK, CallInv, StopInv, [Next]_vars
  PROVE  StopInv'
<1>0. /\ nextID \in 0 .. MaxTunnels /\ 1 .. nextID \subseteq Ids
      /\ \A c \in Callers : call[c].op # "none" => call[c].id \in Ids
  BY DEF TypeOK, CallInv, Ids
<1>1. ASSUME NEW c \in Callers, CallStep(c) PROVE StopInv'
  <2>1. CallEffect(c) /\ HandleEffect(c) /\ ProxyEffect
    BY <1>1, CallEffects, ProxyEffectOfCalls
  <2>2. \A b \in Callers : call'[b].op = "TurnOff" /\ call'[b].pc # "stop" => proxy'[call'[b].id].done
    BY <1>0, <2>1, IdleShape DEF CallEffect, HandleEffect, ProxyEffect, StopInv
  <2>3. ASSUME NEW i \in 1 .. nextID
        PROVE  \/ i \in tunnels' \/ proxy'[i].done \/ i \in abandoned'
               \/ \E b \in Callers : call'[b].id = i /\ Exclusive(call'[b])
    <3>1. CASE i \in tunnels \/ proxy[i].done \/ i \in abandoned
      BY <1>0, <2>1, <3>1 DEF HandleEffect, ProxyEffect
    <3>2. ASSUME NEW b \in Callers, call[b].id = i, Exclusive(call[b])
          PROVE  \/ i \in tunnels' \/ proxy'[i].done \/ i \in abandoned'
                 \/ \E a \in Callers : call'[a].id = i /\ Exclusive(call'[a])
      <4>1. CASE b # c \/ call'[c] # Idle
        BY <2>1, <3>2, <4>1 DEF CallEffect, Exclusive
      <4>2. CASE b = c /\ call'[c] = Idle
        BY <1>0, <2>1, <3>2, <4>2 DEF HandleEffect, ProxyEffect, StopInv, Exclusive
      <4>3. QED
        BY <4>1, <4>2
    <3>3. QED
      BY <3>1, <3>2 DEF StopInv
  <2>4. QED
    BY <2>1, <2>2, <2>3 DEF StopInv, CallEffect
<1>2. ASSUME NEW i \in Ids, ProxyStep(i) PROVE StopInv'
  <2>1. ProxyEffect /\ UNCHANGED <<tunnels, nextID, call, abandoned>>
    BY <1>2, ProxyEffectOfProxies
  <2>2. QED
    BY <1>0, <2>1 DEF StopInv, ProxyEffect
<1>3. ASSUME NEW d \in Devices, ReceiveEnds(d) \/ CloseEnds(d) PROVE StopInv'
  BY <1>3 DEF StopInv, ReceiveEnds, CloseEnds, history
<1>4. ASSUME NEW c \in Callers, StartVKBootstrap(c) PROVE StopInv'
  <2>1. tunnels' = tunnels \cup {nextID + 1} /\ nextID' = nextID + 1 /\ UNCHANGED <<call, proxy, abandoned>>
    BY <1>4 DEF StartVKBootstrap, history
  <2>2. 1 .. nextID' = (1 .. nextID) \cup {nextID + 1}
    BY <1>0, <2>1
  <2>3. QED
    BY <2>1, <2>2 DEF StopInv
<1>5. ASSUME NEW c \in Callers, TurnOnBegins(c) PROVE StopInv'
  <2>1. /\ nextID' = nextID + 1 /\ UNCHANGED <<tunnels, proxy, abandoned>>
        /\ call[c] = Idle
        /\ call' = [call EXCEPT ![c] = Entering("TurnOn", "create", nextID + 1, None)]
    BY <1>5 DEF TurnOnBegins, history
  <2>2. 1 .. nextID' = (1 .. nextID) \cup {nextID + 1}
    BY <1>0, <2>1
  <2>3. /\ \A b \in Callers \ {c} : call'[b] = call[b]
        /\ call'[c].op = "TurnOn" /\ call'[c].id = nextID + 1 /\ ~Exclusive(call[c])
    <3>1. call'[c] = Entering("TurnOn", "create", nextID + 1, None) /\ \A b \in Callers \ {c} : call'[b] = call[b]
      BY <2>1 DEF TypeOK
    <3>2. QED
      BY <2>1, <3>1, IdleShape DEF Entering, Exclusive
  <2>4. QED
    BY <2>1, <2>2, <2>3 DEF StopInv, Exclusive
<1>6. ASSUME NEW c \in Callers, NEW i \in Ids, TurnOffBegins(c, i) PROVE StopInv'
  <2>1. /\ tunnels' = tunnels \ {i} /\ UNCHANGED <<nextID, proxy, abandoned>>
        /\ call[c] = Idle
        /\ call' = [call EXCEPT ![c] = Entering("TurnOff", "stop", i, None)]
    BY <1>6 DEF TurnOffBegins
  <2>2. /\ \A b \in Callers \ {c} : call'[b] = call[b]
        /\ call'[c].op = "TurnOff" /\ call'[c].pc = "stop" /\ call'[c].id = i /\ ~Exclusive(call[c])
    <3>1. call'[c] = Entering("TurnOff", "stop", i, None) /\ \A b \in Callers \ {c} : call'[b] = call[b]
      BY <2>1 DEF TypeOK
    <3>2. QED
      BY <2>1, <3>1, IdleShape DEF Entering, Exclusive
  <2>3. QED
    BY <2>1, <2>2 DEF StopInv, Exclusive
<1>7. ASSUME NEW c \in Callers, NEW i \in Ids, AttachBegins(c, i) \/ WaitBegins(c, i) \/ UseBegins(c, i)
      PROVE  StopInv'
  <2>1. /\ UNCHANGED <<tunnels, nextID, proxy, abandoned>> /\ call[c] = Idle
        /\ \/ call' = [call EXCEPT ![c] = Entering("Attach", "create", i, None)]
           \/ call' = [call EXCEPT ![c] = Entering("Wait", "wait", i, None)]
           \/ call' = [call EXCEPT ![c] = Entering("Use", "use", i, entryDev[i])]
    BY <1>7 DEF AttachBegins, WaitBegins, UseBegins, history
  <2>2. /\ call'[c].op \in {"Attach", "Wait", "Use"} /\ ~Exclusive(call[c])
        /\ \A b \in Callers \ {c} : call'[b] = call[b]
    BY <2>1, EnterEffect, IdleShape DEF Exclusive, Entering
  <2>3. QED
    BY <2>1, <2>2 DEF StopInv, Exclusive
<1>8. CASE UNCHANGED vars
  BY <1>8 DEF StopInv, vars
<1>9. QED
  BY <1>1, <1>2, <1>3, <1>4, <1>5, <1>6, <1>7, <1>8 DEF Next

-----------------------------------------------------------------------------
(* The outcome of the bootstrap *)

(* A step that leaves the outcomes, the channels and the callers that hold an *)
(* outcome alone.                                                             *)
OutcomeSame ==
  /\ \A i \in Ids : proxy'[i].outcome = proxy[i].outcome /\ proxy'[i].ch = proxy[i].ch
  /\ \A b \in Callers : call[b].pc = "replay" \/ call'[b].pc = "replay" => call'[b] = call[b]

LEMMA SameKept ==
  ASSUME TypeOK, CallInv, OutcomeInv, OutcomeSame
  PROVE  OutcomeInv'
<1>0. \A c \in Callers : call[c].pc = "replay" => call[c].id \in Ids
  BY DEF TypeOK, CallInv, OpAt, Ids
<1>1. QED
  BY <1>0 DEF OutcomeInv, OutcomeSame, OutcomeKept

(* Only the first outcome is sent, and before that nobody holds one. *)
LEMMA SignalKept ==
  ASSUME TypeOK, CallInv, OutcomeInv, NEW i \in Ids, NEW o \in {"ok", "failed"},
         proxy' = [proxy EXCEPT ![i] = Signalled(@, o)],
         \A b \in Callers : call[b].pc = "replay" \/ call'[b].pc = "replay" => call'[b] = call[b]
  PROVE  OutcomeInv'
<1>a. \A c \in Callers : call[c].pc = "replay" => call[c].id \in Ids
  BY DEF TypeOK, CallInv, OpAt, Ids
<1>b. \A c \in Callers : call[c].pc = "replay" => call[c].got # "unknown"
  BY DEF CallInv, OpAt
<1>0. \A c \in Callers : call[c].pc = "replay" => call[c].id \in Ids /\ call[c].got # "unknown"
  BY <1>a, <1>b
<1>1. /\ \A j \in Ids \ {i} : proxy'[j] = proxy[j]
      /\ proxy'[i] = Signalled(proxy[i], o) /\ proxy[i] \in ProxyState
  BY DEF TypeOK
<1>2. CASE proxy[i].outcome = "unknown"
  <2>0. \A q \in ProxyState :
          q.outcome = "unknown" => Signalled(q, o).outcome = o /\ Signalled(q, o).ch = o
    BY DEF Signalled, ProxyState
  <2>1. proxy'[i].outcome = o /\ proxy'[i].ch = o
    BY <1>1, <1>2, <2>0
  <2>2. \A c \in Callers : call[c].pc = "replay" => call[c].id # i
    BY <1>0, <1>2 DEF OutcomeInv
  <2>3. QED
    BY <1>0, <1>1, <2>1, <2>2 DEF OutcomeInv, OutcomeKept
<1>3. CASE proxy[i].outcome # "unknown"
  <2>1. proxy'[i] = proxy[i]
    BY <1>1, <1>3 DEF Signalled
  <2>2. OutcomeSame
    BY <1>1, <2>1 DEF OutcomeSame
  <2>3. QED
    BY <2>2, SameKept
<1>4. QED
  BY <1>2, <1>3

LEMMA OutcomeInvKept ==
  ASSUME TypeOK, CallInv, OutcomeInv, [Next]_vars
  PROVE  OutcomeInv'
<1>0. call \in [Callers -> CallState] /\ \A c \in Callers : call[c].op # "none" => call[c].id \in Ids
  BY DEF TypeOK, CallInv, Ids
<1>1. ASSUME NEW c \in Callers, CallStep(c) PROVE OutcomeInv'
  <2>0. /\ OpAt(call[c]) /\ \A b \in Callers \ {c} : call'[b] = call[b]
        /\ call[c].pc # "idle" => call[c].id \in Ids
    BY <1>0, <1>1, CallEffects DEF CallInv, CallEffect, OpAt
  <2>1. CASE WaitTakes(c)
    <3>1. call[c].pc = "wait" /\ call[c].id \in Ids /\ proxy[call[c].id] \in ProxyState
      BY <2>0, <2>1 DEF WaitTakes, TypeOK
    <3>2. call'[c] = [call[c] EXCEPT !.pc = "replay", !.got = proxy[call[c].id].ch]
      BY <1>0, <2>1 DEF WaitTakes
    <3>3. call'[c].pc = "replay" /\ call'[c].got = proxy[call[c].id].ch /\ call'[c].id = call[c].id
      BY <1>0, <3>2 DEF CallState
    <3>4. /\ \A j \in Ids \ {call[c].id} : proxy'[j] = proxy[j]
          /\ proxy'[call[c].id].ch = "empty" /\ proxy'[call[c].id].outcome = proxy[call[c].id].outcome
      BY <3>1, <2>1 DEF WaitTakes, TypeOK, ProxyState
    <3>5. proxy[call[c].id].ch = proxy[call[c].id].outcome
      BY <2>1, <3>1 DEF WaitTakes, OutcomeInv
    <3>6. \A b \in Callers : call[b].pc = "replay" => call[b].id \in Ids
      BY DEF TypeOK, CallInv, OpAt, Ids
    <3>7. QED
      BY <2>0, <3>1, <3>3, <3>4, <3>5, <3>6 DEF OutcomeInv, OutcomeKept
  <2>2. CASE WaitReplays(c)
    <3>1. call[c].pc = "replay" /\ call[c].id \in Ids /\ proxy[call[c].id] \in ProxyState
      BY <2>0, <2>2 DEF WaitReplays, TypeOK
    <3>2. call'[c] = Idle
      BY <1>0, <2>2 DEF WaitReplays, Return
    <3>3. call[c].got = proxy[call[c].id].outcome
      BY <3>1 DEF OutcomeInv
    <3>4. proxy[call[c].id].ch \in {"empty", proxy[call[c].id].outcome}
      BY <3>1 DEF OutcomeInv
    <3>5. /\ \A j \in Ids \ {call[c].id} : proxy'[j] = proxy[j]
          /\ proxy'[call[c].id].outcome = proxy[call[c].id].outcome
          /\ proxy'[call[c].id].ch = IF proxy[call[c].id].ch = "empty" THEN call[c].got
                                     ELSE proxy[call[c].id].ch
      BY <3>1, <2>2 DEF WaitReplays, TypeOK, ProxyState
    <3>6. proxy'[call[c].id].ch = proxy'[call[c].id].outcome
      BY <3>3, <3>4, <3>5
    <3>7. \A b \in Callers : call[b].pc = "replay" => call[b].id \in Ids
      BY DEF TypeOK, CallInv, OpAt, Ids
    <3>8. QED
      BY <2>0, <3>1, <3>2, <3>5, <3>6, <3>7, IdleShape DEF OutcomeInv, OutcomeKept
  <2>3. CASE UpFails(c)
    <3>1. /\ proxy' = [proxy EXCEPT ![call[c].id] = Signalled(@, "failed")]
          /\ call[c].pc = "starting" /\ call' = [call EXCEPT ![c].pc = "close"] /\ call[c].id \in Ids
      BY <2>0, <2>3 DEF UpFails, StartFailed, Goto
    <3>2. call'[c].pc = "close"
      BY <1>0, <3>1 DEF CallState
    <3>3. QED
      BY <2>0, <3>1, <3>2, SignalKept
  <2>4. ASSUME \/ NoTun(c) \/ SetupClosed(c) \/ IpcSetFails(c) \/ UpOpens(c) \/ UpStarted(c)
               \/ AttachPublishes(c) \/ TurnOnPublishes(c) \/ WaitGivesUp(c) \/ UseEnds(c)
               \/ TurnOffStops(c) \/ TurnOffDrained(c) \/ \E d \in Devices : NewDevice(c, d)
        PROVE  OutcomeInv'
    <3>1. \/ call' = [call EXCEPT ![c] = Idle]
          \/ \E pc \in {"close", "starting", "publish"} : call' = [call EXCEPT ![c].pc = pc]
          \/ TurnOffStops(c) \/ \E d \in Devices : NewDevice(c, d)
      BY <2>4 DEF NoTun, SetupClosed, IpcSetFails, UpOpens, UpStarted, Opened, AttachPublishes, AttachRaced,
         Attached, TurnOnPublishes, WaitGivesUp, UseEnds, TurnOffDrained, Goto, Return
    <3>2. call[c].pc # "replay"
      BY <2>4 DEF NoTun, SetupClosed, IpcSetFails, UpOpens, UpStarted, AttachPublishes, At,
         TurnOnPublishes, WaitGivesUp, UseEnds, TurnOffStops, TurnOffDrained, NewDevice
    <3>3. call'[c].pc # "replay"
      <4>1. CASE call' = [call EXCEPT ![c] = Idle]
        BY <1>0, <4>1, IdleShape
      <4>2. ASSUME NEW pc \in {"close", "starting", "publish"}, call' = [call EXCEPT ![c].pc = pc]
            PROVE  call'[c].pc # "replay"
        BY <1>0, <4>2 DEF CallState
      <4>3. CASE TurnOffStops(c)
        <5>1. call'[c] = [call[c] EXCEPT !.pc = "drain", !.dev = entryDev[call[c].id]]
          BY <1>0, <4>3 DEF TurnOffStops
        <5>2. QED
          BY <1>0, <5>1 DEF CallState
      <4>4. ASSUME NEW d \in Devices, NewDevice(c, d) PROVE call'[c].pc # "replay"
        <5>1. call'[c] = [call[c] EXCEPT !.dev = d, !.pc = "up"]
          BY <1>0, <4>4 DEF NewDevice
        <5>2. QED
          BY <1>0, <5>1 DEF CallState
      <4>5. QED
        BY <3>1, <4>1, <4>2, <4>3, <4>4
    <3>4. \/ proxy' = proxy
          \/ proxy' = [proxy EXCEPT ![call[c].id].started = TRUE] /\ call[c].id \in Ids
          \/ proxy' = [proxy EXCEPT ![call[c].id].done = TRUE] /\ call[c].id \in Ids
      BY <2>0, <2>4 DEF NoTun, SetupClosed, IpcSetFails, UpOpens, UpStarted, Started, AttachPublishes, At,
         TurnOnPublishes, WaitGivesUp, UseEnds, TurnOffStops, TurnOffDrained, NewDevice
    <3>5. \A j \in Ids : proxy'[j].outcome = proxy[j].outcome /\ proxy'[j].ch = proxy[j].ch
      BY <3>4, SMTT(30) DEF TypeOK, ProxyState
    <3>6. OutcomeSame
      BY <2>0, <3>2, <3>3, <3>5 DEF OutcomeSame
    <3>7. QED
      BY <3>6, SameKept
  <2>5. QED
    BY <1>1, <2>1, <2>2, <2>3, <2>4 DEF CallStep
<1>2. ASSUME NEW i \in Ids, ProxyStep(i) PROVE OutcomeInv'
  <2>0. call' = call
    BY <1>2, ProxyEffectOfProxies
  <2>1. \/ \E o \in {"ok", "failed"} : proxy' = [proxy EXCEPT ![i] = Signalled(@, o)]
        \/ proxy' = proxy
        \/ proxy' = [proxy EXCEPT ![i].started = TRUE]
        \/ proxy' = [proxy EXCEPT ![i].conns = TRUE] \/ proxy' = [proxy EXCEPT ![i].conns = FALSE]
    BY <1>2 DEF ProxyStep, Connects, ConnUp, ConnsEnd, BootStarts, Started, BootReturns, StartFailed
  <2>2. ASSUME NEW o \in {"ok", "failed"}, proxy' = [proxy EXCEPT ![i] = Signalled(@, o)]
        PROVE  OutcomeInv'
    BY <2>0, <2>2, SignalKept
  <2>3. ASSUME ~\E o \in {"ok", "failed"} : proxy' = [proxy EXCEPT ![i] = Signalled(@, o)]
        PROVE  OutcomeInv'
    <3>1. \A j \in Ids : proxy'[j].outcome = proxy[j].outcome /\ proxy'[j].ch = proxy[j].ch
      BY <2>1, <2>3 DEF TypeOK, ProxyState
    <3>2. QED
      BY <2>0, <3>1, SameKept DEF OutcomeSame
  <2>4. QED
    BY <2>2, <2>3
<1>3. ASSUME NEW d \in Devices, ReceiveEnds(d) \/ CloseEnds(d) PROVE OutcomeInv'
  BY <1>3, SameKept DEF OutcomeSame, ReceiveEnds, CloseEnds
<1>4. ASSUME NEW c \in Callers, StartVKBootstrap(c) PROVE OutcomeInv'
  BY <1>4, SameKept DEF OutcomeSame, StartVKBootstrap
<1>5. ASSUME NEW c \in Callers, NEW i \in Ids,
             \/ TurnOnBegins(c) \/ AttachBegins(c, i) \/ WaitBegins(c, i)
             \/ TurnOffBegins(c, i) \/ UseBegins(c, i)
      PROVE  OutcomeInv'
  <2>1. /\ proxy' = proxy /\ call[c].pc # "replay"
        /\ \/ call' = [call EXCEPT ![c] = Entering("TurnOn", "create", nextID', None)]
           \/ call' = [call EXCEPT ![c] = Entering("Attach", "create", i, None)]
           \/ call' = [call EXCEPT ![c] = Entering("Wait", "wait", i, None)]
           \/ call' = [call EXCEPT ![c] = Entering("TurnOff", "stop", i, None)]
           \/ call' = [call EXCEPT ![c] = Entering("Use", "use", i, entryDev[i])]
    BY <1>5, IdleShape DEF TurnOnBegins, AttachBegins, WaitBegins, TurnOffBegins, UseBegins
  <2>2. /\ \A b \in Callers \ {c} : call'[b] = call[b]
        /\ \/ call'[c] = Entering("TurnOn", "create", nextID', None)
           \/ call'[c] = Entering("Attach", "create", i, None)
           \/ call'[c] = Entering("Wait", "wait", i, None)
           \/ call'[c] = Entering("TurnOff", "stop", i, None)
           \/ call'[c] = Entering("Use", "use", i, entryDev[i])
    BY <1>0, <2>1
  <2>3. call'[c].pc # "replay"
    BY <2>2 DEF Entering
  <2>4. QED
    BY <2>1, <2>2, <2>3, SameKept DEF OutcomeSame
<1>6. CASE UNCHANGED vars
  BY <1>6, SameKept DEF OutcomeSame, vars
<1>7. QED
  BY <1>1, <1>2, <1>3, <1>4, <1>5, <1>6 DEF Next, Ids

-----------------------------------------------------------------------------
(* The owner of an open device *)

(* The call that will close a device, or that will read it from its entry. *)
Holds(k, d) ==
  \/ k.dev = d /\ k.op \in {"Attach", "TurnOn", "TurnOff"}
  \/ k.op = "TurnOff" /\ k.pc = "stop" /\ entryDev[k.id] = d

LEMMA InCallHolds == \A d : InCall(d) <=> \E c \in Callers : Holds(call[c], d)
BY DEF InCall, Holds, At

(* The steps of a call that makes no device and publishes none: a device it gives *)
(* up is not open any more.                                                       *)
LEMMA DeviceKeptBy ==
  ASSUME TypeOK, CallInv, DeviceInv, NEW c \in Callers,
         \A b \in Callers \ {c} : call'[b] = call[b],
         entryDev' = entryDev, tunnels \subseteq tunnels', overtaken \subseteq overtaken',
         \A d \in Devices : /\ device'[d].of = device[d].of
                            /\ device[d].pc # "unused" => device'[d].pc # "unused"
                            /\ Open(d)' => Open(d) \/ Holds(call[c], d),
         \A d \in Devices : Holds(call[c], d) => ~Open(d)' \/ Holds(call'[c], d),
         \/ call'[c].op \notin {"TurnOn", "Attach"}
         \/ call'[c].dev = None /\ (call'[c].op = "Attach" => call'[c].id \in tunnels')
         \/ call'[c].dev = call[c].dev /\ call'[c].op = call[c].op /\ call'[c].id = call[c].id
  PROVE  DeviceInv'
<1>1. \A b \in Callers : call'[b].op \in {"TurnOn", "Attach"} /\ call'[b].dev # None
         => device'[call'[b].dev].of = call'[b].id /\ device'[call'[b].dev].pc # "unused"
  <2>1. \A b \in Callers : call[b].dev \in Devices \cup {None}
    BY DEF TypeOK, CallState
  <2>2. QED
    BY <2>1 DEF DeviceInv
<1>2. \A b \in Callers : call'[b].op = "Attach" => call'[b].id \in tunnels' \cup overtaken'
  BY DEF DeviceInv
<1>3. ASSUME NEW d \in Devices, Open(d)'
      PROVE  \/ \E b \in Callers : Holds(call[b], d)'
             \/ device'[d].of \in tunnels' /\ entryDev'[device'[d].of] = d
             \/ device'[d].of \in overtaken'
  <2>1. CASE Holds(call[c], d)
    BY <1>3, <2>1 DEF Holds
  <2>2. CASE ~Holds(call[c], d)
    <3>1. Open(d)
      BY <1>3, <2>2
    <3>2. \/ \E b \in Callers \ {c} : Holds(call[b], d)
          \/ device[d].of \in tunnels /\ entryDev[device[d].of] = d
          \/ device[d].of \in overtaken
      BY <2>2, <3>1, InCallHolds DEF DeviceInv, OpenDeviceOwned
    <3>3. QED
      BY <3>2 DEF Holds
  <2>3. QED
    BY <2>1, <2>2
<1>4. OpenDeviceOwned'
  BY <1>3 DEF OpenDeviceOwned, InCall, Holds, At
<1>5. QED
  BY <1>1, <1>2, <1>4 DEF DeviceInv

(* The steps within a call that publish no device and make none. *)
LEMMA DeviceCallKept ==
  ASSUME TypeOK, CallInv, DeviceInv, NEW c \in Callers, CallStep(c),
         entryDev' = entryDev, ~TurnOnPublishes(c), ~\E d \in Devices : NewDevice(c, d)
  PROVE  DeviceInv'
<1>0. call \in [Callers -> CallState] /\ call[c] \in CallState /\ OpAt(call[c])
  BY DEF TypeOK, CallInv
<1>a. /\ \A b \in Callers \ {c} : call'[b] = call[b]
      /\ tunnels \subseteq tunnels' /\ overtaken \subseteq overtaken'
  BY CallEffects DEF CallEffect, HandleEffect
<1>b. call[c].pc \in {"up", "starting", "publish", "close"} => call[c].dev \in Devices
  BY <1>0 DEF OpAt
<1>1. CASE NoTun(c) \/ SetupClosed(c) \/ WaitReplays(c) \/ WaitGivesUp(c) \/ UseEnds(c)
  <2>1. call'[c] = Idle /\ device' = device
    BY <1>0, <1>1 DEF NoTun, SetupClosed, WaitReplays, WaitGivesUp, UseEnds, Return
  <2>2. \A d \in Devices : Holds(call[c], d) => ~Open(d)
    BY <1>0, <1>1 DEF Holds, Open, OpAt, NoTun, SetupClosed, WaitReplays, WaitGivesUp, UseEnds
  <2>3. \A d \in Devices : Holds(call[c], d) => ~Open(d)'
    BY <2>1, <2>2 DEF Open
  <2>4. QED
    BY <1>a, <2>1, <2>3, IdleShape, DeviceKeptBy DEF Open
<1>2. ASSUME call' = [call EXCEPT ![c].pc = "close"], call[c].dev \in Devices, call[c].pc # "stop",
             device' = [device EXCEPT ![call[c].dev].pc = "closing"]
      PROVE  DeviceInv'
  <2>1. call'[c].dev = call[c].dev /\ call'[c].op = call[c].op /\ call'[c].id = call[c].id
    BY <1>0, <1>2 DEF CallState
  <2>2. \A d \in Devices : /\ device'[d].of = device[d].of
                           /\ device[d].pc # "unused" => device'[d].pc # "unused"
                           /\ Open(d)' => Open(d)
    BY <1>2 DEF TypeOK, DeviceState, Open
  <2>3. \A d \in Devices : Holds(call[c], d) => Holds(call'[c], d)
    BY <1>2, <2>1 DEF Holds
  <2>4. QED
    BY <1>a, <2>1, <2>2, <2>3, DeviceKeptBy
<1>3. CASE IpcSetFails(c) \/ UpFails(c) \/ AttachPublishes(c)
  <2>1. CASE IpcSetFails(c) \/ UpFails(c)
    BY <1>b, <1>2, <2>1 DEF IpcSetFails, UpFails, Goto, Close
  <2>2. CASE AttachPublishes(c)
    <3>1. call[c].dev \in Devices /\ call[c].pc = "publish" /\ call[c].id \in Ids
      BY <1>b, <2>2 DEF AttachPublishes, At, CallInv, TypeOK, Ids
    <3>2. CASE AttachRaced(c)
      BY <1>2, <3>1, <3>2 DEF AttachRaced, Goto, Close
    <3>3. CASE Attached(c) /\ entryDev[call[c].id] = None
      <4>1. entryDev'[call[c].id] = call[c].dev
        BY <3>1, <3>3 DEF Attached, TypeOK
      <4>2. QED
        BY <3>1, <3>3, <4>1
    <3>4. QED
      BY <2>2, <3>2, <3>3 DEF AttachPublishes
  <2>3. QED
    BY <1>3, <2>1, <2>2
<1>4. CASE UpOpens(c) \/ UpStarted(c)
  <2>1. /\ call[c].pc \in {"up", "starting"}
        /\ call' = [call EXCEPT ![c].pc = "starting"] \/ call' = [call EXCEPT ![c].pc = "publish"]
        /\ \/ device' = device
           \/ device' = [device EXCEPT ![call[c].dev].pc = "up", ![call[c].dev].recv = "reading"]
    BY <1>4 DEF UpOpens, UpStarted, Opened, Goto
  <2>2. call'[c].dev = call[c].dev /\ call'[c].op = call[c].op /\ call'[c].id = call[c].id
    BY <1>0, <2>1 DEF CallState
  <2>3. Holds(call[c], call[c].dev) /\ call[c].dev \in Devices
    BY <1>0, <1>b, <2>1 DEF Holds, OpAt
  <2>4. \A d \in Devices : /\ device'[d].of = device[d].of
                           /\ device[d].pc # "unused" => device'[d].pc # "unused"
                           /\ d # call[c].dev => device'[d] = device[d]
    <3>1. \A q \in DeviceState : /\ [q EXCEPT !.pc = "up", !.recv = "reading"].of = q.of
                                 /\ [q EXCEPT !.pc = "up", !.recv = "reading"].pc = "up"
      BY DEF DeviceState
    <3>2. \/ device' = device
          \/ /\ device'[call[c].dev] = [device[call[c].dev] EXCEPT !.pc = "up", !.recv = "reading"]
             /\ \A d \in Devices \ {call[c].dev} : device'[d] = device[d]
      BY <2>1, <2>3 DEF TypeOK
    <3>3. device[call[c].dev] \in DeviceState
      BY <2>3 DEF TypeOK
    <3>4. \/ device' = device
          \/ /\ device'[call[c].dev].of = device[call[c].dev].of /\ device'[call[c].dev].pc = "up"
             /\ \A d \in Devices \ {call[c].dev} : device'[d] = device[d]
      BY <3>1, <3>2, <3>3
    <3>5. QED
      BY <2>3, <3>4
  <2>5. \A d \in Devices : Open(d)' => Open(d) \/ Holds(call[c], d)
    BY <2>3, <2>4 DEF Open
  <2>6. \A d \in Devices : Holds(call[c], d) => Holds(call'[c], d)
    BY <2>1, <2>2 DEF Holds
  <2>7. QED
    BY <1>a, <2>2, <2>4, <2>5, <2>6, DeviceKeptBy
<1>5. CASE WaitTakes(c)
  <2>1. call'[c] = [call[c] EXCEPT !.pc = "replay", !.got = proxy[call[c].id].ch]
    BY <1>0, <1>5 DEF WaitTakes
  <2>2. call'[c].op = "Wait" /\ call[c].op = "Wait" /\ call[c].pc = "wait" /\ device' = device
    BY <1>0, <1>5, <2>1 DEF CallState, WaitTakes, OpAt
  <2>3. \A d \in Devices : ~Holds(call[c], d)
    BY <2>2 DEF Holds
  <2>4. QED
    BY <1>a, <2>2, <2>3, DeviceKeptBy DEF Open
<1>6. CASE TurnOffStops(c)
  <2>1. call'[c] = [call[c] EXCEPT !.pc = "drain", !.dev = entryDev[call[c].id]]
    BY <1>0, <1>6 DEF TurnOffStops
  <2>2. /\ call[c].op = "TurnOff" /\ call[c].dev = None /\ device' = device
        /\ call'[c].op = call[c].op /\ call'[c].dev = entryDev[call[c].id]
    BY <1>0, <1>6, <2>1 DEF CallState, TurnOffStops, At, OpAt
  <2>3. \A d \in Devices : Holds(call[c], d) => Holds(call'[c], d)
    BY <2>2 DEF Holds
  <2>4. QED
    BY <1>a, <2>2, <2>3, DeviceKeptBy DEF Open
<1>7. CASE TurnOffDrained(c)
  <2>1. call[c].op = "TurnOff" /\ call[c].pc = "drain" /\ call[c].dev \in Devices \cup {None}
    BY <1>0, <1>7 DEF TurnOffDrained, At, CallState
  <2>2. CASE call[c].dev = None
    <3>1. call'[c] = Idle /\ device' = device
      BY <1>0, <1>7, <2>2 DEF TurnOffDrained, Return
    <3>2. \A d \in Devices : ~Holds(call[c], d)
      BY <2>1, <2>2 DEF Holds
    <3>3. QED
      BY <1>a, <3>1, <3>2, IdleShape, DeviceKeptBy DEF Open
  <2>3. CASE call[c].dev # None
    BY <1>2, <1>7, <2>1, <2>3 DEF TurnOffDrained, Goto, Close
  <2>4. QED
    BY <2>2, <2>3
<1>8. QED
  BY <1>1, <1>3, <1>4, <1>5, <1>6, <1>7 DEF CallStep

(* A device is made, or published by the call that made it. *)
LEMMA DeviceMadeKept ==
  ASSUME TypeOK, CallInv, HandleInv, DeviceInv, NEW c \in Callers, CallStep(c),
         entryDev' # entryDev \/ TurnOnPublishes(c) \/ \E d \in Devices : NewDevice(c, d)
  PROVE  DeviceInv'
<1>0. call \in [Callers -> CallState] /\ call[c] \in CallState /\ OpAt(call[c])
  BY DEF TypeOK, CallInv
<1>a. /\ \A b \in Callers \ {c} : call'[b] = call[b]
      /\ tunnels \subseteq tunnels' /\ overtaken \subseteq overtaken'
  BY CallEffects DEF CallEffect, HandleEffect
<1>1. ASSUME Attached(c), call[c].op \in {"Attach", "TurnOn"}, call[c].pc = "publish",
             call[c].op = "TurnOn" => call[c].id \in tunnels',
             call[c].op = "Attach" => entryDev[call[c].id] = None
      PROVE  DeviceInv'
  <2>1. call[c].dev \in Devices /\ call[c].id \in Ids
    BY <1>0, <1>1 DEF OpAt, CallInv, TypeOK, Ids
  <2>2. /\ call'[c] = Idle /\ device' = device /\ entryDev'[call[c].id] = call[c].dev
        /\ \A i \in Ids \ {call[c].id} : entryDev'[i] = entryDev[i]
    BY <1>0, <1>1, <2>1 DEF Attached, Return, TypeOK
  <2>3. device[call[c].dev].of = call[c].id
    BY <1>1, <2>1 DEF DeviceInv
  <2>4. call[c].id \in tunnels' \cup overtaken'
    BY <1>1, <1>a DEF DeviceInv
  <2>5. /\ \A b \in Callers : call'[b].op \in {"TurnOn", "Attach"} /\ call'[b].dev # None
             => device'[call'[b].dev].of = call'[b].id /\ device'[call'[b].dev].pc # "unused"
        /\ \A b \in Callers : call'[b].op = "Attach" => call'[b].id \in tunnels' \cup overtaken'
    BY <1>a, <2>2, IdleShape DEF DeviceInv
  <2>6. ASSUME NEW d \in Devices, Open(d)'
        PROVE  \/ \E b \in Callers : Holds(call[b], d)'
               \/ device'[d].of \in tunnels' /\ entryDev'[device'[d].of] = d
               \/ device'[d].of \in overtaken'
    <3>1. CASE d = call[c].dev
      BY <2>2, <2>3, <2>4, <3>1
    <3>2. CASE d # call[c].dev
      <4>1. Open(d)
        BY <2>2, <2>6 DEF Open
      <4>2. ~Holds(call[c], d)
        BY <1>1, <3>2 DEF Holds
      <4>3. CASE \E b \in Callers \ {c} : Holds(call[b], d)
        <5>1. PICK b \in Callers \ {c} : Holds(call[b], d)
          BY <4>3
        <5>2. call[b].op = "TurnOff" => call[b].id \in Ids
          BY <5>1 DEF CallInv, TypeOK, Ids
        <5>3. call[b].op = "TurnOff" /\ call[b].pc = "stop" /\ entryDev[call[b].id] = d
                => call[b].id # call[c].id
          BY <1>1, <5>1 DEF HandleInv, Exclusive
        <5>4. Holds(call[b], d)'
          BY <1>a, <2>2, <5>1, <5>2, <5>3 DEF Holds
        <5>5. QED
          BY <5>1, <5>4
      <4>4. CASE device[d].of \in tunnels /\ entryDev[device[d].of] = d
        <5>a. tunnels \subseteq Ids
          BY DEF TypeOK, Ids
        <5>1. device[d].of \in Ids
          BY <4>4, <5>a
        <5>2. device[d].of # call[c].id
          BY <1>1, <4>4 DEF HandleInv, Exclusive
        <5>3. QED
          BY <1>a, <2>2, <4>4, <5>1, <5>2
      <4>5. CASE device[d].of \in overtaken
        BY <1>a, <2>2, <4>5
      <4>6. QED
        BY <4>1, <4>2, <4>3, <4>4, <4>5, InCallHolds DEF DeviceInv, OpenDeviceOwned
    <3>3. QED
      BY <3>1, <3>2
  <2>7. OpenDeviceOwned'
    BY <2>6 DEF OpenDeviceOwned, InCall, Holds, At
  <2>8. QED
    BY <2>5, <2>7 DEF DeviceInv
<1>2. ASSUME NEW e \in Devices, NewDevice(c, e) PROVE DeviceInv'
  <2>1. /\ call[c].pc = "create" /\ call[c].dev = None /\ call[c].op \in {"TurnOn", "Attach"}
        /\ call'[c] = [call[c] EXCEPT !.dev = e, !.pc = "up"]
        /\ entryDev' = entryDev /\ device[e].pc = "unused"
    BY <1>0, <1>2 DEF NewDevice, OpAt
  <2>2. call'[c].dev = e /\ call'[c].op = call[c].op /\ call'[c].id = call[c].id
    BY <1>0, <2>1 DEF CallState
  <2>3. /\ device'[e].of = call[c].id /\ device'[e].pc = "new"
        /\ \A d \in Devices \ {e} : device'[d] = device[d]
    BY <1>2 DEF NewDevice, TypeOK, NoDevice
  <2>4. \A b \in Callers : call'[b].op \in {"TurnOn", "Attach"} /\ call'[b].dev # None
             => device'[call'[b].dev].of = call'[b].id /\ device'[call'[b].dev].pc # "unused"
    <3>1. \A b \in Callers : call[b].dev \in Devices \cup {None}
      BY DEF TypeOK, CallState
    <3>2. \A b \in Callers : call[b].op \in {"TurnOn", "Attach"} => call[b].dev # e
      BY <2>1 DEF DeviceInv
    <3>3. \A b \in Callers \ {c} : call[b].op \in {"TurnOn", "Attach"} /\ call[b].dev # None
             => device'[call[b].dev] = device[call[b].dev]
      BY <2>3, <3>1, <3>2
    <3>4. QED
      BY <1>a, <2>2, <2>3, <3>3 DEF DeviceInv
  <2>5. \A b \in Callers : call'[b].op = "Attach" => call'[b].id \in tunnels' \cup overtaken'
    BY <1>a, <2>2 DEF DeviceInv
  <2>6. ASSUME NEW d \in Devices, Open(d)'
        PROVE  \/ \E b \in Callers : Holds(call[b], d)'
               \/ device'[d].of \in tunnels' /\ entryDev'[device'[d].of] = d
               \/ device'[d].of \in overtaken'
    <3>1. CASE d = e
      BY <2>1, <2>2, <3>1 DEF Holds
    <3>2. CASE d # e
      <4>1. Open(d) /\ device'[d] = device[d]
        BY <2>3, <2>6, <3>2 DEF Open
      <4>2. ~Holds(call[c], d)
        BY <2>1 DEF Holds
      <4>3. QED
        BY <1>a, <2>1, <4>1, <4>2, InCallHolds DEF DeviceInv, OpenDeviceOwned, Holds
    <3>3. QED
      BY <3>1, <3>2
  <2>7. OpenDeviceOwned'
    BY <2>6 DEF OpenDeviceOwned, InCall, Holds, At
  <2>8. QED
    BY <2>4, <2>5, <2>7 DEF DeviceInv
<1>3. CASE TurnOnPublishes(c)
  <2>1. call[c].id \in tunnels'
    BY <1>3 DEF TurnOnPublishes
  <2>2. QED
    BY <1>1, <1>3, <2>1 DEF TurnOnPublishes, At
<1>4. CASE entryDev' # entryDev /\ ~TurnOnPublishes(c)
  <2>1. AttachPublishes(c)
    BY <1>4 DEF CallStep, NoTun, IpcSetFails, UpOpens, UpStarted, UpFails, SetupClosed, WaitTakes,
       WaitReplays, WaitGivesUp, TurnOffStops, TurnOffDrained, UseEnds, NewDevice
  <2>2. QED
    BY <1>1, <1>4, <2>1 DEF AttachPublishes, AttachRaced, At
<1>5. QED
  BY <1>2, <1>3, <1>4

LEMMA DeviceInvKept ==
  ASSUME TypeOK, CallInv, HandleInv, DeviceInv, [Next]_vars
  PROVE  DeviceInv'
<1>0. call \in [Callers -> CallState]
  BY DEF TypeOK
<1>1. ASSUME NEW c \in Callers, CallStep(c) PROVE DeviceInv'
  BY <1>1, DeviceCallKept, DeviceMadeKept
<1>2. ASSUME NEW i \in Ids, ProxyStep(i) PROVE DeviceInv'
  <2>1. UNCHANGED <<tunnels, entryDev, device, call, overtaken>>
    BY <1>2, ProxyEffectOfProxies
  <2>2. QED
    BY <2>1 DEF DeviceInv, OpenDeviceOwned, Open, InCall, At
<1>3. ASSUME NEW e \in Devices, ReceiveEnds(e) \/ CloseEnds(e) PROVE DeviceInv'
  <2>1. /\ UNCHANGED <<tunnels, entryDev, call, overtaken>>
        /\ \A d \in Devices : /\ device'[d].of = device[d].of
                              /\ device[d].pc # "unused" => device'[d].pc # "unused"
                              /\ Open(d)' => Open(d)
    BY <1>3 DEF ReceiveEnds, CloseEnds, TypeOK, DeviceState, Open, history
  <2>2. \A c \in Callers : call[c].dev \in Devices \cup {None}
    BY DEF TypeOK, CallState
  <2>3. QED
    BY <2>1, <2>2 DEF DeviceInv, OpenDeviceOwned, InCall, At
<1>4. ASSUME NEW c \in Callers, StartVKBootstrap(c) PROVE DeviceInv'
  <2>1. UNCHANGED <<entryDev, device, call, overtaken>> /\ tunnels \subseteq tunnels'
    BY <1>4 DEF StartVKBootstrap, history
  <2>2. QED
    BY <2>1 DEF DeviceInv, OpenDeviceOwned, Open, InCall, At
<1>5. ASSUME NEW c \in Callers, NEW i \in Ids,
             TurnOnBegins(c) \/ AttachBegins(c, i) \/ WaitBegins(c, i) \/ UseBegins(c, i)
      PROVE  DeviceInv'
  <2>1. UNCHANGED <<tunnels, entryDev, device, overtaken>> /\ call[c] = Idle
    BY <1>5 DEF TurnOnBegins, AttachBegins, WaitBegins, UseBegins, history
  <2>2. /\ \/ call' = [call EXCEPT ![c] = Entering("TurnOn", "create", nextID', None)]
           \/ call' = [call EXCEPT ![c] = Entering("Attach", "create", i, None)] /\ i \in tunnels
           \/ call' = [call EXCEPT ![c] = Entering("Wait", "wait", i, None)]
           \/ call' = [call EXCEPT ![c] = Entering("Use", "use", i, entryDev[i])]
    BY <1>5 DEF TurnOnBegins, AttachBegins, WaitBegins, UseBegins
  <2>3. /\ \A b \in Callers \ {c} : call'[b] = call[b]
        /\ \/ call'[c] = Entering("TurnOn", "create", nextID', None)
           \/ call'[c] = Entering("Attach", "create", i, None) /\ i \in tunnels
           \/ call'[c] = Entering("Wait", "wait", i, None)
           \/ call'[c] = Entering("Use", "use", i, entryDev[i])
    BY <1>0, <2>2
  <2>4. \/ call'[c].op \notin {"TurnOn", "Attach"}
        \/ call'[c].dev = None /\ (call'[c].op = "Attach" => call'[c].id \in tunnels')
    BY <2>1, <2>3 DEF Entering
  <2>5. \A d \in Devices : ~Holds(call[c], d)
    BY <2>1, IdleShape DEF Holds
  <2>6. QED
    BY <2>1, <2>3, <2>4, <2>5, DeviceKeptBy DEF Open
<1>6. ASSUME NEW c \in Callers, NEW i \in Ids, TurnOffBegins(c, i) PROVE DeviceInv'
  <2>1. /\ UNCHANGED <<entryDev, device>> /\ call[c] = Idle /\ tunnels' = tunnels \ {i}
        /\ call' = [call EXCEPT ![c] = Entering("TurnOff", "stop", i, None)]
        /\ overtaken' = IF \E b \in Callers : call[b].op = "Attach" /\ call[b].id = i
                        THEN overtaken \cup {i} ELSE overtaken
    BY <1>6 DEF TurnOffBegins
  <2>2. /\ \A b \in Callers \ {c} : call'[b] = call[b]
        /\ call'[c] = Entering("TurnOff", "stop", i, None)
    BY <1>0, <2>1
  <2>3. call'[c].op = "TurnOff" /\ call'[c].pc = "stop" /\ call'[c].id = i
    BY <2>2 DEF Entering
  <2>4. overtaken \subseteq overtaken'
    BY <2>1
  <2>5. \A b \in Callers : call'[b].op = "Attach" => call'[b].id \in tunnels' \cup overtaken'
    BY <2>1, <2>2, <2>3 DEF DeviceInv
  <2>6. \A b \in Callers : call'[b].op \in {"TurnOn", "Attach"} /\ call'[b].dev # None
          => device'[call'[b].dev].of = call'[b].id /\ device'[call'[b].dev].pc # "unused"
    BY <2>1, <2>2, <2>3 DEF DeviceInv
  <2>7. ASSUME NEW d \in Devices, Open(d)'
        PROVE  \/ \E b \in Callers : Holds(call[b], d)'
               \/ device'[d].of \in tunnels' /\ entryDev'[device'[d].of] = d
               \/ device'[d].of \in overtaken'
    <3>1. Open(d) /\ ~Holds(call[c], d)
      BY <2>1, <2>7, IdleShape DEF Open, Holds
    <3>2. CASE device[d].of = i /\ entryDev[i] = d
      BY <2>1, <2>3, <3>2 DEF Holds
    <3>3. QED
      BY <2>1, <2>2, <2>4, <3>1, <3>2, InCallHolds DEF DeviceInv, OpenDeviceOwned, Holds
  <2>8. OpenDeviceOwned'
    BY <2>7 DEF OpenDeviceOwned, InCall, Holds, At
  <2>9. QED
    BY <2>5, <2>6, <2>8 DEF DeviceInv
<1>7. CASE UNCHANGED vars
  BY <1>7 DEF DeviceInv, OpenDeviceOwned, Open, InCall, At, vars
<1>8. QED
  BY <1>1, <1>2, <1>3, <1>4, <1>5, <1>6, <1>7 DEF Next, Ids

-----------------------------------------------------------------------------
(* The theorems *)

IInv == TypeOK /\ CallInv /\ HandleInv /\ StopInv /\ OutcomeInv /\ DeviceInv

LEMMA IInvInit == Init => IInv
<1> SUFFICES ASSUME Init PROVE IInv
  OBVIOUS
<1>1. TypeOK
  BY TypeInit
<1>2. \A c \in Callers : call[c] = Idle
  BY DEF Init
<1>3. \A i \in Ids : /\ proxy[i].outcome = "unknown" /\ proxy[i].ch = "empty"
                     /\ ~proxy[i].started /\ boot[i] = "none"
  BY DEF Init, NewProxy
<1>4. \A d \in Devices : device[d].pc = "unused"
  BY DEF Init, NoDevice
<1>5. CallInv
  BY <1>2, <1>3, IdleShape DEF CallInv
<1>6. HandleInv
  BY <1>2, IdleShape DEF HandleInv, Exclusive
<1>7. StopInv
  <2>1. 1 .. nextID = {}
    BY DEF Init
  <2>2. QED
    BY <1>2, <2>1, IdleShape DEF StopInv
<1>8. OutcomeInv
  BY <1>2, <1>3, IdleShape DEF OutcomeInv, OutcomeKept
<1>9. DeviceInv
  BY <1>2, <1>4, IdleShape DEF DeviceInv, OpenDeviceOwned, Open
<1>10. QED
  BY <1>1, <1>5, <1>6, <1>7, <1>8, <1>9 DEF IInv

LEMMA TypeKept ==
  ASSUME TypeOK, CallInv, [Next]_vars
  PROVE  TypeOK'
<1>1. CASE UNCHANGED vars
  BY <1>1 DEF vars, TypeOK
<1>2. QED
  BY <1>1, TypeCall, TypeMake, TypeBegin, TypeProxy, TypeDevice DEF Next

LEMMA IInvKept == IInv /\ [Next]_vars => IInv'
BY TypeKept, CallInvKept, HandleInvKept, StopInvKept, OutcomeInvKept, DeviceInvKept DEF IInv

LEMMA IInvAlways == Spec => []IInv
BY IInvInit, IInvKept, PTL DEF Spec

(* The state of the bridge keeps its types: no export is ever at a point of a *)
(* function it is not in, and no handle is in the map that was not made.     *)
THEOREM TypeCorrect == Spec => []TypeOK
<1>1. IInv => TypeOK
  BY DEF IInv
<1>2. QED
  BY <1>1, IInvAlways, PTL

(* However many threads of the provider are in the API, at most one tears a   *)
(* tunnel down: wgTurnOff takes the entry out of the map under the lock.      *)
THEOREM OneTeardownAlways == Spec => []OneTeardown
<1>1. IInv => OneTeardown
  BY DEF IInv, HandleInv, Exclusive, OneTeardown
<1>2. QED
  BY <1>1, IInvAlways, PTL

(* A started proxy can always still be stopped by somebody, unless a failing  *)
(* wgTurnOnWithTURN left it behind.                                           *)
THEOREM ProxyAlwaysOwned == Spec => []RunningProxyOwned
<1>1. IInv => RunningProxyOwned
  BY DEF IInv, CallInv, StopInv, Exclusive, RunningProxyOwned
<1>2. QED
  BY <1>1, IInvAlways, PTL

(* No interleaving of callers of wgWaitBootstrapReady loses the outcome of    *)
(* the bootstrap, although taking it and putting it back are two steps.       *)
THEOREM OutcomeAlwaysKept == Spec => []OutcomeKept
<1>1. IInv => OutcomeKept
  BY DEF IInv, OutcomeInv
<1>2. QED
  BY <1>1, IInvAlways, PTL

(* An open WireGuard device always has somebody who will close it, unless its *)
(* tunnel was switched off while wgAttachWireGuard was bringing it up.        *)
THEOREM DeviceAlwaysOwned == Spec => []OpenDeviceOwned
<1>1. IInv => OpenDeviceOwned
  BY DEF IInv, DeviceInv
<1>2. QED
  BY <1>1, IInvAlways, PTL

=============================================================================
