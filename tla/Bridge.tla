------------------------------- MODULE Bridge --------------------------------
(***************************************************************************)
(* The C API through which the packet tunnel provider runs tunnels         *)
(* (WireGuardBridge/bridge.go), with the bind that joins a WireGuard       *)
(* device to its proxy (pkg/turnbind/bind.go).                             *)
(*                                                                         *)
(* Every export may be called from any thread.  tunnelsMu protects the map *)
(* from handles to entries only while an entry is looked up, published or  *)
(* removed: what is done with the entry afterwards is unprotected, so each *)
(* action is one critical section or one call made outside of it.          *)
(*                                                                         *)
(* A proxy is what its entry needs of it: whether it was started and       *)
(* stopped, whether it has connections, and what it said of its bootstrap  *)
(* (Lifecycle and Session say how it gets there).  The WireGuard device is *)
(* an external library: Up opens the bind and starts a receive routine,    *)
(* Close closes the bind and waits for that routine.                       *)
(***************************************************************************)
EXTENDS Naturals, FiniteSets

CONSTANTS
  Callers,       \* threads of the provider inside the API
  MaxTunnels,    \* bounds the handles given out
  Devices,       \* WireGuard devices that may be created (bounds the attaches)
  None           \* no device, no tunnel

ASSUME BridgeAssumption ==
  /\ IsFiniteSet(Callers)
  /\ MaxTunnels \in Nat \ {0}
  /\ None \notin Devices /\ None \notin Nat /\ None \notin Callers

Ids == 1 .. MaxTunnels

VARIABLES
  tunnels,       \* the handles in the map
  nextID,        \* how many proxies were created
  entryDev,      \* entry.device of each tunnel, published or not
  proxy,         \* what became of each tunnel's proxy
  boot,          \* the goroutine of wgStartVKBootstrap
  device,        \* the WireGuard devices
  call,          \* what each caller is doing
  \* History variables: no action's guard reads them.
  overtaken,     \* tunnels switched off while an attach held their entry
  abandoned      \* proxies wgTurnOnWithTURN left behind

vars == <<tunnels, nextID, entryDev, proxy, boot, device, call, overtaken, abandoned>>
history == <<overtaken, abandoned>>

-----------------------------------------------------------------------------
(* State *)

ProxyState ==
  [started  : BOOLEAN,                     \* Start's Swap
   done     : BOOLEAN,                     \* ctx is cancelled
   conns    : BOOLEAN,                     \* wg counts connection goroutines
   outcome  : {"unknown", "ok", "failed"}, \* what signalBootstrapDone was told first
   ch       : {"empty", "ok", "failed"}]   \* bootstrapDoneCh

NewProxy == [started |-> FALSE, done |-> FALSE, conns |-> FALSE,
             outcome |-> "unknown", ch |-> "empty"]

DeviceState ==
  [pc : {"unused", "new", "up", "closing", "closed"},
   of   : Ids \cup {None},
   recv : {"off", "reading", "ended"}]     \* its receive routine

NoDevice == [pc |-> "unused", of |-> None, recv |-> "off"]

CallState ==
  [pc : {"idle", "create", "up", "starting", "publish", "close", "wait", "replay",
         "stop", "drain", "use"},
   op  : {"none", "TurnOn", "Attach", "Wait", "TurnOff", "Use"},
   id  : Ids \cup {None},
   dev : Devices \cup {None},              \* the device it made, or must close
   got : {"none", "ok", "failed"}]         \* what it took from bootstrapDoneCh

Idle == [pc |-> "idle", op |-> "none", id |-> None, dev |-> None, got |-> "none"]

(* A call enters op for tunnel i; d is the device it finds there, if it looks. *)
Entering(op, pc, i, d) == [pc |-> pc, op |-> op, id |-> i, dev |-> d, got |-> "none"]

TypeOK ==
  /\ tunnels \subseteq 1 .. nextID
  /\ nextID \in 0 .. MaxTunnels
  /\ entryDev \in [Ids -> Devices \cup {None}]
  /\ proxy \in [Ids -> ProxyState]
  /\ boot \in [Ids -> {"none", "settle", "starting", "ended"}]
  /\ device \in [Devices -> DeviceState]
  /\ call \in [Callers -> CallState]
  /\ overtaken \subseteq Ids /\ abandoned \subseteq Ids

Init ==
  /\ tunnels = {} /\ nextID = 0
  /\ entryDev = [i \in Ids |-> None]
  /\ proxy = [i \in Ids |-> NewProxy]
  /\ boot = [i \in Ids |-> "none"]
  /\ device = [d \in Devices |-> NoDevice]
  /\ call = [c \in Callers |-> Idle]
  /\ overtaken = {} /\ abandoned = {}

Goto(c, pc) == call' = [call EXCEPT ![c].pc = pc]
Return(c) == call' = [call EXCEPT ![c] = Idle]

At(c, op, pc) == call[c].op = op /\ call[c].pc = pc

-----------------------------------------------------------------------------
(* The proxy, as its entry uses it *)

(* signalBootstrapDone: only the first outcome is sent. *)
Signalled(p, o) == IF p.outcome = "unknown" THEN [p EXCEPT !.outcome = o, !.ch = o] ELSE p

(* Start, up to startConnections: only its first caller goes on. *)
Started(i) == proxy' = [proxy EXCEPT ![i].started = TRUE]

(* startConnections has put a connection goroutine into wg.  It may do so *)
(* even after Stop: the goroutine then finds its context cancelled.       *)
Connects(i) ==
  /\ proxy[i].started
  /\ ~proxy[i].conns
  /\ \/ boot[i] = "starting"
     \/ \E c \in Callers : call[c].pc = "starting" /\ call[c].id = i
  /\ proxy' = [proxy EXCEPT ![i].conns = TRUE]
  /\ UNCHANGED <<tunnels, nextID, entryDev, boot, device, call, history>>

(* A connection is established, of this start or of a later restart. *)
ConnUp(i) ==
  /\ proxy[i].conns
  /\ proxy[i].outcome = "unknown"
  /\ proxy' = [proxy EXCEPT ![i] = Signalled(@, "ok")]
  /\ UNCHANGED <<tunnels, nextID, entryDev, boot, device, call, history>>

ConnsEnd(i) ==
  /\ proxy[i].conns /\ proxy[i].done
  /\ proxy' = [proxy EXCEPT ![i].conns = FALSE]
  /\ UNCHANGED <<tunnels, nextID, entryDev, boot, device, call, history>>

(* Start returns an error: the peer does not resolve, the first connection *)
(* failed for good, or the proxy was stopped.                              *)
StartFailed(i) == proxy' = [proxy EXCEPT ![i] = Signalled(@, "failed")]

-----------------------------------------------------------------------------
(* wgStartVKBootstrap: the goroutine that starts the proxy is launched     *)
(* before the entry is published; both happen before the handle is known.  *)

StartVKBootstrap(c) ==
  /\ call[c] = Idle
  /\ nextID < MaxTunnels
  /\ nextID' = nextID + 1
  /\ boot' = [boot EXCEPT ![nextID'] = "settle"]
  /\ tunnels' = tunnels \cup {nextID'}
  /\ UNCHANGED <<entryDev, proxy, device, call, history>>

(* After the 1.5 s it sleeps when it was seeded. *)
BootStarts(i) ==
  /\ boot[i] = "settle"
  /\ Started(i)
  /\ boot' = [boot EXCEPT ![i] = IF proxy[i].started THEN "ended" ELSE "starting"]
  /\ UNCHANGED <<tunnels, nextID, entryDev, device, call, history>>

(* Mutant: startConnections waits for its first connection only. *)
BootReturnsDeaf(i) ==
  /\ boot[i] = "starting"
  /\ proxy[i].outcome # "unknown"
  /\ boot' = [boot EXCEPT ![i] = "ended"]
  /\ UNCHANGED <<tunnels, nextID, entryDev, proxy, device, call, history>>

BootReturns(i) ==
  /\ boot[i] = "starting"
  /\ boot' = [boot EXCEPT ![i] = "ended"]
  /\ StartFailed(i) \/ UNCHANGED proxy       \* ready, or waiting for a captcha
  /\ UNCHANGED <<tunnels, nextID, entryDev, device, call, history>>

-----------------------------------------------------------------------------
(* wgAttachWireGuard, and wgTurnOnWithTURN, which makes its own proxy *)

AttachBegins(c, i) ==
  /\ call[c] = Idle
  /\ i \in tunnels
  /\ entryDev[i] = None
  /\ call' = [call EXCEPT ![c] = Entering("Attach", "create", i, None)]
  /\ UNCHANGED <<tunnels, nextID, entryDev, proxy, boot, device, history>>

(* The handle is not known to anyone before the entry is published. *)
TurnOnBegins(c) ==
  /\ call[c] = Idle
  /\ nextID < MaxTunnels
  /\ nextID' = nextID + 1
  /\ call' = [call EXCEPT ![c] = Entering("TurnOn", "create", nextID', None)]
  /\ UNCHANGED <<tunnels, entryDev, proxy, boot, device, history>>

(* What an early return leaves of the proxy. *)
Forsake(c) ==
  abandoned' = IF call[c].op = "TurnOn" THEN abandoned \cup {call[c].id} ELSE abandoned

(* dup or CreateTUNFromFile failed. *)
NoTun(c) ==
  /\ call[c].pc = "create"
  /\ Return(c)
  /\ Forsake(c)
  /\ UNCHANGED <<tunnels, nextID, entryDev, proxy, boot, device, overtaken>>

NewDevice(c, d) ==
  /\ call[c].pc = "create"
  /\ device[d].pc = "unused"
  /\ device' = [device EXCEPT ![d] = [NoDevice EXCEPT !.pc = "new", !.of = call[c].id]]
  /\ call' = [call EXCEPT ![c].dev = d, ![c].pc = "up"]
  /\ UNCHANGED <<tunnels, nextID, entryDev, proxy, boot, history>>

Close(d) == device' = [device EXCEPT ![d].pc = "closing"]

(* IpcSet refused the settings. *)
IpcSetFails(c) ==
  /\ call[c].pc = "up"
  /\ Goto(c, "close")
  /\ Close(call[c].dev)
  /\ UNCHANGED <<tunnels, nextID, entryDev, proxy, boot, history>>

(* Up opened the bind: the receive routine of the device runs. *)
Opened(c) ==
  /\ device' = [device EXCEPT ![call[c].dev].pc = "up", ![call[c].dev].recv = "reading"]
  /\ Goto(c, "publish")

(* Open calls Start. *)
UpOpens(c) ==
  /\ call[c].pc = "up"
  /\ LET i == call[c].id IN
     /\ Started(i)
     /\ IF proxy[i].started THEN Opened(c)
        ELSE Goto(c, "starting") /\ UNCHANGED device
  /\ UNCHANGED <<tunnels, nextID, entryDev, boot, history>>

(* Open's call to Start, the first one, returns. *)
UpStarted(c) ==
  /\ call[c].pc = "starting"
  /\ Opened(c)
  /\ UNCHANGED <<tunnels, nextID, entryDev, proxy, boot, history>>

UpFails(c) ==
  /\ call[c].pc = "starting"
  /\ StartFailed(call[c].id)
  /\ Goto(c, "close")
  /\ Close(call[c].dev)
  /\ UNCHANGED <<tunnels, nextID, entryDev, boot, history>>

(* The device failed to come up or lost the race: the call waits for Close. *)
SetupClosed(c) ==
  /\ call[c].pc = "close"
  /\ device[call[c].dev].pc = "closed"
  /\ Return(c)
  /\ Forsake(c)
  /\ UNCHANGED <<tunnels, nextID, entryDev, proxy, boot, device, overtaken>>

Attached(c) ==
  /\ entryDev' = [entryDev EXCEPT ![call[c].id] = call[c].dev]
  /\ Return(c)
  /\ UNCHANGED device

(* Mutant: the loser of the race leaves its device open. *)
AttachRacedOpen(c) ==
  /\ Return(c)
  /\ UNCHANGED <<entryDev, device>>

AttachRaced(c) ==
  /\ Goto(c, "close")
  /\ Close(call[c].dev)
  /\ UNCHANGED entryDev

(* The check under the lock looks at the entry's device, not at the map. *)
AttachPublishes(c) ==
  /\ At(c, "Attach", "publish")
  /\ IF entryDev[call[c].id] # None THEN AttachRaced(c) ELSE Attached(c)
  /\ UNCHANGED <<tunnels, nextID, proxy, boot, history>>

TurnOnPublishes(c) ==
  /\ At(c, "TurnOn", "publish")
  /\ Attached(c)
  /\ tunnels' = tunnels \cup {call[c].id}
  /\ UNCHANGED <<nextID, proxy, boot, history>>

-----------------------------------------------------------------------------
(* wgWaitBootstrapReady *)

WaitBegins(c, i) ==
  /\ call[c] = Idle
  /\ i \in tunnels
  /\ call' = [call EXCEPT ![c] = Entering("Wait", "wait", i, None)]
  /\ UNCHANGED <<tunnels, nextID, entryDev, proxy, boot, device, history>>

(* The outcome is taken out of the channel ... *)
WaitTakes(c) ==
  /\ call[c].pc = "wait"
  /\ proxy[call[c].id].ch # "empty"
  /\ call' = [call EXCEPT ![c].pc = "replay", ![c].got = proxy[call[c].id].ch]
  /\ proxy' = [proxy EXCEPT ![call[c].id].ch = "empty"]
  /\ UNCHANGED <<tunnels, nextID, entryDev, boot, device, history>>

(* Mutant: it is not put back. *)
WaitKeeps(c) ==
  /\ call[c].pc = "replay"
  /\ Return(c)
  /\ UNCHANGED <<tunnels, nextID, entryDev, proxy, boot, device, history>>

(* ... and put back for the next caller. *)
WaitReplays(c) ==
  /\ call[c].pc = "replay"
  /\ proxy' = [proxy EXCEPT ![call[c].id].ch = IF @ = "empty" THEN call[c].got ELSE @]
  /\ Return(c)
  /\ UNCHANGED <<tunnels, nextID, entryDev, boot, device, history>>

(* The timeout passed, or the proxy was stopped. *)
WaitGivesUp(c) ==
  /\ call[c].pc = "wait"
  /\ Return(c)
  /\ UNCHANGED <<tunnels, nextID, entryDev, proxy, boot, device, history>>

-----------------------------------------------------------------------------
(* wgTurnOff *)

(* Mutant: the entry is looked up and left in the map. *)
TurnOffLooksUp(c, i) ==
  /\ call[c] = Idle
  /\ i \in tunnels
  /\ call' = [call EXCEPT ![c] = Entering("TurnOff", "stop", i, None)]
  /\ UNCHANGED <<tunnels, nextID, entryDev, proxy, boot, device, history>>

TurnOffBegins(c, i) ==
  /\ call[c] = Idle
  /\ i \in tunnels
  /\ tunnels' = tunnels \ {i}
  /\ call' = [call EXCEPT ![c] = Entering("TurnOff", "stop", i, None)]
  /\ overtaken' = IF \E b \in Callers : call[b].op = "Attach" /\ call[b].id = i
                  THEN overtaken \cup {i} ELSE overtaken
  /\ UNCHANGED <<nextID, entryDev, proxy, boot, device, abandoned>>

(* Mutant: the proxy is not stopped. *)
TurnOffForgets(c) ==
  /\ At(c, "TurnOff", "stop")
  /\ call' = [call EXCEPT ![c].pc = "drain", ![c].dev = entryDev[call[c].id]]
  /\ UNCHANGED <<tunnels, nextID, entryDev, proxy, boot, device, history>>

(* Mutant: the order of Build 56, the device first. *)
DeviceFirst(c) ==
  /\ At(c, "TurnOff", "stop")
  /\ LET d == entryDev[call[c].id] IN
     /\ call' = [call EXCEPT ![c].pc = IF d = None THEN "drain" ELSE "close", ![c].dev = d]
     /\ IF d = None
        THEN proxy' = [proxy EXCEPT ![call[c].id].done = TRUE] /\ UNCHANGED device
        ELSE Close(d) /\ UNCHANGED proxy
  /\ UNCHANGED <<tunnels, nextID, entryDev, boot, history>>

(* entry.device is read without the lock, then StopWithTimeout cancels ... *)
TurnOffStops(c) ==
  /\ At(c, "TurnOff", "stop")
  /\ call' = [call EXCEPT ![c].pc = "drain", ![c].dev = entryDev[call[c].id]]
  /\ proxy' = [proxy EXCEPT ![call[c].id].done = TRUE]
  /\ UNCHANGED <<tunnels, nextID, entryDev, boot, device, history>>

(* ... and waits for the connections or for two seconds; then the device. *)
TurnOffDrained(c) ==
  /\ At(c, "TurnOff", "drain")
  /\ IF call[c].dev = None THEN Return(c) /\ UNCHANGED device
     ELSE Goto(c, "close") /\ Close(call[c].dev)
  /\ UNCHANGED <<tunnels, nextID, entryDev, proxy, boot, history>>

-----------------------------------------------------------------------------
(* The exports that look an entry up and forward one call to its proxy     *)
(* (wgPause, wgResume, wgWakeHealthCheck, wgPathChanged, wgSolveCaptcha    *)
(* ...) or to its device (wgSetConfig, wgGetConfig).                       *)

UseBegins(c, i) ==
  /\ call[c] = Idle
  /\ i \in tunnels
  /\ call' = [call EXCEPT ![c] = Entering("Use", "use", i, entryDev[i])]
  /\ UNCHANGED <<tunnels, nextID, entryDev, proxy, boot, device, history>>

(* It may find the tunnel switched off by now. *)
UseEnds(c) ==
  /\ call[c].pc = "use"
  /\ Return(c)
  /\ UNCHANGED <<tunnels, nextID, entryDev, proxy, boot, device, history>>

-----------------------------------------------------------------------------
(* The device's receive routine and Close *)

(* ReceivePacket returns a packet and is called again, closed bind or not, *)
(* until the proxy is stopped.                                             *)
ReceiveEnds(d) ==
  /\ device[d].recv = "reading"
  /\ proxy[device[d].of].done
  /\ device' = [device EXCEPT ![d].recv = "ended"]
  /\ UNCHANGED <<tunnels, nextID, entryDev, proxy, boot, call, history>>

CloseEnds(d) ==
  /\ device[d].pc = "closing"
  /\ device[d].recv # "reading"
  /\ device' = [device EXCEPT ![d].pc = "closed"]
  /\ UNCHANGED <<tunnels, nextID, entryDev, proxy, boot, call, history>>

-----------------------------------------------------------------------------
CallStep(c) ==
  \/ NoTun(c) \/ IpcSetFails(c) \/ UpOpens(c) \/ UpStarted(c) \/ UpFails(c)
  \/ SetupClosed(c) \/ AttachPublishes(c) \/ TurnOnPublishes(c)
  \/ WaitTakes(c) \/ WaitReplays(c) \/ WaitGivesUp(c)
  \/ TurnOffStops(c) \/ TurnOffDrained(c) \/ UseEnds(c)
  \/ \E d \in Devices : NewDevice(c, d)

ProxyStep(i) ==
  Connects(i) \/ ConnUp(i) \/ ConnsEnd(i) \/ BootStarts(i) \/ BootReturns(i)

Next ==
  \/ \E c \in Callers :
       \/ CallStep(c)
       \/ StartVKBootstrap(c) \/ TurnOnBegins(c)
       \/ \E i \in Ids : AttachBegins(c, i) \/ WaitBegins(c, i) \/ TurnOffBegins(c, i)
                           \/ UseBegins(c, i)
  \/ \E i \in Ids : ProxyStep(i)
  \/ \E d \in Devices : ReceiveEnds(d) \/ CloseEnds(d)

Spec == Init /\ [][Next]_vars

(* Every call that can go on does (Start returns by its own timeouts), a   *)
(* cancelled goroutine ends, and so does the library's Close once it may.  *)
FairSpec ==
  /\ Spec
  /\ \A c \in Callers : WF_vars(CallStep(c))
  /\ \A i \in Ids : WF_vars(ConnsEnd(i)) /\ WF_vars(BootStarts(i)) /\ WF_vars(BootReturns(i))
  /\ \A d \in Devices : WF_vars(ReceiveEnds(d)) /\ WF_vars(CloseEnds(d))

-----------------------------------------------------------------------------
(* Properties *)

Open(d) == device[d].pc \in {"new", "up"}

(* The call that made the device, or the wgTurnOff that has or will read it. *)
InCall(d) ==
  \E c \in Callers :
    \/ call[c].dev = d /\ call[c].op \in {"Attach", "TurnOn", "TurnOff"}
    \/ At(c, "TurnOff", "stop") /\ entryDev[call[c].id] = d

(* Every open device can still be closed: a call in progress holds it, or   *)
(* its tunnel is in the map and wgTurnOff will find it in the entry.  Only  *)
(* a wgTurnOff that runs during wgAttachWireGuard leaves one behind: the    *)
(* check at the end of the attach does not look whether its entry is gone.  *)
OpenDeviceOwned ==
  \A d \in Devices :
    Open(d) => \/ InCall(d)
               \/ device[d].of \in tunnels /\ entryDev[device[d].of] = d
               \/ device[d].of \in overtaken

(* A proxy that was started is stopped, or its tunnel is in the map, or a   *)
(* call that will publish or stop it is under way: else nobody could ever   *)
(* stop it.  Only a wgTurnOnWithTURN that fails leaves one behind.          *)
RunningProxyOwned ==
  \A i \in Ids :
    proxy[i].started /\ ~proxy[i].done =>
      \/ i \in tunnels
      \/ \E c \in Callers : call[c].id = i /\ call[c].op \in {"TurnOn", "TurnOff"}
      \/ i \in abandoned

(* Two callers never tear down the same tunnel: of wgTurnOff in stopTunnel  *)
(* and the one in a failing startTunnel only one finds the entry.           *)
OneTeardown ==
  \A b, c \in Callers :
    call[b].op = "TurnOff" /\ call[c].op = "TurnOff" /\ call[b].id = call[c].id => b = c

(* The outcome of the bootstrap is never lost between callers of            *)
(* wgWaitBootstrapReady: it is in the channel, or in the hands of one of    *)
(* them that will put it back.                                              *)
OutcomeKept ==
  \A i \in Ids :
    proxy[i].outcome # "unknown" =>
      \/ proxy[i].ch = proxy[i].outcome
      \/ \E c \in Callers : /\ call[c].id = i
                            /\ call[c].pc = "replay"
                            /\ call[c].got = proxy[i].outcome

(* Every wgTurnOff returns, the device's Close included: its receive        *)
(* routine ends because the proxy was stopped first.                        *)
TurnOffReturns ==
  \A c \in Callers : call[c].op = "TurnOff" ~> call[c].op # "TurnOff"

(* A tunnel that was switched off comes to rest: its connections end, also  *)
(* those the bootstrap goroutine starts after wgTurnOff returned.           *)
SwitchedOffRests ==
  \A i \in Ids : proxy[i].done ~> [](boot[i] \in {"none", "ended"} /\ ~proxy[i].conns)

=============================================================================
