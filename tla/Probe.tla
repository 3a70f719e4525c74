------------------------------- MODULE Probe --------------------------------
(***************************************************************************)
(* The liveness probes of established sessions: the prober and the         *)
(* receiver of runDTLSSession and, copied, of runSRTPSession, under a      *)
(* clock, with a process that the system may freeze at any moment.         *)
(*                                                                         *)
(* One unit of time is probeInterval, which is also the read deadline, the *)
(* wait for an active probe's echo and its throttle.  Moments are kept as  *)
(* ages, capped where the code no longer tells them apart.  Tick is a unit *)
(* of time in which every goroutine and the network did what was due;      *)
(* Freeze is time that passes over a process that did not run.             *)
(***************************************************************************)
EXTENDS Integers

CONSTANTS
  Conns,            \* connIdx
  StaleThreshold,   \* probeStaleThreshold, in probe intervals (4)
  FreezeGap,        \* the gap that is taken for a freeze (90 s: 3)
  RecvStale,        \* silence after which the tunnel is stale (3 min: 6)
  Freezes,          \* lengths of the freezes
  MaxSeq,           \* bound: pings of one session
  MaxSessions       \* bound: sessions of one conn

ASSUME ProbeAssumption ==
  /\ FreezeGap \in Nat \ {0}
  /\ StaleThreshold \in Nat /\ FreezeGap <= StaleThreshold
  /\ RecvStale \in Nat
  /\ Freezes \subseteq Nat \ {0}
  /\ MaxSeq \in Nat
  /\ MaxSessions \in Nat

VARIABLES
  srtp,             \* whether the sessions are SRTP or DTLS sessions
  serverProbeable,  \* a pong was seen on some conn
  lastRecvTime,     \* age of the last packet on any conn
  up,               \* the session's connCtx is not cancelled
  sessions,         \* sessions each conn has had
  prober,           \* the prober: in its select, polling for an echo, or returned
  due,              \* a tick waits in the ticker's channel
  woken,            \* the wake channel it captured is closed
  tickAge,          \* age of lastTickAt
  pollAge,          \* time since the active probe was sent
  probedAge,        \* age of lastActiveProbeAt, 1 if older or never
  pongAge,          \* age of lastPongTimes
  readAge,          \* time since the read deadline was set
  seq,              \* the prober's seq
  lastPongSeq,      \* lastPongSeq: it outlives the session
  echoes,           \* pings of this session whose pong is on its way
  \* History: no action's guard reads them.
  ownSeq,           \* the last pong of this session
  fooled,           \* a poll was ended by the pong of an earlier session
  unanswered,       \* age of the first periodic ping since the pong clock was reset
  calm,             \* the server echoes and no freeze since the pong clock was reset
  wronged           \* the zombie check ended a session that had no such ping for long

shared == <<srtp, serverProbeable, lastRecvTime>>
timers == <<due, woken, tickAge, pollAge, probedAge>>
pongs == <<pongAge, seq, lastPongSeq, echoes>>
history == <<ownSeq, fooled, unanswered, calm, wronged>>

vars == <<shared, up, sessions, prober, timers, readAge, pongs, history>>

(* No such ping. *)
Never == -1

Aged(a, n, cap) == IF a + n < cap THEN a + n ELSE cap

-----------------------------------------------------------------------------
(* Sessions *)

(* A session is established.  Its pong clock is reset; lastPongSeq is not. *)
Establish(c) ==
  /\ ~up[c] /\ sessions[c] < MaxSessions
  /\ up' = [up EXCEPT ![c] = TRUE]
  /\ sessions' = [sessions EXCEPT ![c] = @ + 1]
  /\ prober' = [prober EXCEPT ![c] = "select"]
  /\ due' = [due EXCEPT ![c] = FALSE]
  /\ woken' = [woken EXCEPT ![c] = FALSE]
  /\ tickAge' = [tickAge EXCEPT ![c] = 0]
  /\ pollAge' = [pollAge EXCEPT ![c] = 0]
  /\ pongAge' = [pongAge EXCEPT ![c] = 0]
  /\ readAge' = [readAge EXCEPT ![c] = 0]
  /\ seq' = [seq EXCEPT ![c] = 0]
  /\ echoes' = [echoes EXCEPT ![c] = {}]
  /\ ownSeq' = [ownSeq EXCEPT ![c] = 0]
  /\ fooled' = [fooled EXCEPT ![c] = FALSE]
  /\ unanswered' = [unanswered EXCEPT ![c] = Never]
  /\ calm' = [calm EXCEPT ![c] = serverProbeable]
  /\ UNCHANGED <<shared, probedAge, lastPongSeq, wronged>>

(* connCancel by something else: Pause, a dead relay, a failed write. *)
SessionEnds(c) ==
  /\ up[c]
  /\ up' = [up EXCEPT ![c] = FALSE]
  /\ UNCHANGED <<shared, sessions, prober, timers, readAge, pongs, history>>

-----------------------------------------------------------------------------
(* The prober *)

InSelect(c) == up[c] /\ prober[c] = "select"

(* Mutant: no tick is taken for the end of a freeze. *)
FreezeUnseen(c) == FALSE

(* The gap between two ticks tells a freeze. *)
FrozenTick(c) == tickAge[c] > FreezeGap

(* A tick after a gap: the process was frozen.  The pong clock starts anew    *)
(* and this tick neither pings nor judges.                                    *)
TickAfterFreeze(c) ==
  /\ InSelect(c) /\ due[c]
  /\ FrozenTick(c)
  /\ due' = [due EXCEPT ![c] = FALSE]
  /\ tickAge' = [tickAge EXCEPT ![c] = 0]
  /\ pongAge' = [pongAge EXCEPT ![c] = 0]
  /\ unanswered' = [unanswered EXCEPT ![c] = Never]
  /\ calm' = [calm EXCEPT ![c] = serverProbeable]
  /\ UNCHANGED <<shared, up, sessions, prober, woken, pollAge, probedAge, readAge, seq,
                 lastPongSeq, echoes, ownSeq, fooled, wronged>>

(* Ping number seq + 1 goes out; the server will echo it unless it is lost. *)
Send(c) ==
  /\ seq[c] < MaxSeq
  /\ seq' = [seq EXCEPT ![c] = @ + 1]
  /\ echoes' = [echoes EXCEPT ![c] = @ \cup {seq[c] + 1}]

(* Mutant: a conn is not judged while any conn receives. *)
ZombieAlone(c) == serverProbeable /\ lastRecvTime > 0 /\ pongAge[c] > StaleThreshold

(* The zombie check. *)
Zombie(c) == serverProbeable /\ pongAge[c] > StaleThreshold

(* A normal tick: ping, then judge. *)
TickPings(c) ==
  /\ InSelect(c) /\ due[c]
  /\ ~FrozenTick(c)
  /\ due' = [due EXCEPT ![c] = FALSE]
  /\ tickAge' = [tickAge EXCEPT ![c] = 0]
  /\ Send(c)
  /\ up' = [up EXCEPT ![c] = ~Zombie(c)]
  /\ wronged' = [wronged EXCEPT ![c] =
                   \/ @
                   \/ Zombie(c) /\ ~fooled[c] /\ unanswered[c] <= StaleThreshold - FreezeGap]
  /\ unanswered' = [unanswered EXCEPT ![c] = IF @ = Never THEN 0 ELSE @]
  /\ UNCHANGED <<shared, sessions, prober, woken, pollAge, probedAge, readAge, pongAge,
                 lastPongSeq, ownSeq, fooled, calm>>

(* The ping cannot be written: the prober returns and leaves the session be. *)
PingFails(c) ==
  /\ InSelect(c) /\ (due[c] \/ woken[c])
  /\ prober' = [prober EXCEPT ![c] = "gone"]
  /\ UNCHANGED <<shared, up, sessions, timers, readAge, pongs, history>>

(* A wake-up not followed by a probe: no server that echoes, one probe in the  *)
(* last 30 s already, or traffic in the last 5 s.                              *)
WakeIgnored(c) ==
  /\ InSelect(c) /\ woken[c]
  /\ woken' = [woken EXCEPT ![c] = FALSE]
  /\ UNCHANGED <<shared, up, sessions, prober, due, tickAge, pollAge, probedAge, readAge,
                 pongs, history>>

(* The active probe: an extra ping, whose echo is polled for. *)
WakeProbes(c) ==
  /\ InSelect(c) /\ woken[c]
  /\ serverProbeable /\ probedAge[c] > 0
  /\ woken' = [woken EXCEPT ![c] = FALSE]
  /\ prober' = [prober EXCEPT ![c] = "poll"]
  /\ pollAge' = [pollAge EXCEPT ![c] = 0]
  /\ probedAge' = [probedAge EXCEPT ![c] = 0]
  /\ Send(c)
  /\ UNCHANGED <<shared, up, sessions, due, tickAge, readAge, pongAge, lastPongSeq, history>>

(* lastPongSeq has caught up with the ping, before the deadline. *)
PollEchoed(c) ==
  /\ up[c] /\ prober[c] = "poll"
  /\ pollAge[c] = 0
  /\ lastPongSeq[c] >= seq[c]
  /\ prober' = [prober EXCEPT ![c] = "select"]
  /\ tickAge' = [tickAge EXCEPT ![c] = 0]
  /\ fooled' = [fooled EXCEPT ![c] = @ \/ ownSeq[c] < seq[c]]
  /\ UNCHANGED <<shared, up, sessions, due, woken, pollAge, probedAge, readAge, pongs,
                 ownSeq, unanswered, calm, wronged>>

(* The deadline passed, in the polling loop or over a frozen process. *)
PollKills(c) ==
  /\ up[c] /\ prober[c] = "poll"
  /\ pollAge[c] > 0
  /\ up' = [up EXCEPT ![c] = FALSE]
  /\ UNCHANGED <<shared, sessions, prober, timers, readAge, pongs, history>>

-----------------------------------------------------------------------------
(* The receiver *)

(* Pong k: it stamps the clocks whatever its order among the pongs. *)
PongArrives(c, k) ==
  /\ up[c] /\ k \in echoes[c]
  /\ echoes' = [echoes EXCEPT ![c] = @ \ {k}]
  /\ serverProbeable' = TRUE
  /\ lastRecvTime' = 0
  /\ pongAge' = [pongAge EXCEPT ![c] = 0]
  /\ lastPongSeq' = [lastPongSeq EXCEPT ![c] = k]
  /\ readAge' = [readAge EXCEPT ![c] = 0]
  /\ ownSeq' = [ownSeq EXCEPT ![c] = k]
  /\ unanswered' = [unanswered EXCEPT ![c] = Never]
  /\ calm' = [calm EXCEPT ![c] = TRUE]
  /\ UNCHANGED <<srtp, up, sessions, prober, timers, seq, fooled, wronged>>

(* A packet for WireGuard. *)
DataArrives(c) ==
  /\ up[c]
  /\ lastRecvTime' = 0
  /\ readAge' = [readAge EXCEPT ![c] = 0]
  /\ UNCHANGED <<srtp, serverProbeable, up, sessions, prober, timers, pongs, history>>

(* The read deadline passed: after a freeze the shared clock starts anew, on   *)
(* a tunnel that is alive somewhere the read is repeated, else the session ends. *)
ReadTimesOut(c) ==
  /\ up[c] /\ readAge[c] > 0
  /\ readAge' = [readAge EXCEPT ![c] = 0]
  /\ lastRecvTime' = IF readAge[c] > FreezeGap THEN 0 ELSE lastRecvTime
  /\ up' = [up EXCEPT ![c] = readAge[c] > FreezeGap \/ lastRecvTime < RecvStale]
  /\ UNCHANGED <<srtp, serverProbeable, sessions, prober, timers, pongs, history>>

-----------------------------------------------------------------------------
(* The world *)

(* A ping or its pong is lost, for once or because the path is dead. *)
EchoLost(c, k) ==
  /\ k \in echoes[c]
  /\ echoes' = [echoes EXCEPT ![c] = @ \ {k}]
  /\ UNCHANGED <<shared, up, sessions, prober, timers, readAge, pongAge, seq, lastPongSeq,
                 history>>

(* WakeHealthCheck broadcasts: a prober that is polling does not hear it. *)
broadcastWake ==
  /\ woken' = [c \in Conns |-> woken[c] \/ InSelect(c)]
  /\ UNCHANGED <<shared, up, sessions, prober, due, tickAge, pollAge, probedAge, readAge,
                 pongs, history>>

(* n units pass over every clock. *)
Pass(n) ==
  /\ lastRecvTime' = Aged(lastRecvTime, n, RecvStale)
  /\ due' = [c \in Conns |-> up[c]]
  /\ tickAge' = [c \in Conns |-> Aged(tickAge[c], n, FreezeGap + 1)]
  /\ pollAge' = [c \in Conns |-> Aged(pollAge[c], n, 1)]
  /\ pongAge' = [c \in Conns |-> Aged(pongAge[c], n, StaleThreshold + 3)]
  /\ readAge' = [c \in Conns |-> Aged(readAge[c], n, FreezeGap + 1)]
  /\ probedAge' = [c \in Conns |-> 1]
  /\ unanswered' = [c \in Conns |->
                      IF unanswered[c] = Never THEN Never ELSE Aged(unanswered[c], n, StaleThreshold - FreezeGap + 1)]
  /\ UNCHANGED <<srtp, serverProbeable, up, sessions, prober, woken, seq, lastPongSeq, echoes,
                 ownSeq, fooled, wronged>>

(* Nothing is waiting to be done on conn c. *)
Settled(c) ==
  up[c] => /\ echoes[c] = {}
           /\ readAge[c] = 0
           /\ prober[c] = "select" => ~due[c] /\ ~woken[c]
           /\ prober[c] = "poll" => pollAge[c] = 0

Tick ==
  /\ \A c \in Conns : Settled(c)
  /\ Pass(1)
  /\ UNCHANGED calm

Freeze ==
  /\ \E n \in Freezes : Pass(n)
  /\ calm' = [c \in Conns |-> FALSE]

-----------------------------------------------------------------------------
Init ==
  /\ srtp \in BOOLEAN
  /\ serverProbeable = FALSE
  /\ lastRecvTime = 0
  /\ up = [c \in Conns |-> FALSE]
  /\ sessions = [c \in Conns |-> 0]
  /\ prober = [c \in Conns |-> "select"]
  /\ due = [c \in Conns |-> FALSE]
  /\ woken = [c \in Conns |-> FALSE]
  /\ tickAge = [c \in Conns |-> 0]
  /\ pollAge = [c \in Conns |-> 0]
  /\ probedAge = [c \in Conns |-> 1]
  /\ pongAge = [c \in Conns |-> 0]
  /\ readAge = [c \in Conns |-> 0]
  /\ seq = [c \in Conns |-> 0]
  /\ lastPongSeq = [c \in Conns |-> 0]
  /\ echoes = [c \in Conns |-> {}]
  /\ ownSeq = [c \in Conns |-> 0]
  /\ fooled = [c \in Conns |-> FALSE]
  /\ unanswered = [c \in Conns |-> Never]
  /\ calm = [c \in Conns |-> FALSE]
  /\ wronged = [c \in Conns |-> FALSE]

Prober(c) ==
  \/ TickAfterFreeze(c) \/ TickPings(c) \/ PingFails(c)
  \/ WakeIgnored(c) \/ WakeProbes(c) \/ PollEchoed(c) \/ PollKills(c)

Receiver(c) ==
  \/ \E k \in echoes[c] : PongArrives(c, k)
  \/ DataArrives(c)
  \/ ReadTimesOut(c)

(* The SRTP session's prober and receiver take the same steps. *)
SrtpProber(c) == srtp /\ Prober(c)

SrtpReceiver(c) == srtp /\ Receiver(c)

DtlsProber(c) == ~srtp /\ Prober(c)

DtlsReceiver(c) == ~srtp /\ Receiver(c)

Next ==
  \/ \E c \in Conns :
       \/ Establish(c) \/ SessionEnds(c)
       \/ DtlsProber(c) \/ SrtpProber(c)
       \/ DtlsReceiver(c) \/ SrtpReceiver(c)
       \/ \E k \in echoes[c] : EchoLost(c, k)
  \/ broadcastWake
  \/ Tick
  \/ Freeze

Spec == Init /\ [][Next]_vars

-----------------------------------------------------------------------------
(* Properties *)

TypeOK ==
  /\ srtp \in BOOLEAN
  /\ serverProbeable \in BOOLEAN
  /\ lastRecvTime \in 0 .. RecvStale
  /\ up \in [Conns -> BOOLEAN]
  /\ sessions \in [Conns -> 0 .. MaxSessions]
  /\ prober \in [Conns -> {"select", "poll", "gone"}]
  /\ due \in [Conns -> BOOLEAN]
  /\ woken \in [Conns -> BOOLEAN]
  /\ tickAge \in [Conns -> 0 .. FreezeGap + 1]
  /\ pollAge \in [Conns -> 0 .. 1]
  /\ probedAge \in [Conns -> 0 .. 1]
  /\ pongAge \in [Conns -> 0 .. StaleThreshold + 3]
  /\ readAge \in [Conns -> 0 .. FreezeGap + 1]
  /\ seq \in [Conns -> 0 .. MaxSeq]
  /\ lastPongSeq \in [Conns -> 0 .. MaxSeq]
  /\ echoes \in [Conns -> SUBSET (1 .. MaxSeq)]
  /\ ownSeq \in [Conns -> 0 .. MaxSeq]
  /\ fooled \in [Conns -> BOOLEAN]
  /\ unanswered \in [Conns -> Never .. StaleThreshold - FreezeGap + 1]
  /\ calm \in [Conns -> BOOLEAN]
  /\ wronged \in [Conns -> BOOLEAN]

(* Property: the zombie check ends a session only if a periodic ping sent     *)
(* since the pong clock was reset has gone without a pong for longer than     *)
(* probeStaleThreshold less the gap of a freeze; no freeze and no wake-up     *)
(* makes it end a session whose pings were answered.  Sessions whose prober   *)
(* took an earlier session's pong for its own are excepted.                   *)
ZombieCheckFair == \A c \in Conns : ~wronged[c]

(* Property: while the process is not frozen, a session whose server echoes   *)
(* and whose prober runs goes without a pong for at most two probe intervals  *)
(* more than probeStaleThreshold: one to the next tick, one if an active      *)
(* probe is waiting for its echo when that tick comes.                        *)
ZombieFound ==
  \A c \in Conns :
    up[c] /\ calm[c] /\ prober[c] # "gone" => pongAge[c] <= StaleThreshold + 2

=============================================================================
