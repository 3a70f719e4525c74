---------------------------- MODULE Probe_proofs ----------------------------
(***************************************************************************)
(* Theorems of Probe, for every number of conns, every choice of the       *)
(* thresholds with FreezeGap <= StaleThreshold and freezes of any length.  *)
(*                                                                         *)
(* The zombie check compares two clocks that are reset by different steps: *)
(* pongAge by pongs, tickAge by ticks and by the end of a poll.            *)
(* ClockInv says how far apart they can be; the end of a poll keeps it     *)
(* because a pong of this session's own last ping has just been seen       *)
(* (PollInv).  DueInv counts the time between two judgements of a session. *)
(***************************************************************************)
EXTENDS Probe, TLAPS

(* The pings a session's pongs answer have been sent. *)
SeqInv == \A c \in Conns : ownSeq[c] <= seq[c] /\ \A k \in echoes[c] : k <= seq[c]

(* A poll whose own echo came in time has just reset the pong clock. *)
PollInv ==
  \A c \in Conns :
    prober[c] = "poll" /\ pollAge[c] = 0 /\ seq[c] <= ownSeq[c] => pongAge[c] = 0

(* Before the first periodic ping the last tick is no younger than the pong    *)
(* clock, unless it shows a freeze; after it, the ping is younger by at most   *)
(* a gap that is not taken for a freeze.                                       *)
ClockInv ==
  \A c \in Conns :
    ~fooled[c] =>
      \/ unanswered[c] = Never /\ (pongAge[c] <= tickAge[c] \/ tickAge[c] > FreezeGap)
      \/ /\ unanswered[c] # Never
         /\ \/ pongAge[c] <= unanswered[c] + FreezeGap
            \/ unanswered[c] > StaleThreshold - FreezeGap

NotWronged == \A c \in Conns : ~wronged[c]

FairInv == SeqInv /\ PollInv /\ ClockInv /\ NotWronged

(* The server echoes on a calm session. *)
CalmInv == \A c \in Conns : calm[c] => serverProbeable

(* A session without a tick waiting has been judged since its last unit of     *)
(* time; a prober polls through at most one more.                              *)
DueInv ==
  \A c \in Conns :
    up[c] /\ calm[c] /\ prober[c] # "gone" =>
      /\ ~due[c] => pongAge[c] <= StaleThreshold
      /\ prober[c] = "select" \/ pollAge[c] = 0 => pongAge[c] <= StaleThreshold + 1
      /\ pongAge[c] <= StaleThreshold + 2

-----------------------------------------------------------------------------
(* What conn c's goroutines, or the network, do to it. *)
ConnStep(c) ==
  \/ Establish(c) \/ SessionEnds(c)
  \/ Prober(c) \/ Receiver(c)
  \/ \E k \in echoes[c] : EchoLost(c, k)

(* SRTP and DTLS sessions take the same steps. *)
LEMMA Steps ==
  [Next]_vars => \/ \E c \in Conns : ConnStep(c)
                 \/ broadcastWake \/ Tick \/ Freeze
                 \/ UNCHANGED vars
PROOF
  BY DEF Next, ConnStep, DtlsProber, SrtpProber, DtlsReceiver, SrtpReceiver

(* A capped age stays within its cap, and grows by n until it meets it. *)
LEMMA AgedAge ==
  ASSUME NEW cap \in Nat, NEW a \in 0 .. cap, NEW n \in Nat
  PROVE  /\ Aged(a, n, cap) \in 0 .. cap
         /\ Aged(a, n, cap) = a + n \/ Aged(a, n, cap) = cap
         /\ Aged(a, n, cap) <= a + n
PROOF
  BY DEF Aged

-----------------------------------------------------------------------------
(* The types *)

LEMMA TypeInit == Init => TypeOK
PROOF
  <1> SUFFICES ASSUME Init PROVE TypeOK
    OBVIOUS
  <1>1. /\ 0 \in 0 .. RecvStale /\ 0 \in 0 .. MaxSessions /\ 0 \in 0 .. MaxSeq
        /\ 0 \in 0 .. FreezeGap + 1 /\ 0 \in 0 .. StaleThreshold + 3
        /\ 0 \in 0 .. 1 /\ 1 \in 0 .. 1
        /\ Never \in Never .. StaleThreshold - FreezeGap + 1
    BY ProbeAssumption DEF ProbeAssumption, Never
  <1>2. QED
    BY <1>1 DEF Init, TypeOK

(* n units keep every clock within its cap. *)
LEMMA PassType ==
  ASSUME TypeOK, NEW n \in Nat \ {0}, Pass(n), calm' \in [Conns -> BOOLEAN]
  PROVE  TypeOK'
PROOF
  <1> USE ProbeAssumption DEF ProbeAssumption, Never
  <1>1. lastRecvTime' \in 0 .. RecvStale
    BY AgedAge DEF TypeOK, Pass
  <1>2. due' \in [Conns -> BOOLEAN] /\ probedAge' \in [Conns -> 0 .. 1]
    BY DEF TypeOK, Pass
  <1>3. tickAge' \in [Conns -> 0 .. FreezeGap + 1] /\ readAge' \in [Conns -> 0 .. FreezeGap + 1]
    BY DEF TypeOK, Pass, Aged
  <1>4. pollAge' \in [Conns -> 0 .. 1] /\ pongAge' \in [Conns -> 0 .. StaleThreshold + 3]
    <2>1. ASSUME NEW d \in Conns PROVE Aged(pollAge[d], n, 1) \in 0 .. 1
      BY DEF TypeOK, Aged
    <2>2. ASSUME NEW d \in Conns
          PROVE  Aged(pongAge[d], n, StaleThreshold + 3) \in 0 .. StaleThreshold + 3
      BY DEF TypeOK, Aged
    <2>3. QED
      BY <2>1, <2>2 DEF Pass
  <1>5. unanswered' \in [Conns -> Never .. StaleThreshold - FreezeGap + 1]
    BY DEF TypeOK, Pass, Aged
  <1>6. QED
    BY <1>1, <1>2, <1>3, <1>4, <1>5 DEF TypeOK, Pass

LEMMA TypeStep == TypeOK /\ [Next]_vars => TypeOK'
PROOF
  <1> SUFFICES ASSUME TypeOK, [Next]_vars PROVE TypeOK'
    OBVIOUS
  <1> USE ProbeAssumption DEF ProbeAssumption, Never
  <1>1. ASSUME UNCHANGED vars PROVE TypeOK'
    BY <1>1 DEF TypeOK, vars, shared, timers, pongs, history
  <1>2. ASSUME NEW c \in Conns, ConnStep(c) PROVE TypeOK'
    <2>1. CASE Establish(c)
      BY <2>1 DEF TypeOK, Establish, shared
    <2>2. CASE SessionEnds(c)
      BY <2>2 DEF TypeOK, SessionEnds, shared, timers, pongs, history
    <2>3. CASE TickAfterFreeze(c)
      BY <2>3 DEF TypeOK, TickAfterFreeze, shared, InSelect
    <2>4. CASE TickPings(c)
      BY <2>4 DEF TypeOK, TickPings, shared, InSelect, Send, Zombie
    <2>5. CASE PingFails(c)
      BY <2>5 DEF TypeOK, PingFails, shared, timers, pongs, history
    <2>6. CASE WakeIgnored(c)
      BY <2>6 DEF TypeOK, WakeIgnored, shared, pongs, history
    <2>7. CASE WakeProbes(c)
      BY <2>7 DEF TypeOK, WakeProbes, shared, history, InSelect, Send
    <2>8. CASE PollEchoed(c)
      BY <2>8 DEF TypeOK, PollEchoed, shared, pongs
    <2>9. CASE PollKills(c)
      BY <2>9 DEF TypeOK, PollKills, shared, timers, pongs, history
    <2>10. CASE \E k \in echoes[c] : PongArrives(c, k)
      BY <2>10 DEF TypeOK, PongArrives, timers
    <2>11. CASE DataArrives(c)
      BY <2>11 DEF TypeOK, DataArrives, timers, pongs, history
    <2>12. CASE ReadTimesOut(c)
      BY <2>12 DEF TypeOK, ReadTimesOut, timers, pongs, history
    <2>13. CASE \E k \in echoes[c] : EchoLost(c, k)
      BY <2>13 DEF TypeOK, EchoLost, shared, timers, history
    <2>14. QED
      BY <1>2, <2>1, <2>2, <2>3, <2>4, <2>5, <2>6, <2>7, <2>8, <2>9, <2>10, <2>11, <2>12,
         <2>13 DEF ConnStep, Prober, Receiver
  <1>3. CASE broadcastWake
    BY <1>3 DEF TypeOK, broadcastWake, shared, pongs, history
  <1>4. CASE Tick
    BY <1>4, PassType DEF TypeOK, Tick
  <1>5. CASE Freeze
    BY <1>5, PassType DEF TypeOK, Freeze
  <1>6. CASE UNCHANGED vars
    BY <1>1, <1>6 DEF vars, shared, timers, pongs, history
  <1>7. QED
    BY <1>1, <1>2, <1>3, <1>4, <1>5, <1>6, Steps

(* Theorem: every variable keeps its type, so no clock leaves its cap. *)
THEOREM TypeCorrect == Spec => []TypeOK
PROOF
  <1>1. TypeOK /\ [Next]_vars => TypeOK'
    BY TypeStep
  <1>2. QED
    BY TypeInit, <1>1, PTL DEF Spec

-----------------------------------------------------------------------------
(* The zombie check is fair *)

(* Only pings that were sent are echoed. *)
LEMMA SeqStep == TypeOK /\ SeqInv /\ [Next]_vars => SeqInv'
PROOF
  <1> SUFFICES ASSUME TypeOK, SeqInv, [Next]_vars PROVE SeqInv'
    OBVIOUS
  <1> USE ProbeAssumption DEF ProbeAssumption, Never
  <1>1. ASSUME UNCHANGED <<ownSeq, seq, echoes>> PROVE SeqInv'
    BY <1>1 DEF SeqInv
  <1>2. ASSUME NEW c \in Conns, ConnStep(c) PROVE SeqInv'
    <2>1. CASE Establish(c)
      BY <2>1 DEF TypeOK, SeqInv, Establish
    <2>2. CASE TickPings(c)
      BY <2>2 DEF TypeOK, SeqInv, TickPings, Send
    <2>3. CASE WakeProbes(c)
      BY <2>3 DEF TypeOK, SeqInv, WakeProbes, history, Send
    <2>4. CASE \E k \in echoes[c] : PongArrives(c, k)
      BY <2>4 DEF TypeOK, SeqInv, PongArrives
    <2>5. CASE \E k \in echoes[c] : EchoLost(c, k)
      BY <2>5 DEF TypeOK, SeqInv, EchoLost, history
    <2>6. QED
      BY <1>1, <1>2, <2>1, <2>2, <2>3, <2>4, <2>5 DEF ConnStep, Prober, Receiver,
             SessionEnds, TickAfterFreeze, PingFails, WakeIgnored, PollEchoed, PollKills,
             DataArrives, ReadTimesOut, pongs, history
  <1>3. CASE broadcastWake
    BY <1>1, <1>3 DEF broadcastWake, pongs, history
  <1>4. CASE Tick
    BY <1>1, <1>4 DEF Tick, Pass
  <1>5. CASE Freeze
    BY <1>1, <1>5 DEF Freeze, Pass
  <1>6. CASE UNCHANGED vars
    BY <1>1, <1>6 DEF vars, pongs, history
  <1>7. QED
    BY <1>1, <1>2, <1>3, <1>4, <1>5, <1>6, Steps

(* The new ping of an active probe has no pong yet. *)
LEMMA PollStep == TypeOK /\ SeqInv /\ PollInv /\ [Next]_vars => PollInv'
PROOF
  <1> SUFFICES ASSUME TypeOK, SeqInv, PollInv, [Next]_vars PROVE PollInv'
    OBVIOUS
  <1> USE ProbeAssumption DEF ProbeAssumption, Never
  <1>1. ASSUME UNCHANGED <<prober, pollAge, seq, ownSeq, pongAge>> PROVE PollInv'
    BY <1>1 DEF PollInv
  <1>2. ASSUME NEW c \in Conns, ConnStep(c) PROVE PollInv'
    <2>1. CASE Establish(c)
      BY <2>1 DEF TypeOK, SeqInv, PollInv, Establish
    <2>2. CASE TickAfterFreeze(c)
      BY <2>2 DEF TypeOK, SeqInv, PollInv, TickAfterFreeze, InSelect
    <2>3. CASE TickPings(c)
      BY <2>3 DEF TypeOK, SeqInv, PollInv, TickPings, InSelect, Send
    <2>4. CASE PingFails(c)
      BY <2>4 DEF TypeOK, SeqInv, PollInv, PingFails, timers, pongs, history
    <2>5. CASE WakeProbes(c)
      BY <2>5 DEF TypeOK, SeqInv, PollInv, WakeProbes, history, Send
    <2>6. CASE PollEchoed(c)
      BY <2>6 DEF TypeOK, SeqInv, PollInv, PollEchoed, pongs
    <2>7. CASE \E k \in echoes[c] : PongArrives(c, k)
      BY <2>7 DEF TypeOK, SeqInv, PollInv, PongArrives, timers
    <2>8. QED
      BY <1>1, <1>2, <2>1, <2>2, <2>3, <2>4, <2>5, <2>6, <2>7 DEF ConnStep, Prober,
             Receiver, SessionEnds, WakeIgnored, PollKills, DataArrives, ReadTimesOut,
             EchoLost, timers, pongs, history
  <1>3. CASE broadcastWake
    BY <1>1, <1>3 DEF broadcastWake, pongs, history
  <1>4. CASE Tick
    BY <1>4 DEF TypeOK, PollInv, Tick, Pass, Aged
  <1>5. CASE Freeze
    BY <1>5 DEF TypeOK, PollInv, Freeze, Pass, Aged
  <1>6. CASE UNCHANGED vars
    BY <1>1, <1>6 DEF vars, timers, pongs, history
  <1>7. QED
    BY <1>1, <1>2, <1>3, <1>4, <1>5, <1>6, Steps

(* n units age both clocks alike, until one meets its cap. *)
LEMMA ClockPass == ASSUME TypeOK, ClockInv, NEW n \in Nat \ {0}, Pass(n) PROVE ClockInv'
PROOF
  <1> USE ProbeAssumption DEF ProbeAssumption, Never
  <1>1. ASSUME NEW d \in Conns, ~fooled'[d], unanswered[d] = Never
        PROVE  unanswered'[d] = Never /\ (pongAge'[d] <= tickAge'[d] \/ tickAge'[d] > FreezeGap)
    <2>1. pongAge[d] <= tickAge[d] \/ tickAge[d] > FreezeGap
      BY <1>1 DEF ClockInv, Pass
    <2>2. tickAge'[d] = tickAge[d] + n \/ tickAge'[d] > FreezeGap
      BY DEF TypeOK, Pass, Aged
    <2>3. pongAge'[d] <= pongAge[d] + n
      BY DEF TypeOK, Pass, Aged
    <2>4. /\ tickAge[d] \in 0 .. FreezeGap + 1 /\ tickAge'[d] \in Int
          /\ pongAge[d] \in Int /\ pongAge'[d] \in Int
      BY DEF TypeOK, Pass, Aged
    <2>5. tickAge[d] > FreezeGap => tickAge'[d] > FreezeGap
      BY DEF TypeOK, Pass, Aged
    <2>6. pongAge'[d] <= tickAge'[d] \/ tickAge'[d] > FreezeGap
      BY <2>1, <2>2, <2>3, <2>4, <2>5
    <2>7. unanswered'[d] = Never
      BY <1>1 DEF Pass
    <2>8. QED
      BY <2>6, <2>7
  <1>2. ASSUME NEW d \in Conns, ~fooled'[d], unanswered[d] # Never
        PROVE  /\ unanswered'[d] # Never
               /\ \/ pongAge'[d] <= unanswered'[d] + FreezeGap
                  \/ unanswered'[d] > StaleThreshold - FreezeGap
    <2>1. \/ pongAge[d] <= unanswered[d] + FreezeGap
          \/ unanswered[d] > StaleThreshold - FreezeGap
      BY <1>2 DEF ClockInv, Pass
    <2>2. /\ unanswered[d] \in 0 .. StaleThreshold - FreezeGap + 1
          /\ unanswered'[d] = Aged(unanswered[d], n, StaleThreshold - FreezeGap + 1)
      BY <1>2 DEF TypeOK, Pass
    <2>3. /\ unanswered'[d] \in Nat
          /\ unanswered'[d] = unanswered[d] + n \/ unanswered'[d] > StaleThreshold - FreezeGap
          /\ unanswered[d] > StaleThreshold - FreezeGap
               => unanswered'[d] > StaleThreshold - FreezeGap
      BY <2>2 DEF Aged
    <2>4. pongAge[d] \in Int /\ pongAge'[d] \in Int /\ pongAge'[d] <= pongAge[d] + n
      BY DEF TypeOK, Pass, Aged
    <2>5. QED
      BY <2>1, <2>2, <2>3, <2>4
  <1>3. QED
    BY <1>1, <1>2 DEF ClockInv

(* Every reset of a clock keeps the distance of the two. *)
LEMMA ClockStep == TypeOK /\ PollInv /\ ClockInv /\ [Next]_vars => ClockInv'
PROOF
  <1> SUFFICES ASSUME TypeOK, PollInv, ClockInv, [Next]_vars PROVE ClockInv'
    OBVIOUS
  <1> USE ProbeAssumption DEF ProbeAssumption, Never
  <1>1. ASSUME UNCHANGED <<fooled, unanswered, pongAge, tickAge>> PROVE ClockInv'
    BY <1>1 DEF ClockInv
  <1>2. ASSUME NEW c \in Conns, ConnStep(c) PROVE ClockInv'
    <2>1. CASE Establish(c)
      BY <2>1 DEF TypeOK, PollInv, ClockInv, Establish
    <2>2. CASE TickAfterFreeze(c)
      BY <2>2 DEF TypeOK, PollInv, ClockInv, TickAfterFreeze
    <2>3. CASE TickPings(c)
      BY <2>3 DEF TypeOK, PollInv, ClockInv, TickPings, FrozenTick
    <2>4. CASE PollEchoed(c)
      BY <2>4 DEF TypeOK, PollInv, ClockInv, PollEchoed, pongs
    <2>5. CASE \E k \in echoes[c] : PongArrives(c, k)
      BY <2>5 DEF TypeOK, PollInv, ClockInv, PongArrives, timers
    <2>6. QED
      BY <1>1, <1>2, <2>1, <2>2, <2>3, <2>4, <2>5 DEF ConnStep, Prober, Receiver,
             SessionEnds, PingFails, WakeIgnored, WakeProbes, PollKills, DataArrives,
             ReadTimesOut, EchoLost, timers, pongs, history
  <1>3. CASE broadcastWake
    BY <1>1, <1>3 DEF broadcastWake, pongs, history
  <1>4. CASE Tick
    BY <1>4, ClockPass DEF Tick
  <1>5. CASE Freeze
    BY <1>5, ClockPass DEF Freeze
  <1>6. CASE UNCHANGED vars
    BY <1>1, <1>6 DEF vars, timers, pongs, history
  <1>7. QED
    BY <1>1, <1>2, <1>3, <1>4, <1>5, <1>6, Steps

(* So no judgement wrongs a session. *)
LEMMA JudgeStep == TypeOK /\ ClockInv /\ NotWronged /\ [Next]_vars => NotWronged'
PROOF
  <1> SUFFICES ASSUME TypeOK, ClockInv, NotWronged, [Next]_vars PROVE NotWronged'
    OBVIOUS
  <1> USE ProbeAssumption DEF ProbeAssumption, Never
  <1>1. ASSUME UNCHANGED <<wronged>> PROVE NotWronged'
    BY <1>1 DEF NotWronged
  <1>2. ASSUME NEW c \in Conns, ConnStep(c) PROVE NotWronged'
    <2>1. CASE TickPings(c)
      <3>1. tickAge[c] <= FreezeGap
        BY <2>1 DEF TypeOK, TickPings, FrozenTick
      <3>2. Zombie(c) /\ ~fooled[c] => unanswered[c] > StaleThreshold - FreezeGap
        <4>1. /\ tickAge[c] \in Int /\ pongAge[c] \in Int
              /\ unanswered[c] = Never \/ unanswered[c] \in Nat
          BY DEF TypeOK
        <4>2. HAVE Zombie(c) /\ ~fooled[c]
        <4>3. pongAge[c] > StaleThreshold
          BY <4>2 DEF Zombie
        <4>4. \/ pongAge[c] <= tickAge[c]
              \/ tickAge[c] > FreezeGap
              \/ pongAge[c] <= unanswered[c] + FreezeGap
              \/ unanswered[c] > StaleThreshold - FreezeGap
          BY <4>2 DEF ClockInv
        <4>5. QED
          BY <3>1, <4>1, <4>3, <4>4
      <3>3. Zombie(c) /\ ~fooled[c] => ~(unanswered[c] <= StaleThreshold - FreezeGap)
        BY <3>2 DEF TypeOK
      <3>4. wronged' = wronged
        BY <2>1, <3>3 DEF TypeOK, NotWronged, TickPings
      <3>5. QED
        BY <1>1, <3>4
    <2>2. QED
      BY <1>1, <1>2, <2>1 DEF ConnStep, Prober, Receiver, Establish, SessionEnds,
             TickAfterFreeze, PingFails, WakeIgnored, WakeProbes, PollEchoed, PollKills,
             PongArrives, DataArrives, ReadTimesOut, EchoLost, history
  <1>3. CASE broadcastWake
    BY <1>1, <1>3 DEF broadcastWake, history
  <1>4. CASE Tick
    BY <1>1, <1>4 DEF Tick, Pass
  <1>5. CASE Freeze
    BY <1>1, <1>5 DEF Freeze, Pass
  <1>6. CASE UNCHANGED vars
    BY <1>1, <1>6 DEF vars, history
  <1>7. QED
    BY <1>1, <1>2, <1>3, <1>4, <1>5, <1>6, Steps

(* Theorem: the zombie check ends a session only if a periodic ping has gone   *)
(* unanswered for longer than probeStaleThreshold less a freeze's gap.         *)
THEOREM ZombieCheckIsFair == Spec => []ZombieCheckFair
PROOF
  <1>1. Init => FairInv
    BY ProbeAssumption
    DEF ProbeAssumption, Init, FairInv, SeqInv, PollInv, ClockInv, NotWronged, Never
  <1>2. TypeOK /\ FairInv /\ [Next]_vars => FairInv'
    BY SeqStep, PollStep, ClockStep, JudgeStep DEF FairInv
  <1>3. FairInv => ZombieCheckFair
    BY DEF FairInv, NotWronged, ZombieCheckFair
  <1>4. QED
    BY <1>1, <1>2, <1>3, TypeCorrect, PTL DEF Spec

-----------------------------------------------------------------------------
(* A zombie is found *)

(* serverProbeable is never taken back. *)
LEMMA CalmStep == TypeOK /\ CalmInv /\ [Next]_vars => CalmInv'
PROOF
  <1> SUFFICES ASSUME TypeOK, CalmInv, [Next]_vars PROVE CalmInv'
    OBVIOUS
  <1> USE ProbeAssumption DEF ProbeAssumption, Never
  <1>1. ASSUME UNCHANGED <<calm, serverProbeable>> PROVE CalmInv'
    BY <1>1 DEF CalmInv
  <1>2. ASSUME NEW c \in Conns, ConnStep(c) PROVE CalmInv'
    <2>1. CASE Establish(c)
      BY <2>1 DEF TypeOK, CalmInv, Establish, shared
    <2>2. CASE TickAfterFreeze(c)
      BY <2>2 DEF TypeOK, CalmInv, TickAfterFreeze, shared
    <2>3. CASE \E k \in echoes[c] : PongArrives(c, k)
      BY <2>3 DEF TypeOK, CalmInv, PongArrives
    <2>4. QED
      BY <1>1, <1>2, <2>1, <2>2, <2>3 DEF ConnStep, Prober, Receiver, SessionEnds,
             TickPings, PingFails, WakeIgnored, WakeProbes, PollEchoed, PollKills,
             DataArrives, ReadTimesOut, EchoLost, shared, history
  <1>3. CASE broadcastWake
    BY <1>1, <1>3 DEF broadcastWake, shared, history
  <1>4. CASE Tick
    BY <1>1, <1>4 DEF Tick, Pass
  <1>5. CASE Freeze
    BY <1>5 DEF CalmInv, Freeze, Pass
  <1>6. CASE UNCHANGED vars
    BY <1>1, <1>6 DEF vars, shared, history
  <1>7. QED
    BY <1>1, <1>2, <1>3, <1>4, <1>5, <1>6, Steps

(* A unit of time passes only over a prober that has done what was due. *)
LEMMA DueStep == TypeOK /\ CalmInv /\ DueInv /\ [Next]_vars => DueInv'
PROOF
  <1> SUFFICES ASSUME TypeOK, CalmInv, DueInv, [Next]_vars PROVE DueInv'
    OBVIOUS
  <1> USE ProbeAssumption DEF ProbeAssumption, Never
  <1>1. ASSUME UNCHANGED <<up, calm, prober, due, pollAge, pongAge>> PROVE DueInv'
    BY <1>1 DEF DueInv
  <1>2. ASSUME NEW c \in Conns, ConnStep(c) PROVE DueInv'
    <2>1. CASE Establish(c)
      BY <2>1 DEF TypeOK, CalmInv, DueInv, Establish
    <2>2. CASE SessionEnds(c)
      BY <2>2 DEF TypeOK, CalmInv, DueInv, SessionEnds, timers, pongs, history
    <2>3. CASE TickAfterFreeze(c)
      BY <2>3 DEF TypeOK, CalmInv, DueInv, TickAfterFreeze, InSelect
    <2>4. CASE TickPings(c)
      <3>1. Zombie(c) => up'[c] = FALSE
        BY <2>4 DEF TypeOK, TickPings
      <3>2. ~Zombie(c) /\ calm[c] => pongAge[c] <= StaleThreshold
        BY DEF TypeOK, CalmInv, Zombie
      <3>3. \A d \in Conns \ {c} : up'[d] = up[d] /\ due'[d] = due[d]
        BY <2>4 DEF TypeOK, TickPings
      <3>4. UNCHANGED <<calm, prober, pollAge, pongAge>>
        BY <2>4 DEF TickPings
      <3>5. /\ pongAge[c] <= StaleThreshold => pongAge[c] <= StaleThreshold + 1
            /\ pongAge[c] <= StaleThreshold => pongAge[c] <= StaleThreshold + 2
        BY DEF TypeOK
      <3>6. QED
        BY <3>1, <3>2, <3>3, <3>4, <3>5 DEF DueInv
    <2>5. CASE PingFails(c)
      BY <2>5 DEF TypeOK, CalmInv, DueInv, PingFails, timers, pongs, history
    <2>6. CASE WakeProbes(c)
      BY <2>6 DEF TypeOK, CalmInv, DueInv, WakeProbes, history, InSelect, Send
    <2>7. CASE PollEchoed(c)
      BY <2>7 DEF TypeOK, CalmInv, DueInv, PollEchoed, pongs
    <2>8. CASE PollKills(c)
      BY <2>8 DEF TypeOK, CalmInv, DueInv, PollKills, timers, pongs, history
    <2>9. CASE \E k \in echoes[c] : PongArrives(c, k)
      BY <2>9 DEF TypeOK, CalmInv, DueInv, PongArrives, timers
    <2>10. CASE ReadTimesOut(c)
      BY <2>10 DEF TypeOK, CalmInv, DueInv, ReadTimesOut, timers, pongs, history
    <2>11. QED
      BY <1>1, <1>2, <2>1, <2>2, <2>3, <2>4, <2>5, <2>6, <2>7, <2>8, <2>9, <2>10 DEF
             ConnStep, Prober, Receiver, WakeIgnored, DataArrives, EchoLost, pongs, history,
             timers
  <1>3. CASE broadcastWake
    BY <1>1, <1>3 DEF broadcastWake, pongs, history
  <1>4. CASE Tick
    BY <1>4 DEF TypeOK, DueInv, Tick, Pass, Settled, Aged
  <1>5. CASE Freeze
    BY <1>5 DEF DueInv, Freeze
  <1>6. CASE UNCHANGED vars
    BY <1>1, <1>6 DEF vars, timers, pongs, history
  <1>7. QED
    BY <1>1, <1>2, <1>3, <1>4, <1>5, <1>6, Steps

(* Theorem: while the process runs, a session whose server echoes is ended     *)
(* within two probe intervals of its pongs' getting stale.                     *)
THEOREM ZombieIsFound == Spec => []ZombieFound
PROOF
  <1>1. Init => CalmInv /\ DueInv
    BY DEF Init, CalmInv, DueInv
  <1>2. TypeOK /\ CalmInv /\ DueInv /\ [Next]_vars => (CalmInv /\ DueInv)'
    BY CalmStep, DueStep
  <1>3. DueInv => ZombieFound
    BY DEF DueInv, ZombieFound
  <1>4. QED
    BY <1>1, <1>2, <1>3, TypeCorrect, PTL DEF Spec

=============================================================================
