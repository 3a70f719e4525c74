------------------------------ MODULE Session -------------------------------
(***************************************************************************)
(* One tunnel connection after another: runConnection and the four kinds   *)
(* of session it runs (DTLS, WRAP-A, SRTP, direct), with the goroutines a  *)
(* session starts: the TURN relay, the sender, the receiver and, in direct *)
(* mode, the one that reconnects the relay.                                *)
(*                                                                         *)
(* A session is torn down through its context.  What a session leaves      *)
(* running when it returns (its TURN goroutine, the direct reconnector)    *)
(* keeps its own record in sess while the connection's next session runs.  *)
(* Time and the liveness probes are in module Probe: here a probe may      *)
(* cancel an established session at any moment.                            *)
(***************************************************************************)
EXTENDS Integers, FiniteSets

CONSTANTS
  Conns,          \* connIdx
  Boot,           \* the conns whose runConnection has a readyCh (conn 0 of a bootstrap)
  Modes,          \* the transports the configuration may select
  Slots,          \* slots of the credential pool
  Quota,          \* connsPerSlot
  Nowhere,        \* the slot -1
  MaxFailures,    \* short failures before dormancy (3 in runConnection)
  MaxRetries,     \* attempts of the direct reconnector (5)
  RecvCap,        \* capacity of recvCh
  Incarnations    \* bound: sessions of one conn with goroutines left at a time

ASSUME SessionAssumption ==
  /\ IsFiniteSet(Conns) /\ Boot \subseteq Conns
  /\ Modes \subseteq {"dtls", "wrapa", "srtp", "direct"}
  /\ Nowhere \notin Slots
  /\ Quota \in Nat \ {0}
  /\ MaxFailures \in Nat \ {0}
  /\ MaxRetries \in Nat \ {0}
  /\ RecvCap \in Nat \ {0}
  /\ Incarnations \in Nat \ {0}

Gens == 0 .. Incarnations - 1

VARIABLES
  mode,           \* UseWrapA, UseSrtp, UseDTLS or none of them
  parent,         \* sessCtx (and the proxy's ctx) not yet cancelled
  main,           \* where each conn's own goroutine is
  result,         \* the error its session is returning with, "none" for nil
  shortFailures,  \* its counter of short failures
  woken,          \* the slot-available channel it sleeps on is closed
  signaled,       \* its *signaled
  gen,            \* which record of sess is its current session
  sess,           \* per conn and session: what outlives the session's function
  sender,         \* the goroutine from sendCh to the session
  receiver,       \* the goroutine from the session to recvCh
  open,           \* what an SRTP session has open
  used,           \* credPool: active of each slot
  activeConns,    \* the counter the watchdog and the statistics read
  recvCh,         \* packets waiting in recvCh
  prov,           \* wrapAProv: set or not
  provCh,         \* wrapAProvCh closed
  waiter,         \* a caller of WaitWrapAProvision
  \* History: no action's guard reads them.
  told,           \* what the pool was told about each conn's slot this session
  owed            \* a relay's refusal that made, or will make, the dial fail

vars == <<mode, parent, main, result, shortFailures, woken, signaled, gen, sess,
          sender, receiver, open, used, activeConns, recvCh, prov, provCh, waiter, told, owed>>

connVars == <<shortFailures, woken, signaled>>
flowVars == <<sender, receiver, recvCh>>
provVars == <<prov, provCh, waiter>>
history == <<told, owed>>

(* Outcomes of Allocate, as isQuotaError and isAuthError tell them apart. *)
Refusals == {"quota", "auth", "other"}

SessRec ==
  [ctx     : BOOLEAN,                          \* connCtx is cancelled
   turn    : {"none", "allocating", "both", "one", "told"},
   done    : {"none", "nil"} \cup Refusals,    \* what is in turnDone
   turnSlot: Slots \cup {Nowhere},             \* the slot the relay's credential is of
   rec     : {"none", "watch", "pause", "freed", "resolve", "ask", "got"},
   current : Slots \cup {Nowhere},             \* currentSlot, which the deferred release reads
   fresh   : Slots \cup {Nowhere},             \* newSlot
   retries : 0 .. MaxRetries]

NoSess == [ctx |-> TRUE, turn |-> "none", done |-> "none", turnSlot |-> Nowhere,
           rec |-> "none", current |-> Nowhere, fresh |-> Nowhere, retries |-> 0]

MainPC == {"idle", "dial", "failing", "getconf", "store", "up", "uncount", "close",
           "release", "failed", "nap", "dormant", "returned"}

cur(c) == sess[c][gen[c]]

Cancelled(c, g) == sess[c][g].ctx

-----------------------------------------------------------------------------
(* The pool, as a session sees it: CredPool has the details. *)

(* release: a slot of -1 and a count of 0 are left alone. *)
Released(s) ==
  IF s \in Slots /\ used[s] > 0 THEN [used EXCEPT ![s] = @ - 1] ELSE used

(* A release of a full slot closes the channel every sleeper captured. *)
Broadcast(s) ==
  woken' = IF s \in Slots /\ used[s] = Quota
             THEN [c \in Conns |-> woken[c] \/ main[c] \in {"nap", "dormant"}]
             ELSE woken

-----------------------------------------------------------------------------
(* A session begins *)

(* resolveTURNAddr gives conn c a credential of slot s; its session starts  *)
(* with record r.  The old records of c must allow a new one.               *)
Take(c, s, r, pc) ==
  LET g == (gen[c] + 1) % Incarnations IN
    /\ main[c] = "idle" /\ parent
    /\ used[s] < Quota
    /\ sess[c][g].turn = "none" /\ sess[c][g].rec = "none"
    /\ gen' = [gen EXCEPT ![c] = g]
    /\ sess' = [sess EXCEPT ![c][g] = [r EXCEPT !.ctx = FALSE, !.current = s, !.turnSlot = s]]
    /\ used' = [used EXCEPT ![s] = @ + 1]
    /\ main' = [main EXCEPT ![c] = pc]
    /\ UNCHANGED <<mode, parent, result, shortFailures, woken, open, activeConns, provVars, history>>

StartDtls(c, s) ==
  /\ mode = "dtls"
  /\ Take(c, s, [NoSess EXCEPT !.turn = "allocating"], "dial")
  /\ UNCHANGED <<signaled, flowVars>>

StartWrapA(c, s) ==
  /\ mode = "wrapa"
  /\ Take(c, s, [NoSess EXCEPT !.turn = "allocating"], "dial")
  /\ UNCHANGED <<signaled, flowVars>>

StartSrtp(c, s) ==
  /\ mode = "srtp"
  /\ Take(c, s, NoSess, "dial")
  /\ UNCHANGED <<signaled, flowVars>>

(* A direct session has no handshake: it is up as soon as it has a credential. *)
StartDirect(c, s) ==
  /\ mode = "direct"
  /\ Take(c, s, [NoSess EXCEPT !.turn = "allocating", !.rec = "watch"], "up")
  /\ signaled' = [signaled EXCEPT ![c] = @ \/ c \in Boot]
  /\ sender' = [sender EXCEPT ![c] = "run"]
  /\ receiver' = [receiver EXCEPT ![c] = "read"]
  /\ UNCHANGED recvCh

(* resolveTURNAddr fails, with a captcha or otherwise. *)
GetFails(c, e) ==
  /\ main[c] = "idle" /\ parent
  /\ main' = [main EXCEPT ![c] = "failed"]
  /\ result' = [result EXCEPT ![c] = e]
  /\ UNCHANGED <<mode, parent, connVars, gen, sess, flowVars, open, used, activeConns,
                 provVars, history>>

(* The loop's check of the contexts. *)
LoopEnds(c) ==
  /\ main[c] = "idle" /\ ~parent
  /\ main' = [main EXCEPT ![c] = "returned"]
  /\ UNCHANGED <<mode, parent, result, connVars, gen, sess, flowVars, open, used,
                 activeConns, provVars, history>>

-----------------------------------------------------------------------------
(* The handshake *)

(* The session is counted, its conn marked as signaled, its pumps started. *)
Establish(c) ==
  /\ main' = [main EXCEPT ![c] = "up"]
  /\ activeConns' = activeConns + 1
  /\ signaled' = [signaled EXCEPT ![c] = TRUE]
  /\ sender' = [sender EXCEPT ![c] = "run"]
  /\ receiver' = [receiver EXCEPT ![c] = "read"]
  /\ UNCHANGED <<mode, parent, result, shortFailures, woken, gen, recvCh, used, history>>

(* The handshake runs through the relay, and not under a cancelled context. *)
HandshakeDone(c) ==
  /\ main[c] = "dial"
  /\ cur(c).turn = "both"
  /\ ~Cancelled(c, gen[c])

DtlsUp(c) ==
  /\ mode = "dtls" /\ HandshakeDone(c)
  /\ Establish(c)
  /\ UNCHANGED <<sess, open, provVars>>

WrapADialled(c) ==
  /\ mode = "wrapa" /\ HandshakeDone(c)
  /\ main' = [main EXCEPT ![c] = "getconf"]
  /\ UNCHANGED <<mode, parent, result, connVars, gen, sess, flowVars, open, used,
                 activeConns, provVars, history>>

(* dialDTLS or dialDTLSWrapA gives up, of itself or because the context was   *)
(* cancelled; the session cancels the context and goes on to look at turnDone. *)
DialFails(c) ==
  /\ mode \in {"dtls", "wrapa"} /\ main[c] = "dial"
  /\ main' = [main EXCEPT ![c] = "failing"]
  /\ result' = [result EXCEPT ![c] = "other"]
  /\ sess' = [sess EXCEPT ![c][gen[c]].ctx = TRUE]
  /\ owed' = [owed EXCEPT ![c] = IF cur(c).ctx THEN @ ELSE "none"]
  /\ UNCHANGED <<mode, parent, connVars, gen, flowVars, open, used, activeConns,
                 provVars, told>>

(* markSaturated on a 486, invalidateEntry on a 401 or 403. *)
Tell(c, e) ==
  told' = [told EXCEPT ![c] = CASE e = "quota" -> "saturated"
                                [] e = "auth"  -> "invalidated"
                                [] OTHER       -> "none"]

(* The select on turnDone does not wait: an outcome not there yet is missed. *)
CheckTurnDone(c) ==
  /\ main[c] = "failing"
  /\ main' = [main EXCEPT ![c] = "release"]
  /\ Tell(c, cur(c).done)
  /\ sess' = [sess EXCEPT ![c][gen[c]].done = "none"]
  /\ UNCHANGED <<mode, parent, result, connVars, gen, flowVars, open, used, activeConns,
                 provVars, owed>>

(* newWrapAPacketConn or doGetconf fails: the session returns without cancelling. *)
GetconfFails(c) ==
  /\ mode = "wrapa"
  /\ main[c] \in {"dial", "getconf"}
  /\ main' = [main EXCEPT ![c] = "release"]
  /\ result' = [result EXCEPT ![c] = "other"]
  /\ owed' = [owed EXCEPT ![c] = "none"]
  /\ UNCHANGED <<mode, parent, connVars, gen, sess, flowVars, open, used, activeConns,
                 provVars, told>>

(* storeWrapAProvision, once: the value first, then the channel. *)
GetconfOk(c) ==
  /\ main[c] = "getconf"
  /\ main' = [main EXCEPT ![c] = "store"]
  /\ prov' = TRUE
  /\ UNCHANGED <<mode, parent, result, connVars, gen, sess, flowVars, open, used,
                 activeConns, provCh, waiter, history>>

WrapAUp(c) ==
  /\ main[c] = "store"
  /\ provCh' = TRUE
  /\ Establish(c)
  /\ UNCHANGED <<sess, open, prov, waiter>>

(* WaitWrapAProvision: the channel, the timeout or the end of the proxy. *)
WaiterReturns ==
  /\ waiter = "waiting" /\ mode = "wrapa"
  /\ \/ /\ provCh
        /\ waiter' = IF prov THEN "got" ELSE "nothing"
     \/ waiter' = "timeout"
  /\ UNCHANGED <<mode, parent, main, result, connVars, gen, sess, flowVars, open, used,
                 activeConns, prov, provCh, history>>

-----------------------------------------------------------------------------
(* setupSRTPSession: the session's own goroutine opens one thing after the   *)
(* other and closes them all when a step fails.                              *)

SrtpOrder == [ctl |-> {}, client |-> {"ctl"}, relay |-> {"ctl", "client"}]

SrtpOpen(c, r) ==
  /\ mode = "srtp" /\ main[c] = "dial"
  /\ open[c] = SrtpOrder[r]
  /\ open' = [open EXCEPT ![c] = @ \cup {r}]
  /\ UNCHANGED <<mode, parent, main, result, connVars, gen, sess, flowVars, used,
                 activeConns, provVars, history>>

(* Allocate may be refused in every way, CreatePermission not for the quota. *)
SrtpFailures(c) ==
  CASE open[c] = SrtpOrder["relay"] -> Refusals
    [] "relay" \in open[c]         -> {"auth", "other"}
    [] OTHER                       -> {"other"}

(* Mutant: a failed step closes only what it opened itself. *)
SrtpFailsOpen(c, e) ==
  /\ mode = "srtp" /\ main[c] = "dial"
  /\ e \in SrtpFailures(c)
  /\ Tell(c, e)
  /\ main' = [main EXCEPT ![c] = "release"]
  /\ result' = [result EXCEPT ![c] = "other"]
  /\ UNCHANGED <<mode, parent, connVars, gen, sess, flowVars, open, used, activeConns, provVars, owed>>

SrtpFails(c, e) ==
  /\ mode = "srtp" /\ main[c] = "dial"
  /\ e \in SrtpFailures(c)
  /\ open' = [open EXCEPT ![c] = {}]
  /\ Tell(c, e)
  /\ main' = [main EXCEPT ![c] = "release"]
  /\ result' = [result EXCEPT ![c] = "other"]
  /\ UNCHANGED <<mode, parent, connVars, gen, sess, flowVars, used, activeConns, provVars, owed>>

SrtpUp(c) ==
  /\ mode = "srtp" /\ main[c] = "dial"
  /\ "relay" \in open[c]
  /\ ~Cancelled(c, gen[c])
  /\ Establish(c)
  /\ UNCHANGED <<sess, open, provVars>>

(* srtpSessionConn.Close, from the AfterFunc or from the deferred call: the   *)
(* second of the two waits for the first, and closes nothing.                 *)
SrtpClose(c) ==
  /\ mode = "srtp"
  /\ \/ main[c] = "up" /\ Cancelled(c, gen[c]) /\ open[c] # {} /\ main' = main
     \/ main[c] = "close" /\ main' = [main EXCEPT ![c] = "release"]
  /\ open' = [open EXCEPT ![c] = {}]
  /\ UNCHANGED <<mode, parent, result, connVars, gen, sess, flowVars, used, activeConns,
                 provVars, history>>

-----------------------------------------------------------------------------
(* The TURN goroutine of session g of conn c *)

TurnStep(c, g, from, to) ==
  /\ sess[c][g].turn = from
  /\ sess' = [sess EXCEPT ![c][g].turn = to]
  /\ UNCHANGED <<mode, parent, main, result, connVars, gen, flowVars, open, used,
                 activeConns, provVars, history>>

(* The Allocate is granted: both pumps run. *)
Allocated(c, g) == TurnStep(c, g, "allocating", "both")

(* Mutant: the context is cancelled before the outcome is in turnDone. *)
TurnEndsEarly(c, g, from, outcome) ==
  /\ sess[c][g].turn = from
  /\ sess' = [sess EXCEPT ![c][g].turn = "told", ![c][g].ctx = mode # "direct"]
  /\ UNCHANGED <<mode, parent, main, result, connVars, gen, flowVars, open, used,
                 activeConns, provVars, told>>

(* runTURN returns and its outcome goes into turnDone.  A direct session does *)
(* not look at the outcome.                                                   *)
TurnEnds(c, g, from, outcome) ==
  /\ sess[c][g].turn = from
  /\ sess' = [sess EXCEPT ![c][g].turn = IF mode = "direct" THEN "none" ELSE "told",
                          ![c][g].done = IF mode = "direct" THEN "nil" ELSE outcome]
  /\ UNCHANGED <<mode, parent, main, result, connVars, gen, flowVars, open, used,
                 activeConns, provVars, told>>

(* The dial, the client or the Allocate fails. *)
AllocFails(c, g, e) ==
  /\ TurnEnds(c, g, "allocating", e)
  /\ owed' = [owed EXCEPT ![c] = IF g = gen[c] /\ main[c] = "dial" THEN e ELSE @]

(* One pump returns: an error of the relay or the pipe, or no peer yet. *)
PumpFails(c, g) == TurnStep(c, g, "both", "one")

(* The same under a cancelled context, whose AfterFunc expires both deadlines. *)
PumpCancelled(c, g) == Cancelled(c, g) /\ TurnStep(c, g, "both", "one")

(* turnCancel expires the deadlines of the other pump; the relay is closed. *)
PumpsJoin(c, g) == TurnEnds(c, g, "one", "nil") /\ UNCHANGED owed

(* spawnTURN's goroutine cancels the session. *)
TurnCancels(c, g) ==
  /\ sess[c][g].turn = "told"
  /\ sess' = [sess EXCEPT ![c][g] = [@ EXCEPT !.turn = "none", !.ctx = TRUE,
                         !.done = IF sess[c][g].current = Nowhere THEN "none" ELSE sess[c][g].done]]
  /\ UNCHANGED <<mode, parent, main, result, connVars, gen, flowVars, open, used,
                 activeConns, provVars, history>>

-----------------------------------------------------------------------------
(* The pumps of an established session *)

(* The zombie check or the probe after a wake-up. *)
ProbeKills(c) ==
  /\ mode \in {"dtls", "srtp"} /\ main[c] = "up"
  /\ ~Cancelled(c, gen[c])
  /\ sess' = [sess EXCEPT ![c][gen[c]].ctx = TRUE]
  /\ UNCHANGED <<mode, parent, main, result, connVars, gen, flowVars, open, used,
                 activeConns, provVars, history>>

(* The sender returns on a failed write or a cancelled context and cancels. *)
SenderEnds(c) ==
  /\ sender[c] = "run"
  /\ sender' = [sender EXCEPT ![c] = "gone"]
  /\ sess' = [sess EXCEPT ![c][gen[c]].ctx = TRUE]
  /\ UNCHANGED <<mode, parent, main, result, connVars, gen, receiver, recvCh, open, used,
                 activeConns, provVars, history>>

(* A packet for WireGuard has been read. *)
ReceiverReads(c) ==
  /\ receiver[c] = "read" /\ ~Cancelled(c, gen[c])
  /\ receiver' = [receiver EXCEPT ![c] = "deliver"]
  /\ UNCHANGED <<mode, parent, main, result, connVars, gen, sess, sender, recvCh, open,
                 used, activeConns, provVars, history>>

ReceiverDelivers(c) ==
  /\ receiver[c] = "deliver" /\ recvCh < RecvCap
  /\ recvCh' = recvCh + 1
  /\ receiver' = [receiver EXCEPT ![c] = "read"]
  /\ UNCHANGED <<mode, parent, main, result, connVars, gen, sess, sender, open, used,
                 activeConns, provVars, history>>

(* Mutant: the delivery does not listen to the context. *)
ReceiverEndsReading(c) ==
  /\ receiver[c] = "read"
  /\ receiver' = [receiver EXCEPT ![c] = "gone"]
  /\ sess' = [sess EXCEPT ![c][gen[c]].ctx = TRUE]
  /\ UNCHANGED <<mode, parent, main, result, connVars, gen, sender, recvCh, open, used,
                 activeConns, provVars, history>>

(* A read error, a stale tunnel, or the context cancelled, which frees the    *)
(* receiver of a full recvCh too.                                             *)
ReceiverEnds(c) ==
  /\ \/ receiver[c] = "read"
     \/ receiver[c] = "deliver" /\ Cancelled(c, gen[c])
  /\ receiver' = [receiver EXCEPT ![c] = "gone"]
  /\ sess' = [sess EXCEPT ![c][gen[c]].ctx = TRUE]
  /\ UNCHANGED <<mode, parent, main, result, connVars, gen, sender, recvCh, open, used,
                 activeConns, provVars, history>>

(* WireGuard takes a packet. *)
ReceivePacket ==
  /\ recvCh > 0
  /\ recvCh' = recvCh - 1
  /\ UNCHANGED <<mode, parent, main, result, connVars, gen, sess, sender, receiver, open,
                 used, activeConns, provVars, history>>

-----------------------------------------------------------------------------
(* A session returns *)

(* wg.Wait: sender and receiver have returned. *)
Joined(c) ==
  /\ main[c] = "up" /\ sender[c] = "gone" /\ receiver[c] = "gone"
  /\ main' = [main EXCEPT ![c] = IF mode = "direct" THEN "release" ELSE "uncount"]
  /\ result' = [result EXCEPT ![c] = "none"]
  /\ UNCHANGED <<mode, parent, connVars, gen, sess, flowVars, open, used, activeConns,
                 provVars, history>>

(* The deferred calls run in the opposite order of their defer statements. *)
Uncount(c) ==
  /\ main[c] = "uncount"
  /\ activeConns' = activeConns - 1
  /\ main' = [main EXCEPT ![c] = IF mode = "srtp" THEN "close" ELSE "release"]
  /\ UNCHANGED <<mode, parent, result, connVars, gen, sess, flowVars, open, used, provVars,
                 history>>

(* Mutant: the release is forgotten. *)
LeaveHolding(c) ==
  /\ main[c] = "release"
  /\ woken' = woken
  /\ sess' = [sess EXCEPT ![c][gen[c]].ctx = TRUE, ![c][gen[c]].current = Nowhere]
  /\ main' = [main EXCEPT ![c] = IF result[c] = "none" THEN "idle" ELSE "failed"]
  /\ UNCHANGED <<mode, parent, result, shortFailures, signaled, gen, flowVars, open,
                 used, activeConns, provVars, history>>

(* release(currentSlot), the pipes closed, connCancel; runConnection goes on. *)
(* Nobody reads currentSlot or, but for the reconnector, turnDone any more.   *)
Leave(c) ==
  LET s == cur(c).current IN
    /\ main[c] = "release"
    /\ used' = Released(s)
    /\ Broadcast(s)
    /\ sess' = [sess EXCEPT ![c][gen[c]] = [@ EXCEPT !.ctx = TRUE, !.current = Nowhere,
                                 !.done = IF cur(c).rec = "none" THEN "none" ELSE cur(c).done]]
    /\ main' = [main EXCEPT ![c] = IF result[c] = "none" THEN "idle" ELSE "failed"]
    /\ told' = [told EXCEPT ![c] = "none"]
    /\ owed' = [owed EXCEPT ![c] = "none"]
    /\ UNCHANGED <<mode, parent, result, shortFailures, signaled, gen, flowVars, open,
                   activeConns, provVars>>

-----------------------------------------------------------------------------
(* runConnection after an error *)

(* A captcha or a session of over five minutes resets the count. *)
Failures(c, long) ==
  IF result[c] = "captcha" \/ long THEN 0 ELSE shortFailures[c] + 1

(* The bootstrap's conn returns its error; the others nap, or lie dormant     *)
(* after MaxFailures short failures.  The channel is captured only here.      *)
BackOff(c, long) ==
  LET n == Failures(c, long) IN
    /\ main[c] = "failed"
    /\ IF ~signaled[c] /\ c \in Boot
         THEN /\ main' = [main EXCEPT ![c] = "returned"]
              /\ UNCHANGED <<shortFailures, woken>>
         ELSE /\ main' = [main EXCEPT ![c] = IF n >= MaxFailures THEN "dormant" ELSE "nap"]
              /\ shortFailures' = [shortFailures EXCEPT ![c] = n]
              /\ woken' = [woken EXCEPT ![c] = FALSE]
    /\ UNCHANGED <<mode, parent, result, signaled, gen, sess, flowVars, open, used,
                   activeConns, provVars, history>>

(* Sleep ends and the loop goes round; dormancy resets the count. *)
WakeUp(c) ==
  /\ main[c] \in {"nap", "dormant"}
  /\ main' = [main EXCEPT ![c] = "idle"]
  /\ shortFailures' = [shortFailures EXCEPT ![c] = IF main[c] = "dormant" THEN 0 ELSE @]
  /\ UNCHANGED <<mode, parent, result, woken, signaled, gen, sess, flowVars, open, used,
                 activeConns, provVars, history>>

(* Mutant: there is no timer, only the channel. *)
NoTimer(c) == FALSE /\ WakeUp(c)

SleepTimer(c) == WakeUp(c)

HearSlot(c) == woken[c] /\ WakeUp(c)

SleepCancelled(c) ==
  /\ main[c] \in {"nap", "dormant"} /\ ~parent
  /\ main' = [main EXCEPT ![c] = "returned"]
  /\ UNCHANGED <<mode, parent, result, connVars, gen, sess, flowVars, open, used,
                 activeConns, provVars, history>>

-----------------------------------------------------------------------------
(* The reconnecting goroutine of direct session g of conn c *)

RecStep(c, g, r) ==
  /\ sess' = [sess EXCEPT ![c][g] = r]
  /\ UNCHANGED <<mode, parent, main, result, shortFailures, signaled, gen, flowVars, open,
                 activeConns, provVars, history>>

(* It returns, through its deferred connCancel. *)
RecEnds(c, g) ==
  LET r == sess[c][g] IN
    /\ \/ r.rec \in {"watch", "pause", "resolve"} /\ Cancelled(c, g)
       \/ r.rec = "resolve" /\ r.retries = MaxRetries
    /\ RecStep(c, g, [r EXCEPT !.rec = "none", !.ctx = TRUE, !.done = "none", !.retries = 0])
    /\ UNCHANGED <<used, woken>>

(* The relay ended by itself; the goroutine lets half a second pass. *)
RecNotices(c, g) ==
  LET r == sess[c][g] IN
    /\ r.rec = "watch" /\ r.done # "none" /\ ~Cancelled(c, g)
    /\ RecStep(c, g, [r EXCEPT !.rec = "pause", !.done = "none"])
    /\ UNCHANGED <<used, woken>>

(* release(credSlot) ... *)
RecReleases(c, g) ==
  LET r == sess[c][g] IN
    /\ r.rec = "pause"
    /\ RecStep(c, g, [r EXCEPT !.rec = "freed"])
    /\ used' = Released(r.turnSlot)
    /\ Broadcast(r.turnSlot)

(* ... and only then credSlot = -1, currentSlot = -1. *)
RecForgets(c, g) ==
  LET r == sess[c][g] IN
    /\ r.rec = "freed"
    /\ RecStep(c, g, [r EXCEPT !.rec = "resolve", !.current = Nowhere, !.turnSlot = Nowhere])
    /\ UNCHANGED <<used, woken>>

(* It looks at connCtx, then calls resolveTURNAddr. *)
RecAsks(c, g) ==
  LET r == sess[c][g] IN
    /\ r.rec = "resolve" /\ r.retries < MaxRetries /\ ~Cancelled(c, g)
    /\ RecStep(c, g, [r EXCEPT !.rec = "ask"])
    /\ UNCHANGED <<used, woken>>

RecRetries(c, g) ==
  LET r == sess[c][g] IN
    /\ r.rec = "ask"
    /\ RecStep(c, g, [r EXCEPT !.rec = "resolve", !.retries = @ + 1])
    /\ UNCHANGED <<used, woken>>

(* connCtx may have been cancelled since it looked. *)
RecGets(c, g, s) ==
  LET r == sess[c][g] IN
    /\ r.rec = "ask"
    /\ used[s] < Quota
    /\ RecStep(c, g, [r EXCEPT !.rec = "got", !.fresh = s])
    /\ used' = [used EXCEPT ![s] = @ + 1]
    /\ UNCHANGED woken

RecRespawns(c, g) ==
  LET r == sess[c][g] IN
    /\ r.rec = "got"
    /\ RecStep(c, g, [r EXCEPT !.rec = "watch", !.turn = "allocating", !.current = r.fresh,
                               !.turnSlot = r.fresh, !.fresh = Nowhere, !.retries = 0])
    /\ UNCHANGED <<used, woken>>

-----------------------------------------------------------------------------
(* Pause, Resume's swap or Stop cancels sessCtx and with it every connCtx. *)
SessionCancelled ==
  /\ parent
  /\ parent' = FALSE
  /\ sess' = [c \in Conns |-> [g \in Gens |-> [sess[c][g] EXCEPT !.ctx = TRUE]]]
  /\ UNCHANGED <<mode, main, result, connVars, gen, flowVars, open, used,
                 activeConns, provVars, history>>

Init ==
  /\ mode \in Modes
  /\ parent = TRUE
  /\ main = [c \in Conns |-> "idle"]
  /\ result = [c \in Conns |-> "none"]
  /\ shortFailures = [c \in Conns |-> 0]
  /\ woken = [c \in Conns |-> FALSE]
  /\ signaled = [c \in Conns |-> FALSE]
  /\ gen = [c \in Conns |-> 0]
  /\ sess = [c \in Conns |-> [g \in Gens |-> NoSess]]
  /\ sender = [c \in Conns |-> "gone"]
  /\ receiver = [c \in Conns |-> "gone"]
  /\ open = [c \in Conns |-> {}]
  /\ used = [s \in Slots |-> 0]
  /\ activeConns = 0
  /\ recvCh = 0
  /\ prov = FALSE
  /\ provCh = FALSE
  /\ waiter = "waiting"
  /\ told = [c \in Conns |-> "none"]
  /\ owed = [c \in Conns |-> "none"]

ConnStep(c) ==
  \/ \E s \in Slots : StartDtls(c, s) \/ StartWrapA(c, s) \/ StartSrtp(c, s) \/ StartDirect(c, s)
  \/ \E e \in {"captcha", "other"} : GetFails(c, e)
  \/ LoopEnds(c)
  \/ DtlsUp(c) \/ WrapADialled(c) \/ DialFails(c) \/ CheckTurnDone(c)
  \/ GetconfFails(c) \/ GetconfOk(c) \/ WrapAUp(c)
  \/ \E r \in DOMAIN SrtpOrder : SrtpOpen(c, r)
  \/ \E e \in Refusals : SrtpFails(c, e)
  \/ SrtpUp(c) \/ SrtpClose(c)
  \/ ProbeKills(c)
  \/ SenderEnds(c) \/ ReceiverReads(c) \/ ReceiverDelivers(c) \/ ReceiverEnds(c)
  \/ Joined(c) \/ Uncount(c) \/ Leave(c)
  \/ \E long \in BOOLEAN : BackOff(c, long)
  \/ SleepTimer(c) \/ HearSlot(c) \/ SleepCancelled(c)

TurnGoroutine(c, g) ==
  \/ Allocated(c, g)
  \/ \E e \in Refusals : AllocFails(c, g, e)
  \/ PumpFails(c, g) \/ PumpCancelled(c, g) \/ PumpsJoin(c, g) \/ TurnCancels(c, g)

Reconnector(c, g) ==
  \/ RecEnds(c, g) \/ RecNotices(c, g) \/ RecReleases(c, g) \/ RecForgets(c, g)
  \/ RecAsks(c, g) \/ RecRetries(c, g) \/ RecRespawns(c, g)
  \/ \E s \in Slots : RecGets(c, g, s)

Next ==
  \/ \E c \in Conns : ConnStep(c)
  \/ \E c \in Conns, g \in Gens : TurnGoroutine(c, g) \/ Reconnector(c, g)
  \/ WaiterReturns \/ ReceivePacket \/ SessionCancelled

Spec == Init /\ [][Next]_vars

-----------------------------------------------------------------------------
(* Properties *)

TypeOK ==
  /\ mode \in Modes
  /\ parent \in BOOLEAN
  /\ main \in [Conns -> MainPC]
  /\ result \in [Conns -> {"none", "captcha", "other"}]
  /\ shortFailures \in [Conns -> 0 .. MaxFailures]
  /\ woken \in [Conns -> BOOLEAN]
  /\ signaled \in [Conns -> BOOLEAN]
  /\ gen \in [Conns -> Gens]
  /\ sess \in [Conns -> [Gens -> SessRec]]
  /\ sender \in [Conns -> {"run", "gone"}]
  /\ receiver \in [Conns -> {"read", "deliver", "gone"}]
  /\ open \in [Conns -> SUBSET {"ctl", "client", "relay"}]
  /\ used \in [Slots -> 0 .. Quota]
  /\ activeConns \in 0 .. Cardinality(Conns)
  /\ recvCh \in 0 .. RecvCap
  /\ prov \in BOOLEAN
  /\ provCh \in BOOLEAN
  /\ waiter \in {"waiting", "got", "nothing", "timeout"}
  /\ told \in [Conns -> {"none", "saturated", "invalidated"}]
  /\ owed \in [Conns -> {"none"} \cup Refusals]

(* The conns whose function holds a slot. *)
Holding(c) == main[c] \notin {"idle", "failed", "nap", "dormant", "returned"}

(* What a session promises the pool.  Direct sessions do not keep it and are *)
(* left out of the mapping.                                                  *)
Use == INSTANCE ConnUse WITH
  at     <- [c \in Conns |-> IF mode # "direct" /\ Holding(c) THEN cur(c).current ELSE Nowhere],
  live   <- {c \in Conns : mode # "direct" /\ main[c] \in {"up", "uncount"}},
  used   <- IF mode # "direct" THEN used ELSE [s \in Slots |-> 0],
  active <- activeConns

(* Property: every session but a direct one implements ConnUse: through every *)
(* dial, refusal, cancellation and probe kill it releases the slot it was     *)
(* given, once, and is among activeConns only while it holds it.              *)
UsesSlotOnce == Use!Spec

(* Property: when the dial failed because the relay was refused with a 486 or *)
(* a 401, the pool has been told so before the slot is released: the outcome  *)
(* is in turnDone before connCancel wakes the dial.                           *)
RefusalReported ==
  \A c \in Conns : main[c] = "release" =>
    /\ owed[c] = "quota" => told[c] = "saturated"
    /\ owed[c] = "auth" => told[c] = "invalidated"

(* Property: an SRTP session has closed its relay, its client and its socket  *)
(* before it lets go of its slot, whichever step failed or cancelled it.      *)
SrtpClosedBeforeRelease == \A c \in Conns : open[c] # {} => Holding(c)

(* Goroutines that have nothing left to wait for return. *)
Fairness ==
  /\ \A c \in Conns :
       /\ WF_vars(LoopEnds(c) \/ DialFails(c) \/ CheckTurnDone(c) \/ GetconfFails(c) \/ WrapAUp(c)
                    \/ (\E e \in Refusals : SrtpFails(c, e)) \/ Joined(c) \/ Uncount(c)
                    \/ (main[c] = "close" /\ SrtpClose(c)) \/ Leave(c)
                    \/ (\E long \in BOOLEAN : BackOff(c, long)) \/ SleepTimer(c))
       /\ WF_vars(Cancelled(c, gen[c]) /\ SenderEnds(c))
       /\ WF_vars(Cancelled(c, gen[c]) /\ ReceiverEnds(c))
  /\ \A c \in Conns, g \in Gens :
       /\ WF_vars(AllocFails(c, g, "other") \/ PumpCancelled(c, g) \/ PumpsJoin(c, g)
                    \/ TurnCancels(c, g))
       /\ WF_vars(RecEnds(c, g) \/ RecReleases(c, g) \/ RecForgets(c, g) \/ RecAsks(c, g)
                    \/ RecRetries(c, g) \/ RecRespawns(c, g))

FairSpec == Spec /\ Fairness

(* Property: once the session's context is cancelled every goroutine of every *)
(* session returns, one blocked on a full recvCh too, and nothing stays open. *)
CancelEndsAll ==
  ~parent ~> /\ \A c \in Conns : main[c] = "returned" /\ open[c] = {}
             /\ \A c \in Conns, g \in Gens : sess[c][g].turn = "none" /\ sess[c][g].rec = "none"

(* Property: a conn that sleeps tries again, though the slot-available signal *)
(* it could have slept on was sent before it captured the channel.            *)
SleepersRetry ==
  \A c \in Conns : main[c] \in {"nap", "dormant"} ~> main[c] \in {"idle", "returned"}

(* Violated in direct mode: when no conn holds a slot and no reconnector is   *)
(* left, every slot is free again ("releases the LATEST slot at function      *)
(* exit", proxy.go:2106).  A reconnector that took a slot after its session   *)
(* returned keeps it for good.                                                *)
SlotsComeBack ==
  (\A c \in Conns : ~Holding(c) /\ \A g \in Gens : sess[c][g].rec = "none")
    => \A s \in Slots : used[s] = 0

=============================================================================
