-------------------------------- MODULE Srtp ---------------------------------
(***************************************************************************)
(* The client side of pkg/proxy/srtpwrap/srtp.go: a net.Conn that carries  *)
(* its payload as SRTP over a TURN relay, from Client to Close.            *)
(*                                                                         *)
(* One goroutine (runDemuxFromPacketConn) reads the relay and sorts what   *)
(* comes into two bounded channels, one for the DTLS library and one for   *)
(* Read.  One goroutine of the session reads, two write (the sender and    *)
(* the prober), and whoever cancels the session closes.                    *)
(*                                                                         *)
(* The contents of packets are left out; the buffers they travel in are    *)
(* not, because they come from a pool shared by all connections.  Time is  *)
(* whether the read deadline has passed.  DTLS, SRTP, the relay and the    *)
(* timer are external libraries.                                           *)
(***************************************************************************)
EXTENDS Naturals, Sequences, FiniteSets

CONSTANTS
  Buffers,      \* packet buffers
  DtlsCap,      \* capacity of dtlsCh
  RtpCap,       \* capacity of rtpCh
  Writers,      \* goroutines that call Write
  MaxWrites,    \* bounds the packets written
  None          \* no buffer

ASSUME SrtpAssumption ==
  /\ IsFiniteSet(Buffers) /\ IsFiniteSet(Writers)
  /\ DtlsCap \in Nat \ {0} /\ RtpCap \in Nat \ {0} /\ MaxWrites \in Nat
  /\ None \notin Buffers

VARIABLES
  client,       \* how far Client, then Close, has come
  closed,       \* wrappedConn.closed is closed
  dtlsOpen,     \* the DTLS library reads from its adapter
  cancelled,    \* demuxCtx
  kick,         \* the AfterFunc of demuxCtx is still to run
  rawDl,        \* the relay's read deadline is in the past
  rawClosed,    \* the relay is closed
  demux,        \* the demultiplexing goroutine
  hand,         \* the buffer it holds
  dtlsCh, rtpCh,
  pool,         \* buffers nobody holds: in pktPool, or still to be allocated
  reader,       \* the goroutine in Read
  taken,        \* the buffer it holds
  current,      \* the deadline channel it waits on is still c.dlCh
  dlExp,        \* the read deadline
  dlClosed,     \* c.dlCh is closed
  timer,        \* dlTimer is running
  firing,       \* its callback waits for dlMu
  seq,          \* packets numbered by Write
  writer,       \* the packet each writer is about to send (0: none)
  sent          \* the number of the last packet on the wire

connVars == <<client, closed, dtlsOpen>>
rawVars == <<cancelled, kick, rawDl, rawClosed>>
demuxVars == <<demux, hand, dtlsCh>>
readVars == <<reader, taken, current>>
dlVars == <<dlExp, dlClosed, timer, firing>>
writeVars == <<seq, writer, sent>>
vars == <<connVars, rawVars, demuxVars, rtpCh, pool, readVars, dlVars, writeVars>>

TypeOK ==
  /\ client \in {"handshake", "up", "dtls", "stop", "raw", "done"}
  /\ closed \in BOOLEAN /\ dtlsOpen \in BOOLEAN
  /\ cancelled \in BOOLEAN /\ kick \in BOOLEAN
  /\ rawDl \in BOOLEAN /\ rawClosed \in BOOLEAN
  /\ demux \in {"read", "dtls", "rtp", "clear", "ended"}
  /\ hand \in Buffers \cup {None} /\ taken \in Buffers \cup {None}
  /\ dtlsCh \in Seq(Buffers) /\ Len(dtlsCh) <= DtlsCap
  /\ rtpCh \in Seq(Buffers) /\ Len(rtpCh) <= RtpCap
  /\ pool \subseteq Buffers
  /\ reader \in {"out", "pick", "wait", "check", "decrypt", "ended"}
  /\ current \in BOOLEAN
  /\ dlExp \in {"none", "future", "past"}
  /\ dlClosed \in BOOLEAN /\ timer \in BOOLEAN /\ firing \in BOOLEAN
  /\ seq \in 0 .. MaxWrites /\ sent \in 0 .. MaxWrites
  /\ writer \in [Writers -> 0 .. MaxWrites]

(* Client has started the demultiplexer and is in the DTLS handshake.  The *)
(* relay may come with a deadline its caller left on it.                   *)
Init ==
  /\ client = "handshake" /\ closed = FALSE /\ dtlsOpen = TRUE
  /\ cancelled = FALSE /\ kick = TRUE /\ rawDl \in BOOLEAN /\ rawClosed = FALSE
  /\ demux = "read" /\ hand = None /\ dtlsCh = <<>> /\ rtpCh = <<>>
  /\ pool = Buffers
  /\ reader = "out" /\ taken = None /\ current = FALSE
  /\ dlExp = "none" /\ dlClosed = FALSE /\ timer = FALSE /\ firing = FALSE
  /\ seq = 0 /\ writer = [w \in Writers |-> 0] /\ sent = 0

-----------------------------------------------------------------------------
(* runDemuxFromPacketConn *)

(* A packet arrives and is copied into a buffer of the pool, or it is      *)
(* neither DTLS nor RTP and the buffer goes back.                          *)
DemuxReads(b, kind) ==
  /\ demux = "read" /\ ~rawDl /\ ~rawClosed
  /\ b \in pool
  /\ demux' = kind
  /\ hand' = b
  /\ pool' = pool \ {b}
  /\ UNCHANGED <<connVars, rawVars, dtlsCh, rtpCh, readVars, dlVars, writeVars>>

DemuxDeliversDtls ==
  /\ demux = "dtls"
  /\ Len(dtlsCh) < DtlsCap
  /\ dtlsCh' = Append(dtlsCh, hand)
  /\ demux' = "read" /\ hand' = None
  /\ UNCHANGED <<connVars, rawVars, rtpCh, pool, readVars, dlVars, writeVars>>

DemuxDeliversRtp ==
  /\ demux = "rtp"
  /\ Len(rtpCh) < RtpCap
  /\ rtpCh' = Append(rtpCh, hand)
  /\ demux' = "read" /\ hand' = None
  /\ UNCHANGED <<connVars, rawVars, dtlsCh, pool, readVars, dlVars, writeVars>>

(* Mutant: a full channel is waited for without listening to the context. *)
DemuxDeaf ==
  /\ demux \in {"dtls", "rtp"} /\ FALSE
  /\ UNCHANGED vars

(* The channel is full when the context is cancelled. *)
DemuxGivesUp ==
  /\ demux \in {"dtls", "rtp"}
  /\ cancelled
  /\ pool' = pool \cup {hand}
  /\ demux' = "ended" /\ hand' = None
  /\ UNCHANGED <<connVars, rawVars, dtlsCh, rtpCh, readVars, dlVars, writeVars>>

(* ReadFrom fails: the context is looked at, then whether the relay is     *)
(* closed; a timeout that nobody here asked for will be cleared.           *)
DemuxReadFails ==
  /\ demux = "read"
  /\ rawDl \/ rawClosed
  /\ demux' = IF cancelled \/ rawClosed THEN "ended" ELSE "clear"
  /\ UNCHANGED <<connVars, rawVars, hand, dtlsCh, rtpCh, pool, readVars, dlVars, writeVars>>

(* By now the deadline may be the one that was to wake this goroutine. *)
DemuxClears ==
  /\ demux = "clear"
  /\ rawDl' = FALSE
  /\ demux' = "read"
  /\ UNCHANGED <<connVars, cancelled, kick, rawClosed, hand, dtlsCh, rtpCh, pool, readVars,
                 dlVars, writeVars>>

(* The AfterFunc, unless the goroutine's deferred stop came first. *)
Kick ==
  /\ kick /\ cancelled
  /\ demux # "ended"
  /\ kick' = FALSE
  /\ rawDl' = TRUE
  /\ UNCHANGED <<connVars, cancelled, rawClosed, demuxVars, rtpCh, pool, readVars, dlVars,
                 writeVars>>

(* packetConnAdapter.ReadFrom copies the packet; its buffer is left to the *)
(* garbage collector.                                                      *)
AdapterReads ==
  /\ dtlsOpen
  /\ dtlsCh # <<>>
  /\ pool' = pool \cup {Head(dtlsCh)}
  /\ dtlsCh' = Tail(dtlsCh)
  /\ UNCHANGED <<connVars, rawVars, demux, hand, rtpCh, readVars, dlVars, writeVars>>

-----------------------------------------------------------------------------
(* Client and Close *)

HandshakeOk ==
  /\ client = "handshake"
  /\ client' = "up"
  /\ UNCHANGED <<closed, dtlsOpen, rawVars, demuxVars, rtpCh, pool, readVars, dlVars, writeVars>>

(* No DTLS connection, no handshake in time, or no keys. *)
HandshakeFails ==
  /\ client = "handshake"
  /\ client' = "dtls"
  /\ UNCHANGED <<closed, dtlsOpen, rawVars, demuxVars, rtpCh, pool, readVars, dlVars, writeVars>>

(* srtpSessionConn.Close: the wrapper ... *)
CloseBegins ==
  /\ client = "up"
  /\ closed' = TRUE
  /\ client' = "dtls"
  /\ UNCHANGED <<dtlsOpen, rawVars, demuxVars, rtpCh, pool, readVars, dlVars, writeVars>>

CloseDtls ==
  /\ client = "dtls"
  /\ dtlsOpen' = FALSE
  /\ client' = "stop"
  /\ UNCHANGED <<closed, rawVars, demuxVars, rtpCh, pool, readVars, dlVars, writeVars>>

StopDemux ==
  /\ client = "stop"
  /\ cancelled' = TRUE
  /\ client' = "raw"
  /\ UNCHANGED <<closed, dtlsOpen, kick, rawDl, rawClosed, demuxVars, rtpCh, pool, readVars,
                 dlVars, writeVars>>

(* ... then the relay.  The caller of a failed Client closes it as well. *)
CloseRelay ==
  /\ client = "raw"
  /\ rawClosed' = TRUE
  /\ client' = "done"
  /\ UNCHANGED <<closed, dtlsOpen, cancelled, kick, rawDl, demuxVars, rtpCh, pool, readVars,
                 dlVars, writeVars>>

-----------------------------------------------------------------------------
(* The read deadline of wrappedConn *)

Deadlines == {"none", "future", "past"}

(* Mutant: the timer is armed by the first deadline only. *)
ArmsOnce(t) ==
  /\ dlExp' = t
  /\ current' = (current /\ ~dlClosed)
  /\ dlClosed' = (t = "past")
  /\ timer' = IF t = "future" THEN timer \/ dlExp = "none" ELSE FALSE
  /\ UNCHANGED firing

(* setDl: a closed channel is replaced, a deadline in the past closes the  *)
(* channel at once, one in the future resets the timer.                    *)
SetDl(t) ==
  /\ dlExp' = t
  /\ current' = (current /\ ~dlClosed)
  /\ dlClosed' = (t = "past")
  /\ timer' = (t = "future")
  /\ UNCHANGED firing

(* Another holder of the connection moves the deadline. *)
SetDeadline(t) ==
  /\ client = "up"
  /\ SetDl(t)
  /\ UNCHANGED <<connVars, rawVars, demuxVars, rtpCh, pool, reader, taken, writeVars>>

TimePasses ==
  /\ dlExp = "future"
  /\ dlExp' = "past"
  /\ UNCHANGED <<connVars, rawVars, demuxVars, rtpCh, pool, readVars, dlClosed, timer, firing,
                 writeVars>>

TimerExpires ==
  /\ timer /\ dlExp = "past" /\ ~firing
  /\ timer' = FALSE
  /\ firing' = TRUE
  /\ UNCHANGED <<connVars, rawVars, demuxVars, rtpCh, pool, readVars, dlExp, dlClosed,
                 writeVars>>

(* fireDeadline: a deadline moved meanwhile makes it do nothing. *)
FireDeadline ==
  /\ firing
  /\ firing' = FALSE
  /\ dlClosed' = (dlClosed \/ dlExp = "past")
  /\ UNCHANGED <<connVars, rawVars, demuxVars, rtpCh, pool, readVars, dlExp, timer, writeVars>>

-----------------------------------------------------------------------------
(* Read, by the session's receiver *)

(* The receiver sets a deadline of 30 seconds and calls Read; a freeze of  *)
(* the process in between leaves it in the past.                           *)
ReadBegins(t) ==
  /\ reader = "out"
  /\ client # "handshake"
  /\ SetDl(t)
  /\ reader' = "pick"
  /\ UNCHANGED <<connVars, rawVars, demuxVars, rtpCh, pool, taken, writeVars>>

(* deadlineCh *)
ReadPicks ==
  /\ reader = "pick"
  /\ reader' = "wait"
  /\ current' = TRUE
  /\ UNCHANGED <<connVars, rawVars, demuxVars, rtpCh, pool, taken, dlVars, writeVars>>

(* Mutant: the buffer goes back before it is decrypted. *)
ReadPutsEarly ==
  /\ reader = "wait"
  /\ rtpCh # <<>>
  /\ taken' = Head(rtpCh)
  /\ rtpCh' = Tail(rtpCh)
  /\ pool' = pool \cup {Head(rtpCh)}
  /\ reader' = "decrypt"
  /\ UNCHANGED <<connVars, rawVars, demuxVars, current, dlVars, writeVars>>

ReadTakes ==
  /\ reader = "wait"
  /\ rtpCh # <<>>
  /\ taken' = Head(rtpCh)
  /\ rtpCh' = Tail(rtpCh)
  /\ reader' = "decrypt"
  /\ UNCHANGED <<connVars, rawVars, demuxVars, pool, current, dlVars, writeVars>>

(* The plaintext is in a buffer of the connection's own: the packet's goes *)
(* back.  A packet that does not decrypt is skipped.                       *)
ReadDecrypts ==
  /\ reader = "decrypt"
  /\ pool' = pool \cup {taken}
  /\ taken' = None
  /\ reader' \in {"out", "pick"}
  /\ UNCHANGED <<connVars, rawVars, demuxVars, rtpCh, current, dlVars, writeVars>>

(* The connection is closed, and the receiver ends. *)
ReadClosed ==
  /\ reader = "wait"
  /\ closed
  /\ reader' = "ended"
  /\ UNCHANGED <<connVars, rawVars, demuxVars, rtpCh, pool, taken, current, dlVars, writeVars>>

(* The channel waited on is closed: the current one, or one since replaced. *)
ReadWakes ==
  /\ reader = "wait"
  /\ dlClosed \/ ~current
  /\ reader' = "check"
  /\ UNCHANGED <<connVars, rawVars, demuxVars, rtpCh, pool, taken, current, dlVars, writeVars>>

(* deadlineExpired: it is over only if the deadline of this moment is.  The *)
(* receiver then reads again or gives the session up.                       *)
ReadChecks ==
  /\ reader = "check"
  /\ reader' \in IF dlExp = "past" THEN {"out", "ended"} ELSE {"pick"}
  /\ UNCHANGED <<connVars, rawVars, demuxVars, rtpCh, pool, taken, current, dlVars, writeVars>>

-----------------------------------------------------------------------------
(* Write, by the sender and the prober: the mutex is held until the packet *)
(* is handed to the relay.                                                 *)

(* Mutant: the mutex protects the numbering only. *)
NumbersUnlocked(w) ==
  /\ client # "handshake"
  /\ writer[w] = 0
  /\ seq < MaxWrites
  /\ seq' = seq + 1
  /\ writer' = [writer EXCEPT ![w] = seq']
  /\ UNCHANGED <<connVars, rawVars, demuxVars, rtpCh, pool, readVars, dlVars, sent>>

WriteNumbers(w) ==
  /\ client # "handshake"
  /\ \A v \in Writers : writer[v] = 0
  /\ seq < MaxWrites
  /\ seq' = seq + 1
  /\ writer' = [writer EXCEPT ![w] = seq']
  /\ UNCHANGED <<connVars, rawVars, demuxVars, rtpCh, pool, readVars, dlVars, sent>>

WriteSends(w) ==
  /\ writer[w] # 0
  /\ writer' = [writer EXCEPT ![w] = 0]
  /\ sent' \in IF rawClosed THEN {sent} ELSE {sent, writer[w]}     \* WriteTo may fail
  /\ UNCHANGED <<connVars, rawVars, demuxVars, rtpCh, pool, readVars, dlVars, seq>>

-----------------------------------------------------------------------------
Demux ==
  \/ DemuxDeliversDtls \/ DemuxDeliversRtp \/ DemuxGivesUp \/ DemuxReadFails \/ DemuxClears

Closing == CloseDtls \/ StopDemux \/ CloseRelay

Reading ==
  \/ ReadPicks \/ ReadTakes \/ ReadDecrypts \/ ReadClosed \/ ReadWakes \/ ReadChecks

Next ==
  \/ \E b \in Buffers, kind \in {"dtls", "rtp"} : DemuxReads(b, kind)
  \/ Demux \/ Kick \/ AdapterReads
  \/ HandshakeOk \/ HandshakeFails \/ CloseBegins \/ Closing
  \/ \E t \in Deadlines : SetDeadline(t)
  \/ TimePasses \/ TimerExpires \/ FireDeadline
  \/ \E t \in {"future", "past"} : ReadBegins(t)
  \/ Reading
  \/ \E w \in Writers : WriteNumbers(w) \/ WriteSends(w)

Spec == Init /\ [][Next]_vars

(* The goroutines run, an armed timer goes off, and Close, once begun, is  *)
(* not abandoned.  Nothing obliges packets to arrive or anybody to close.  *)
FairSpec ==
  /\ Spec
  /\ WF_vars(Demux) /\ WF_vars(Kick) /\ WF_vars(AdapterReads)
  /\ WF_vars(Closing)
  /\ WF_vars(TimerExpires) /\ WF_vars(FireDeadline)
  /\ WF_vars(Reading)

-----------------------------------------------------------------------------
(* Properties *)

Elements(s) == {s[i] : i \in DOMAIN s}

(* The buffers in each place. *)
Places ==
  [pool |-> pool, demux |-> {hand} \cap Buffers, dtlsCh |-> Elements(dtlsCh),
   rtpCh |-> Elements(rtpCh), reader |-> {taken} \cap Buffers]

Distinct(s) == \A i, j \in DOMAIN s : s[i] = s[j] => i = j

(* A packet buffer is in one place: one that is still to be decrypted, or   *)
(* waits in a channel, is not in the pool from which another connection     *)
(* could take it and overwrite it; and none is lost.                        *)
OneOwner ==
  /\ Buffers = UNION {Places[p] : p \in DOMAIN Places}
  /\ \A p, q \in DOMAIN Places : p # q => Places[p] \cap Places[q] = {}
  /\ Distinct(dtlsCh) /\ Distinct(rtpCh)

(* Packets reach the relay in the order of their sequence numbers, though   *)
(* two goroutines write: the mutex is held until the packet is sent.        *)
WireInOrder == [][sent' # sent => sent' > sent]_vars

(* Once Close has begun, or Client has failed, the demultiplexer ends, with *)
(* full channels, with a relay nobody sends to, and even if its wake-up was *)
(* cleared as a spurious timeout: then the closed relay ends it.            *)
DemuxEnds == client \notin {"handshake", "up"} ~> demux = "ended"

(* A Read does not sleep through its deadline, though the deadline is moved *)
(* and its timer reset while Read waits on a channel picked before.         *)
DeadlineHeard ==
  reader = "wait" /\ dlExp = "past" ~> reader # "wait" \/ dlExp # "past"

=============================================================================
