----------------------------- MODULE Srtp_proofs ------------------------------
(***************************************************************************)
(* Proofs about Srtp, for any pool of buffers, any capacity of the two     *)
(* channels and any number of writers.                                     *)
(*                                                                         *)
(* OneOwner becomes inductive with HandInv: the demultiplexer has a buffer *)
(* in hand exactly while it is delivering one, and Read exactly while it   *)
(* decrypts.  WireInOrder follows from WriteInv: the one writer that holds *)
(* the mutex has the latest number, and that was not sent yet.             *)
(***************************************************************************)
EXTENDS Srtp, SequenceTheorems, TLAPS

USE SrtpAssumption

HandInv ==
  /\ demux \in {"dtls", "rtp"} <=> hand \in Buffers
  /\ reader = "decrypt" <=> taken \in Buffers

WriteInv ==
  /\ sent <= seq
  /\ \A w \in Writers : writer[w] # 0 => writer[w] = seq /\ sent < seq
  /\ \A v, w \in Writers : writer[v] # 0 /\ writer[w] # 0 => v = w

-----------------------------------------------------------------------------
(* Channels as queues of distinct buffers *)

LEMMA Appended ==
  ASSUME NEW s \in Seq(Buffers), NEW b \in Buffers, Distinct(s), b \notin Elements(s)
  PROVE  /\ Append(s, b) \in Seq(Buffers) /\ Len(Append(s, b)) = Len(s) + 1
         /\ Elements(Append(s, b)) = Elements(s) \cup {b}
         /\ Distinct(Append(s, b))
<1>1. /\ Append(s, b) \in Seq(Buffers) /\ Len(Append(s, b)) = Len(s) + 1 /\ Len(s) \in Nat
      /\ \A i \in 1 .. Len(s) : Append(s, b)[i] = s[i]
      /\ Append(s, b)[Len(s) + 1] = b
  OBVIOUS
<1>2. DOMAIN s = 1 .. Len(s) /\ DOMAIN Append(s, b) = 1 .. (Len(s) + 1)
  BY <1>1
<1>3. Elements(Append(s, b)) = Elements(s) \cup {b}
  BY <1>1, <1>2 DEF Elements
<1>4. Distinct(Append(s, b))
  <2>1. \A i \in 1 .. Len(s) : s[i] # b
    BY <1>2 DEF Elements
  <2>2. QED
    BY <1>1, <1>2, <2>1 DEF Distinct
<1>5. QED
  BY <1>1, <1>3, <1>4

LEMMA Removed ==
  ASSUME NEW s \in Seq(Buffers), s # <<>>, Distinct(s)
  PROVE  /\ Tail(s) \in Seq(Buffers) /\ Len(Tail(s)) = Len(s) - 1 /\ Len(s) \in Nat
         /\ Head(s) \in Buffers /\ Head(s) \notin Elements(Tail(s))
         /\ Elements(s) = Elements(Tail(s)) \cup {Head(s)}
         /\ Distinct(Tail(s))
<1>1. /\ Tail(s) \in Seq(Buffers) /\ Len(Tail(s)) = Len(s) - 1 /\ Len(s) \in Nat \ {0}
      /\ Head(s) = s[1] /\ Head(s) \in Buffers
      /\ \A i \in 1 .. (Len(s) - 1) : Tail(s)[i] = s[i + 1]
  OBVIOUS
<1>2. DOMAIN s = 1 .. Len(s) /\ DOMAIN Tail(s) = 1 .. (Len(s) - 1)
  BY <1>1
<1>3. Head(s) \notin Elements(Tail(s))
  BY <1>1, <1>2 DEF Elements, Distinct
<1>4. Elements(s) = Elements(Tail(s)) \cup {Head(s)}
  <2>1. \A i \in 1 .. Len(s) : i = 1 \/ (i - 1 \in 1 .. (Len(s) - 1) /\ s[i] = Tail(s)[i - 1])
    BY <1>1
  <2>2. \A i \in 1 .. (Len(s) - 1) : i + 1 \in 1 .. Len(s) /\ Tail(s)[i] = s[i + 1]
    BY <1>1
  <2>3. Elements(s) \subseteq Elements(Tail(s)) \cup {Head(s)}
    <3>1. ASSUME NEW i \in 1 .. Len(s) PROVE s[i] \in Elements(Tail(s)) \cup {Head(s)}
      <4>1. CASE i = 1
        BY <1>1, <4>1
      <4>2. CASE i # 1
        <5>1. i - 1 \in DOMAIN Tail(s) /\ s[i] = Tail(s)[i - 1]
          BY <1>2, <2>1, <4>2
        <5>2. QED
          BY <5>1 DEF Elements
      <4>3. QED
        BY <4>1, <4>2
    <3>2. QED
      BY <1>2, <3>1 DEF Elements
  <2>4. Elements(Tail(s)) \cup {Head(s)} \subseteq Elements(s)
    BY <1>1, <1>2, <2>2 DEF Elements
  <2>5. QED
    BY <2>3, <2>4
<1>5. Distinct(Tail(s))
  BY <1>1, <1>2 DEF Distinct
<1>6. QED
  BY <1>1, <1>3, <1>4, <1>5

(* OneOwner, place by place. *)
InPlace(p, h, d, r, t) ==
  /\ Buffers = p \cup ({h} \cap Buffers) \cup d \cup r \cup ({t} \cap Buffers)
  /\ p \cap ({h} \cap Buffers) = {} /\ p \cap d = {} /\ p \cap r = {} /\ p \cap ({t} \cap Buffers) = {}
  /\ ({h} \cap Buffers) \cap d = {} /\ ({h} \cap Buffers) \cap r = {}
  /\ ({h} \cap Buffers) \cap ({t} \cap Buffers) = {}
  /\ d \cap r = {} /\ d \cap ({t} \cap Buffers) = {} /\ r \cap ({t} \cap Buffers) = {}

Apart ==
  /\ InPlace(pool, hand, Elements(dtlsCh), Elements(rtpCh), taken)
  /\ Distinct(dtlsCh) /\ Distinct(rtpCh)

LEMMA ApartIsOneOwner == Apart <=> OneOwner
<1>1. /\ DOMAIN Places = {"pool", "demux", "dtlsCh", "rtpCh", "reader"}
      /\ Places["pool"] = pool /\ Places["demux"] = {hand} \cap Buffers
      /\ Places["dtlsCh"] = Elements(dtlsCh) /\ Places["rtpCh"] = Elements(rtpCh)
      /\ Places["reader"] = {taken} \cap Buffers
  BY DEF Places
<1>2. UNION {Places[p] : p \in DOMAIN Places}
        = Places["pool"] \cup Places["demux"] \cup Places["dtlsCh"] \cup Places["rtpCh"] \cup Places["reader"]
  BY <1>1
<1>3. (\A p, q \in DOMAIN Places : p # q => Places[p] \cap Places[q] = {})
      <=> /\ Places["pool"] \cap Places["demux"] = {} /\ Places["pool"] \cap Places["dtlsCh"] = {}
          /\ Places["pool"] \cap Places["rtpCh"] = {} /\ Places["pool"] \cap Places["reader"] = {}
          /\ Places["demux"] \cap Places["dtlsCh"] = {} /\ Places["demux"] \cap Places["rtpCh"] = {}
          /\ Places["demux"] \cap Places["reader"] = {} /\ Places["dtlsCh"] \cap Places["rtpCh"] = {}
          /\ Places["dtlsCh"] \cap Places["reader"] = {} /\ Places["rtpCh"] \cap Places["reader"] = {}
  BY <1>1
<1>4. QED
  BY <1>1, <1>2, <1>3 DEF Apart, InPlace, OneOwner

-----------------------------------------------------------------------------
(* Type correctness, and who has a buffer in hand *)

LEMMA TypeKept ==
  ASSUME TypeOK, HandInv, OneOwner, [Next]_vars
  PROVE  TypeOK' /\ HandInv'
<1>0. /\ \A b \in Buffers : b # None
      /\ Distinct(dtlsCh) /\ Distinct(rtpCh)
  BY DEF OneOwner
<1> USE DEF connVars, rawVars, demuxVars, readVars, dlVars, writeVars
<1>1. ASSUME NEW b \in Buffers, NEW kind \in {"dtls", "rtp"}, DemuxReads(b, kind)
      PROVE  TypeOK' /\ HandInv'
  BY <1>1 DEF TypeOK, HandInv, DemuxReads
<1>2. CASE DemuxDeliversDtls
  <2>1. hand \in Buffers /\ hand \notin Elements(dtlsCh)
    BY <1>2, ApartIsOneOwner DEF DemuxDeliversDtls, HandInv, Apart, InPlace
  <2>2. dtlsCh' \in Seq(Buffers) /\ Len(dtlsCh') <= DtlsCap
    BY <1>0, <1>2, <2>1, Appended DEF DemuxDeliversDtls, TypeOK
  <2>3. QED
    BY <1>2, <2>2 DEF TypeOK, HandInv, DemuxDeliversDtls
<1>3. CASE DemuxDeliversRtp
  <2>1. hand \in Buffers /\ hand \notin Elements(rtpCh)
    BY <1>3, ApartIsOneOwner DEF DemuxDeliversRtp, HandInv, Apart, InPlace
  <2>2. rtpCh' \in Seq(Buffers) /\ Len(rtpCh') <= RtpCap
    BY <1>0, <1>3, <2>1, Appended DEF DemuxDeliversRtp, TypeOK
  <2>3. QED
    BY <1>3, <2>2 DEF TypeOK, HandInv, DemuxDeliversRtp
<1>4. CASE DemuxGivesUp \/ DemuxReadFails \/ DemuxClears \/ Kick
  <2>1. CASE DemuxGivesUp
    BY <1>4, <2>1 DEF TypeOK, HandInv, DemuxGivesUp
  <2>2. CASE DemuxReadFails
    BY <1>4, <2>2 DEF TypeOK, HandInv, DemuxReadFails
  <2>3. CASE DemuxClears
    <3>1. rawDl' \in BOOLEAN
      BY <2>3 DEF DemuxClears
    <3>2. QED
      BY <2>3, <3>1 DEF TypeOK, HandInv, DemuxClears
  <2>4. CASE Kick
    <3>1. kick' \in BOOLEAN /\ rawDl' \in BOOLEAN
      BY <2>4 DEF Kick
    <3>2. QED
      BY <2>4, <3>1 DEF TypeOK, HandInv, Kick
  <2>5. QED
    BY <1>4, <2>1, <2>2, <2>3, <2>4
<1>5. CASE AdapterReads
  <2>1. Head(dtlsCh) \in Buffers /\ dtlsCh' \in Seq(Buffers) /\ Len(dtlsCh') <= DtlsCap
    BY <1>0, <1>5, Removed DEF AdapterReads, TypeOK
  <2>2. QED
    BY <1>5, <2>1 DEF TypeOK, HandInv, AdapterReads
<1>6. CASE HandshakeOk \/ HandshakeFails \/ CloseBegins \/ Closing
  <2>1. CASE HandshakeOk
    BY <1>6, <2>1 DEF TypeOK, HandInv, HandshakeOk
  <2>2. CASE HandshakeFails
    BY <1>6, <2>2 DEF TypeOK, HandInv, HandshakeFails
  <2>3. CASE CloseBegins
    BY <1>6, <2>3 DEF TypeOK, HandInv, CloseBegins
  <2>4. CASE CloseDtls
    <3>1. dtlsOpen' \in BOOLEAN
      BY <2>4 DEF CloseDtls
    <3>2. QED
      BY <2>4, <3>1 DEF TypeOK, HandInv, CloseDtls
  <2>5. CASE StopDemux
    BY <1>6, <2>5 DEF TypeOK, HandInv, StopDemux
  <2>6. CASE CloseRelay
    BY <1>6, <2>6 DEF TypeOK, HandInv, CloseRelay
  <2>7. QED
    BY <1>6, <2>1, <2>2, <2>3, <2>4, <2>5, <2>6 DEF Closing
<1>7. ASSUME NEW t \in Deadlines, SetDeadline(t) \/ ReadBegins(t) PROVE TypeOK' /\ HandInv'
  <2>1. CASE SetDeadline(t)
    BY <1>7, <2>1 DEF TypeOK, HandInv, SetDeadline, SetDl, Deadlines
  <2>2. CASE ReadBegins(t)
    BY <1>7, <2>2 DEF TypeOK, HandInv, ReadBegins, SetDl, Deadlines
  <2>3. QED
    BY <1>7, <2>1, <2>2
<1>8. CASE TimePasses \/ TimerExpires \/ FireDeadline
  <2>1. CASE TimePasses
    BY <1>8, <2>1 DEF TypeOK, HandInv, TimePasses
  <2>2. CASE TimerExpires
    <3>1. timer' \in BOOLEAN /\ firing' \in BOOLEAN
      BY <2>2 DEF TimerExpires
    <3>2. QED
      BY <2>2, <3>1 DEF TypeOK, HandInv, TimerExpires
  <2>3. CASE FireDeadline
    <3>1. firing' \in BOOLEAN /\ dlClosed' \in BOOLEAN
      BY <2>3 DEF FireDeadline, TypeOK
    <3>2. QED
      BY <2>3, <3>1 DEF TypeOK, HandInv, FireDeadline
  <2>4. QED
    BY <1>8, <2>1, <2>2, <2>3
<1>9. CASE ReadTakes
  <2>1. Head(rtpCh) \in Buffers /\ rtpCh' \in Seq(Buffers) /\ Len(rtpCh') <= RtpCap
    BY <1>0, <1>9, Removed DEF ReadTakes, TypeOK
  <2>2. QED
    BY <1>9, <2>1 DEF TypeOK, HandInv, ReadTakes
<1>10. CASE ReadPicks \/ ReadDecrypts \/ ReadClosed \/ ReadWakes \/ ReadChecks
  <2>1. CASE ReadPicks
    BY <1>10, <2>1 DEF TypeOK, HandInv, ReadPicks
  <2>2. CASE ReadDecrypts
    BY <1>10, <2>2 DEF TypeOK, HandInv, ReadDecrypts
  <2>3. CASE ReadClosed
    BY <1>10, <2>3 DEF TypeOK, HandInv, ReadClosed
  <2>4. CASE ReadWakes
    BY <1>10, <2>4 DEF TypeOK, HandInv, ReadWakes
  <2>5. CASE ReadChecks
    BY <1>10, <2>5 DEF TypeOK, HandInv, ReadChecks
  <2>6. QED
    BY <1>10, <2>1, <2>2, <2>3, <2>4, <2>5
<1>11. ASSUME NEW w \in Writers, WriteNumbers(w) PROVE TypeOK' /\ HandInv'
  BY <1>11 DEF TypeOK, HandInv, WriteNumbers
<1>12. ASSUME NEW w \in Writers, WriteSends(w) PROVE TypeOK' /\ HandInv'
  BY <1>12 DEF TypeOK, HandInv, WriteSends
<1>13. CASE UNCHANGED vars
  BY <1>13 DEF TypeOK, HandInv, vars
<1>14. QED
  BY <1>1, <1>2, <1>3, <1>4, <1>5, <1>6, <1>7, <1>8, <1>9, <1>10, <1>11, <1>12, <1>13
     DEF Next, Demux, Reading, Deadlines

-----------------------------------------------------------------------------
(* One owner of each buffer *)

LEMMA ApartKept ==
  ASSUME TypeOK, HandInv, Apart, [Next]_vars
  PROVE  Apart'
<1>0. dtlsCh \in Seq(Buffers) /\ rtpCh \in Seq(Buffers) /\ None \notin Buffers
  BY DEF TypeOK
<1>1. ASSUME NEW b \in Buffers, NEW kind \in {"dtls", "rtp"}, DemuxReads(b, kind) PROVE Apart'
  BY <1>0, <1>1 DEF Apart, InPlace, DemuxReads, HandInv, readVars
<1>2. CASE DemuxDeliversDtls
  <2>1. hand \in Buffers /\ hand \notin Elements(dtlsCh)
    BY <1>2 DEF DemuxDeliversDtls, HandInv, Apart, InPlace
  <2>2. Elements(dtlsCh') = Elements(dtlsCh) \cup {hand} /\ Distinct(dtlsCh')
    BY <1>0, <1>2, <2>1, Appended DEF DemuxDeliversDtls, Apart
  <2>3. hand' = None /\ UNCHANGED <<pool, rtpCh, taken>>
    BY <1>2 DEF DemuxDeliversDtls, readVars
  <2>4. QED
    BY <1>0, <2>1, <2>2, <2>3 DEF Apart, InPlace
<1>3. CASE DemuxDeliversRtp
  <2>1. hand \in Buffers /\ hand \notin Elements(rtpCh)
    BY <1>3 DEF DemuxDeliversRtp, HandInv, Apart, InPlace
  <2>2. Elements(rtpCh') = Elements(rtpCh) \cup {hand} /\ Distinct(rtpCh')
    BY <1>0, <1>3, <2>1, Appended DEF DemuxDeliversRtp, Apart
  <2>3. hand' = None /\ UNCHANGED <<pool, dtlsCh, taken>>
    BY <1>3 DEF DemuxDeliversRtp, readVars
  <2>4. QED
    BY <1>0, <2>1, <2>2, <2>3 DEF Apart, InPlace
<1>4. CASE DemuxGivesUp
  BY <1>0, <1>4 DEF Apart, InPlace, DemuxGivesUp, HandInv, readVars
<1>5. CASE AdapterReads
  <2>1. /\ Head(dtlsCh) \in Buffers /\ Head(dtlsCh) \notin Elements(dtlsCh')
        /\ Elements(dtlsCh) = Elements(dtlsCh') \cup {Head(dtlsCh)} /\ Distinct(dtlsCh')
    BY <1>0, <1>5, Removed DEF AdapterReads, Apart
  <2>2. pool' = pool \cup {Head(dtlsCh)} /\ UNCHANGED <<hand, rtpCh, taken>>
    BY <1>5 DEF AdapterReads, readVars
  <2>3. QED
    BY <2>1, <2>2 DEF Apart, InPlace
<1>6. CASE ReadTakes
  <2>1. /\ Head(rtpCh) \in Buffers /\ Head(rtpCh) \notin Elements(rtpCh')
        /\ Elements(rtpCh) = Elements(rtpCh') \cup {Head(rtpCh)} /\ Distinct(rtpCh')
    BY <1>0, <1>6, Removed DEF ReadTakes, Apart
  <2>2. taken' = Head(rtpCh) /\ taken \notin Buffers /\ UNCHANGED <<hand, dtlsCh, pool>>
    BY <1>6 DEF ReadTakes, HandInv, demuxVars
  <2>3. QED
    BY <2>1, <2>2 DEF Apart, InPlace
<1>7. CASE ReadDecrypts
  BY <1>0, <1>7 DEF Apart, InPlace, ReadDecrypts, HandInv, demuxVars
<1>8. CASE UNCHANGED <<pool, hand, dtlsCh, rtpCh, taken>>
  BY <1>8 DEF Apart, InPlace
<1>9. QED
  <2>1. DemuxReadFails \/ DemuxClears \/ Kick => UNCHANGED <<pool, hand, dtlsCh, rtpCh, taken>>
    BY DEF DemuxReadFails, DemuxClears, Kick, demuxVars, readVars
  <2>2. HandshakeOk \/ HandshakeFails \/ CloseBegins \/ Closing => UNCHANGED <<pool, hand, dtlsCh, rtpCh, taken>>
    BY DEF HandshakeOk, HandshakeFails, CloseBegins, Closing, CloseDtls, StopDemux, CloseRelay, demuxVars, readVars
  <2>3. \A t \in Deadlines : SetDeadline(t) \/ ReadBegins(t) => UNCHANGED <<pool, hand, dtlsCh, rtpCh, taken>>
    BY DEF SetDeadline, ReadBegins, demuxVars
  <2>4. TimePasses \/ TimerExpires \/ FireDeadline => UNCHANGED <<pool, hand, dtlsCh, rtpCh, taken>>
    BY DEF TimePasses, TimerExpires, FireDeadline, demuxVars, readVars
  <2>5. ReadPicks \/ ReadClosed \/ ReadWakes \/ ReadChecks => UNCHANGED <<pool, hand, dtlsCh, rtpCh, taken>>
    BY DEF ReadPicks, ReadClosed, ReadWakes, ReadChecks, demuxVars
  <2>6. \A w \in Writers : WriteNumbers(w) \/ WriteSends(w) => UNCHANGED <<pool, hand, dtlsCh, rtpCh, taken>>
    BY DEF WriteNumbers, WriteSends, demuxVars, readVars
  <2>7. UNCHANGED vars => UNCHANGED <<pool, hand, dtlsCh, rtpCh, taken>>
    BY DEF vars, demuxVars, readVars
  <2>8. QED
    BY <1>1, <1>2, <1>3, <1>4, <1>5, <1>6, <1>7, <1>8, <2>1, <2>2, <2>3, <2>4, <2>5, <2>6, <2>7
       DEF Next, Demux, Reading, Deadlines

-----------------------------------------------------------------------------
(* The writers *)

(* Only Write numbers and sends. *)
LEMMA OthersWriteNothing ==
  ASSUME [Next]_vars, ~\E w \in Writers : WriteNumbers(w) \/ WriteSends(w)
  PROVE  UNCHANGED writeVars
BY DEF Next, vars, DemuxReads, Demux, DemuxDeliversDtls, DemuxDeliversRtp, DemuxGivesUp, DemuxReadFails,
   DemuxClears, Kick, AdapterReads, HandshakeOk, HandshakeFails, CloseBegins, Closing, CloseDtls,
   StopDemux, CloseRelay, SetDeadline, TimePasses, TimerExpires, FireDeadline, ReadBegins, Reading,
   ReadPicks, ReadTakes, ReadDecrypts, ReadClosed, ReadWakes, ReadChecks

LEMMA WriteKept ==
  ASSUME TypeOK, WriteInv, [Next]_vars
  PROVE  WriteInv' /\ (sent' # sent => sent' > sent)
<1>0. seq \in Nat /\ sent \in Nat /\ writer \in [Writers -> Nat]
  BY DEF TypeOK
<1>1. ASSUME NEW w \in Writers, WriteNumbers(w) PROVE WriteInv' /\ (sent' # sent => sent' > sent)
  BY <1>0, <1>1 DEF WriteInv, WriteNumbers
<1>2. ASSUME NEW w \in Writers, WriteSends(w) PROVE WriteInv' /\ (sent' # sent => sent' > sent)
  <2>1. /\ seq' = seq /\ writer[w] = seq /\ sent < seq /\ writer' = [writer EXCEPT ![w] = 0]
        /\ sent' = sent \/ sent' = writer[w]
    BY <1>2 DEF WriteSends, WriteInv
  <2>2. \A v \in Writers : writer'[v] = 0
    BY <1>0, <1>2, <2>1 DEF WriteSends, WriteInv
  <2>3. QED
    BY <1>0, <2>1, <2>2 DEF WriteInv
<1>3. CASE UNCHANGED writeVars
  BY <1>3 DEF WriteInv, writeVars
<1>4. QED
  BY <1>1, <1>2, <1>3, OthersWriteNothing

-----------------------------------------------------------------------------
(* The theorems *)

IInv == TypeOK /\ HandInv /\ OneOwner /\ WriteInv

LEMMA IInvInit == Init => IInv
<1> SUFFICES ASSUME Init PROVE IInv
  OBVIOUS
<1>a. /\ closed \in BOOLEAN /\ dtlsOpen \in BOOLEAN /\ cancelled \in BOOLEAN /\ kick \in BOOLEAN
      /\ rawDl \in BOOLEAN /\ rawClosed \in BOOLEAN /\ current \in BOOLEAN
      /\ dlClosed \in BOOLEAN /\ timer \in BOOLEAN /\ firing \in BOOLEAN
  BY DEF Init
<1>1. TypeOK
  BY <1>a DEF Init, TypeOK
<1>2. HandInv
  BY DEF Init, HandInv
<1>3. Elements(<<>>) = {} /\ Distinct(<<>>)
  BY DEF Elements, Distinct
<1>4. Apart
  BY <1>3 DEF Init, Apart, InPlace
<1>5. WriteInv
  BY DEF Init, WriteInv
<1>6. QED
  BY <1>1, <1>2, <1>4, <1>5, ApartIsOneOwner DEF IInv

LEMMA IInvKept == IInv /\ [Next]_vars => IInv'
<1> SUFFICES ASSUME IInv, [Next]_vars PROVE IInv'
  OBVIOUS
<1>1. TypeOK' /\ HandInv' /\ WriteInv'
  BY TypeKept, WriteKept DEF IInv
<1>2. Apart'
  BY ApartIsOneOwner, ApartKept DEF IInv
<1>3. Apart' <=> OneOwner'
  BY ApartIsOneOwner, PTL
<1>4. QED
  BY <1>1, <1>2, <1>3 DEF IInv

LEMMA IInvAlways == Spec => []IInv
BY IInvInit, IInvKept, PTL DEF Spec

(* The wrapper's state keeps its types; the channels never hold more than     *)
(* their capacity.                                                            *)
THEOREM TypeCorrect == Spec => []TypeOK
<1>1. IInv => TypeOK
  BY DEF IInv
<1>2. QED
  BY <1>1, IInvAlways, PTL

(* Every packet buffer is always in exactly one place, whatever the sizes of  *)
(* the pool and of the channels and whenever the session is cancelled.        *)
THEOREM OneOwnerAlways == Spec => []OneOwner
<1>1. IInv => OneOwner
  BY DEF IInv
<1>2. QED
  BY <1>1, IInvAlways, PTL

(* Any number of goroutines may write: the packets that reach the relay have  *)
(* increasing sequence numbers.                                               *)
THEOREM WireAlwaysInOrder == Spec => WireInOrder
<1>1. IInv /\ [Next]_vars => [sent' # sent => sent' > sent]_vars
  BY WriteKept DEF IInv
<1>2. QED
  BY <1>1, IInvAlways, PTL DEF Spec, WireInOrder

=============================================================================
