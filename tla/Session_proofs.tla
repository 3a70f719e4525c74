---------------------------- MODULE Session_proofs -----------------------------
(***************************************************************************)
(* Proofs about Session, for any number of connections, slots and sessions *)
(* of one connection with goroutines left: that a session implements       *)
(* ConnUse, that it reports a refusal before it releases its slot, and     *)
(* that an SRTP session has closed everything by then.                     *)
(*                                                                         *)
(* A session is a goroutine (main) and a record (sess) that its TURN       *)
(* goroutine and the direct reconnector write too.  The invariants say     *)
(* what these leave alone: SlotInv that the slot of the record is the one  *)
(* the pool counts the connection on, RefusalInv that an outcome which     *)
(* made the dial fail is still in turnDone when the connection looks.      *)
(***************************************************************************)
EXTENDS Session, FiniteSetTheorems, TLAPS

USE SessionAssumption

-----------------------------------------------------------------------------
(* Shapes *)

AnySlot == Slots \cup {Nowhere}

(* SessRec without the bound on the retries. *)
Rec ==
  [ctx : BOOLEAN, turn : {"none", "allocating", "both", "one", "told"},
   done : {"none", "nil"} \cup Refusals, turnSlot : AnySlot,
   rec : {"none", "watch", "pause", "freed", "resolve", "ask", "got"},
   current : AnySlot, fresh : AnySlot, retries : Int]

AllModes == {"dtls", "wrapa", "srtp", "direct"}

Shape ==
  /\ mode \in AllModes
  /\ main \in [Conns -> MainPC]
  /\ gen \in [Conns -> Gens]
  /\ sess \in [Conns -> [Gens -> Rec]]
  /\ used \in [Slots -> Int]
  /\ activeConns \in Int
  /\ open \in [Conns -> SUBSET {"ctl", "client", "relay"}]
  /\ told \in [Conns -> {"none", "saturated", "invalidated"}]
  /\ owed \in [Conns -> {"none"} \cup Refusals]

LEMMA GenRange == 0 \in Gens /\ \A n \in Gens : (n + 1) % Incarnations \in Gens
BY DEF Gens

(* One record changes. *)
LEMMA Patched ==
  ASSUME sess \in [Conns -> [Gens -> Rec]], NEW c \in Conns, NEW g \in Gens, NEW r \in Rec,
         sess' = [sess EXCEPT ![c][g] = r]
  PROVE  /\ sess' \in [Conns -> [Gens -> Rec]]
         /\ sess'[c][g] = r
         /\ \A b \in Conns, h \in Gens : b # c \/ h # g => sess'[b][h] = sess[b][h]
OBVIOUS

(* What the steps do to a record: it keeps its type, and the fields not named. *)
LEMMA Edits ==
  ASSUME NEW r \in Rec
  PROVE  /\ [r EXCEPT !.ctx = TRUE] \in Rec
         /\ [r EXCEPT !.done = "none"] \in Rec
         /\ \A t \in {"none", "both", "one", "told"} : [r EXCEPT !.turn = t] \in Rec
         /\ \A t \in {"none", "told"}, d \in {"nil"} \cup Refusals : [r EXCEPT !.turn = t, !.done = d] \in Rec
         /\ \A d \in {r.done, "none"} : [r EXCEPT !.turn = "none", !.ctx = TRUE, !.done = d] \in Rec
         /\ \A d \in {r.done, "none"} : [r EXCEPT !.ctx = TRUE, !.current = Nowhere, !.done = d] \in Rec
BY DEF Rec, AnySlot

LEMMA EditFields ==
  ASSUME NEW r \in Rec
  PROVE  /\ LET q == [r EXCEPT !.ctx = TRUE]
            IN  q.current = r.current /\ q.rec = r.rec /\ q.turn = r.turn /\ q.done = r.done
         /\ LET q == [r EXCEPT !.done = "none"]
            IN  q.current = r.current /\ q.rec = r.rec /\ q.turn = r.turn /\ q.done = "none"
         /\ \A t : LET q == [r EXCEPT !.turn = t]
                   IN  q.current = r.current /\ q.rec = r.rec /\ q.turn = t /\ q.done = r.done
         /\ \A t, d : LET q == [r EXCEPT !.turn = t, !.done = d]
                      IN  q.current = r.current /\ q.rec = r.rec /\ q.turn = t /\ q.done = d
         /\ \A d : LET q == [r EXCEPT !.turn = "none", !.ctx = TRUE, !.done = d]
                   IN  q.current = r.current /\ q.rec = r.rec /\ q.turn = "none" /\ q.done = d
         /\ \A d : LET q == [r EXCEPT !.ctx = TRUE, !.current = Nowhere, !.done = d]
                   IN  q.current = Nowhere /\ q.rec = r.rec /\ q.turn = r.turn /\ q.done = d
BY DEF Rec

(* The record a session starts with. *)
LEMMA Begun ==
  ASSUME NEW r \in Rec, NEW s \in Slots
  PROVE  LET q == [r EXCEPT !.ctx = FALSE, !.current = s, !.turnSlot = s]
         IN  q \in Rec /\ q.current = s /\ q.rec = r.rec /\ q.turn = r.turn /\ q.done = r.done
BY DEF Rec, AnySlot

LEMMA StartRecs ==
  /\ NoSess \in Rec /\ NoSess.rec = "none" /\ NoSess.done = "none"
  /\ LET q == [NoSess EXCEPT !.turn = "allocating"]
     IN  q \in Rec /\ q.rec = "none" /\ q.done = "none"
  /\ [NoSess EXCEPT !.turn = "allocating", !.rec = "watch"] \in Rec
  /\ [NoSess EXCEPT !.turn = "allocating", !.rec = "watch"].done = "none"
<1>1. NoSess \in Rec /\ NoSess.rec = "none" /\ NoSess.done = "none"
  BY DEF NoSess, Rec, AnySlot
<1>2. \A r \in Rec : LET q == [r EXCEPT !.turn = "allocating"]
                    IN  q \in Rec /\ q.rec = r.rec /\ q.done = r.done
  BY DEF Rec
<1>3. \A r \in Rec : LET q == [r EXCEPT !.turn = "allocating", !.rec = "watch"]
                    IN  q \in Rec /\ q.done = r.done
  BY DEF Rec
<1>4. QED
  BY <1>1, <1>2, <1>3

-----------------------------------------------------------------------------
(* Effects: which records a step changes, and how *)

(* The records keep their slots, and their reconnectors do not move. *)
SlotsSame ==
  \A b \in Conns, h \in Gens :
    sess'[b][h].current = sess[b][h].current /\ sess'[b][h].rec = sess[b][h].rec

(* The TURN goroutines do not move. *)
TurnsSame ==
  \A b \in Conns, h \in Gens :
    sess'[b][h].turn = sess[b][h].turn /\ sess'[b][h].done = sess[b][h].done

(* Only record g of conn c changes. *)
OnlyRecord(c, g) ==
  \A b \in Conns, h \in Gens : b # c \/ h # g => sess'[b][h] = sess[b][h]

RecordsOK == sess' \in [Conns -> [Gens -> Rec]]

CtxCut(c, g) == sess' = [sess EXCEPT ![c][g].ctx = TRUE]

LEMMA CtxStep ==
  ASSUME Shape, NEW c \in Conns, NEW g \in Gens, CtxCut(c, g)
  PROVE  RecordsOK /\ SlotsSame /\ TurnsSame
<1>0. sess \in [Conns -> [Gens -> Rec]] /\ sess[c][g] \in Rec
  BY DEF Shape
<1> DEFINE r == [sess[c][g] EXCEPT !.ctx = TRUE]
<1>1. sess' = [sess EXCEPT ![c][g] = r]
  BY <1>0 DEF CtxCut
<1>2. r \in Rec
  BY <1>0, Edits
<1>3. /\ r.current = sess[c][g].current /\ r.rec = sess[c][g].rec
      /\ r.turn = sess[c][g].turn /\ r.done = sess[c][g].done
  BY <1>0, EditFields
<1> HIDE DEF r
<1>4. RecordsOK /\ OnlyRecord(c, g) /\ sess'[c][g] = r
  BY <1>0, <1>1, <1>2 DEF RecordsOK, OnlyRecord
<1>5. QED
  BY <1>3, <1>4 DEF OnlyRecord, SlotsSame, TurnsSame

LEMMA CancelStep ==
  ASSUME Shape, sess' = [c \in Conns |-> [g \in Gens |-> [sess[c][g] EXCEPT !.ctx = TRUE]]]
  PROVE  RecordsOK /\ SlotsSame /\ TurnsSame
<1>0. \A c \in Conns, g \in Gens : sess[c][g] \in Rec /\ sess'[c][g] = [sess[c][g] EXCEPT !.ctx = TRUE]
  BY DEF Shape
<1>1. \A c \in Conns, g \in Gens : [sess[c][g] EXCEPT !.ctx = TRUE] \in Rec
  BY <1>0, Edits
<1>2. RecordsOK
  BY <1>1 DEF RecordsOK
<1>3. QED
  BY <1>0, <1>2, EditFields DEF SlotsSame, TurnsSame

LEMMA DoneStep ==
  ASSUME Shape, NEW c \in Conns, NEW g \in Gens, sess' = [sess EXCEPT ![c][g].done = "none"]
  PROVE  RecordsOK /\ SlotsSame /\ OnlyRecord(c, g) /\ sess'[c][g].turn = sess[c][g].turn
<1>0. sess \in [Conns -> [Gens -> Rec]] /\ sess[c][g] \in Rec
  BY DEF Shape
<1> DEFINE r == [sess[c][g] EXCEPT !.done = "none"]
<1>1. sess' = [sess EXCEPT ![c][g] = r]
  BY <1>0
<1>2. r \in Rec
  BY <1>0, Edits
<1>3. r.current = sess[c][g].current /\ r.rec = sess[c][g].rec /\ r.turn = sess[c][g].turn
  BY <1>0, EditFields
<1> HIDE DEF r
<1>4. QED
  BY <1>0, <1>1, <1>2, <1>3, SMTT(30) DEF RecordsOK, SlotsSame, OnlyRecord

(* A step of the TURN goroutine of session g of conn c. *)
LEMMA TurnMoves ==
  ASSUME Shape, NEW c \in Conns, NEW g \in Gens, NEW f, NEW t \in {"both", "one"}, TurnStep(c, g, f, t)
  PROVE  /\ RecordsOK /\ SlotsSame /\ OnlyRecord(c, g)
         /\ sess'[c][g].turn = t /\ sess'[c][g].done = sess[c][g].done
<1>0. sess \in [Conns -> [Gens -> Rec]] /\ sess[c][g] \in Rec
  BY DEF Shape
<1> DEFINE r == [sess[c][g] EXCEPT !.turn = t]
<1>1. sess' = [sess EXCEPT ![c][g] = r]
  BY <1>0 DEF TurnStep
<1>2. r \in Rec
  BY <1>0, Edits
<1>3. r.current = sess[c][g].current /\ r.rec = sess[c][g].rec /\ r.turn = t /\ r.done = sess[c][g].done
  BY <1>0, EditFields
<1> HIDE DEF r
<1>4. QED
  BY <1>0, <1>1, <1>2, <1>3 DEF RecordsOK, SlotsSame, OnlyRecord

LEMMA TurnFinishes ==
  ASSUME Shape, NEW c \in Conns, NEW g \in Gens, NEW f, NEW o \in {"nil"} \cup Refusals,
         TurnEnds(c, g, f, o)
  PROVE  /\ RecordsOK /\ SlotsSame /\ OnlyRecord(c, g)
         /\ sess'[c][g].turn \in {"none", "told"}
         /\ mode # "direct" => sess'[c][g].done = o
<1>0. sess \in [Conns -> [Gens -> Rec]] /\ sess[c][g] \in Rec
  BY DEF Shape
<1> DEFINE t == IF mode = "direct" THEN "none" ELSE "told"
<1> DEFINE d == IF mode = "direct" THEN "nil" ELSE o
<1>a. t \in {"none", "told"} /\ d \in {"nil"} \cup Refusals /\ (mode # "direct" => d = o)
  OBVIOUS
<1>b. sess' = [sess EXCEPT ![c][g].turn = t, ![c][g].done = d]
  BY DEF TurnEnds
<1> HIDE DEF t, d
<1> DEFINE r == [sess[c][g] EXCEPT !.turn = t, !.done = d]
<1>1. sess' = [sess EXCEPT ![c][g] = r]
  BY <1>0, <1>b
<1>2. r \in Rec
  BY <1>0, <1>a, Edits
<1>3. r.current = sess[c][g].current /\ r.rec = sess[c][g].rec /\ r.turn = t /\ r.done = d
  BY <1>0, EditFields
<1> HIDE DEF r
<1>4. QED
  BY <1>0, <1>a, <1>1, <1>2, <1>3 DEF RecordsOK, SlotsSame, OnlyRecord

LEMMA TurnGoes ==
  ASSUME Shape, NEW c \in Conns, NEW g \in Gens, TurnCancels(c, g)
  PROVE  /\ RecordsOK /\ SlotsSame /\ OnlyRecord(c, g)
         /\ sess'[c][g].turn = "none"
         /\ sess[c][g].current # Nowhere => sess'[c][g].done = sess[c][g].done
<1>0. sess \in [Conns -> [Gens -> Rec]] /\ sess[c][g] \in Rec
  BY DEF Shape
<1> DEFINE d == IF sess[c][g].current = Nowhere THEN "none" ELSE sess[c][g].done
<1>a. d \in {sess[c][g].done, "none"} /\ (sess[c][g].current # Nowhere => d = sess[c][g].done)
  OBVIOUS
<1> DEFINE r == [sess[c][g] EXCEPT !.turn = "none", !.ctx = TRUE, !.done = d]
<1>1. sess' = [sess EXCEPT ![c][g] = r]
  BY <1>0 DEF TurnCancels
<1> HIDE DEF d
<1>2. r \in Rec
  BY <1>0, <1>a, Edits
<1>3. r.current = sess[c][g].current /\ r.rec = sess[c][g].rec /\ r.turn = "none" /\ r.done = d
  BY <1>0, EditFields
<1> HIDE DEF r
<1>4. QED
  BY <1>0, <1>a, <1>1, <1>2, <1>3 DEF RecordsOK, SlotsSame, OnlyRecord

(* A session begins with the record q and leaves it with no slot. *)
LEMMA TakeStep ==
  ASSUME Shape, NEW c \in Conns, NEW s \in Slots, NEW q \in Rec, NEW pc, Take(c, s, q, pc),
         q.done = "none"
  PROVE  LET g == (gen[c] + 1) % Incarnations IN
           /\ RecordsOK /\ OnlyRecord(c, g)
           /\ g \in Gens /\ gen' = [gen EXCEPT ![c] = g]
           /\ sess'[c][g].current = s /\ sess'[c][g].rec = q.rec
           /\ sess'[c][g].turn = q.turn /\ sess'[c][g].done = "none"
<1>0. sess \in [Conns -> [Gens -> Rec]] /\ gen[c] \in Gens
  BY DEF Shape
<1> DEFINE g == (gen[c] + 1) % Incarnations
<1> DEFINE r == [q EXCEPT !.ctx = FALSE, !.current = s, !.turnSlot = s]
<1>1. sess' = [sess EXCEPT ![c][g] = r] /\ gen' = [gen EXCEPT ![c] = g]
  BY <1>0 DEF Take
<1>2. r \in Rec /\ r.current = s /\ r.rec = q.rec /\ r.turn = q.turn /\ r.done = "none"
  BY Begun
<1>3. g \in Gens
  BY <1>0, GenRange
<1> HIDE DEF r, g
<1>4. /\ RecordsOK /\ OnlyRecord(c, g)
      /\ g \in Gens /\ gen' = [gen EXCEPT ![c] = g]
      /\ sess'[c][g].current = s /\ sess'[c][g].rec = q.rec
      /\ sess'[c][g].turn = q.turn /\ sess'[c][g].done = "none"
  BY <1>0, <1>1, <1>2, <1>3 DEF RecordsOK, OnlyRecord
<1>5. QED
  BY <1>4 DEF g

LEMMA LeaveStep ==
  ASSUME Shape, NEW c \in Conns, Leave(c)
  PROVE  /\ RecordsOK /\ OnlyRecord(c, gen[c])
         /\ sess'[c][gen[c]].rec = sess[c][gen[c]].rec
         /\ sess'[c][gen[c]].turn = sess[c][gen[c]].turn
<1> DEFINE g == gen[c]
<1>0. sess \in [Conns -> [Gens -> Rec]] /\ g \in Gens /\ sess[c][g] \in Rec
  BY DEF Shape
<1> DEFINE d == IF cur(c).rec = "none" THEN "none" ELSE cur(c).done
<1>a. d \in {sess[c][g].done, "none"}
  BY DEF cur
<1> DEFINE r == [sess[c][g] EXCEPT !.ctx = TRUE, !.current = Nowhere, !.done = d]
<1>1. sess' = [sess EXCEPT ![c][g] = r]
  BY <1>0 DEF Leave
<1> HIDE DEF d
<1>2. r \in Rec
  BY <1>0, <1>a, Edits
<1>3. r.rec = sess[c][g].rec /\ r.turn = sess[c][g].turn
  BY <1>0, EditFields
<1> HIDE DEF r, g
<1>4. /\ RecordsOK /\ OnlyRecord(c, g)
      /\ sess'[c][g].rec = sess[c][g].rec /\ sess'[c][g].turn = sess[c][g].turn
  BY <1>0, <1>1, <1>2, <1>3 DEF RecordsOK, OnlyRecord
<1>5. QED
  BY <1>4 DEF g

LEMMA RecEdits ==
  ASSUME NEW r \in Rec
  PROVE  /\ [r EXCEPT !.rec = "none", !.ctx = TRUE, !.done = "none", !.retries = 0] \in Rec
         /\ [r EXCEPT !.rec = "pause", !.done = "none"] \in Rec
         /\ [r EXCEPT !.rec = "freed"] \in Rec
         /\ [r EXCEPT !.rec = "resolve", !.current = Nowhere, !.turnSlot = Nowhere] \in Rec
         /\ [r EXCEPT !.rec = "ask"] \in Rec
         /\ [r EXCEPT !.rec = "resolve", !.retries = @ + 1] \in Rec
         /\ \A s \in Slots : [r EXCEPT !.rec = "got", !.fresh = s] \in Rec
         /\ [r EXCEPT !.rec = "watch", !.turn = "allocating", !.current = r.fresh,
                      !.turnSlot = r.fresh, !.fresh = Nowhere, !.retries = 0] \in Rec
<1>0. 0 \in Int
  OBVIOUS
<1>1. \A n \in Int : [r EXCEPT !.rec = "none", !.ctx = TRUE, !.done = "none", !.retries = n] \in Rec
  BY DEF Rec
<1>2. /\ [r EXCEPT !.rec = "pause", !.done = "none"] \in Rec
      /\ [r EXCEPT !.rec = "freed"] \in Rec
      /\ [r EXCEPT !.rec = "ask"] \in Rec
  BY DEF Rec
<1>3. \A s, t \in AnySlot : [r EXCEPT !.rec = "resolve", !.current = s, !.turnSlot = t] \in Rec
  BY DEF Rec
<1>4. \A n \in Int : [r EXCEPT !.rec = "resolve", !.retries = n] \in Rec
  BY DEF Rec
<1>5. \A s \in AnySlot : [r EXCEPT !.rec = "got", !.fresh = s] \in Rec
  BY DEF Rec
<1>6. r.fresh \in AnySlot /\ r.retries \in Int /\ Nowhere \in AnySlot /\ Slots \subseteq AnySlot
  BY DEF Rec, AnySlot
<1>7. \A s, t, u \in AnySlot, n \in Int :
        [r EXCEPT !.rec = "watch", !.turn = "allocating", !.current = s,
                  !.turnSlot = t, !.fresh = u, !.retries = n] \in Rec
  BY DEF Rec
<1>8. r.retries + 1 \in Int
  BY <1>6
<1>9. [r EXCEPT !.rec = "resolve", !.retries = @ + 1] \in Rec
  BY <1>4, <1>8
<1>10. [r EXCEPT !.rec = "none", !.ctx = TRUE, !.done = "none", !.retries = 0] \in Rec
  BY <1>0, <1>1, Zenon
<1>11. [r EXCEPT !.rec = "resolve", !.current = Nowhere, !.turnSlot = Nowhere] \in Rec
  BY <1>3, <1>6
<1>12. \A s \in Slots : [r EXCEPT !.rec = "got", !.fresh = s] \in Rec
  BY <1>5, <1>6
<1>13. [r EXCEPT !.rec = "watch", !.turn = "allocating", !.current = r.fresh,
                !.turnSlot = r.fresh, !.fresh = Nowhere, !.retries = 0] \in Rec
  BY <1>0, <1>6, <1>7, Zenon
<1>14. QED
  BY <1>2, <1>9, <1>10, <1>11, <1>12, <1>13

(* The reconnector moves only where there is one, and then within Rec. *)
LEMMA RecMoves ==
  ASSUME Shape, NEW c \in Conns, NEW g \in Gens, Reconnector(c, g)
  PROVE  /\ sess[c][g].rec # "none"
         /\ RecordsOK
         /\ used' \in [Slots -> Int]
         /\ UNCHANGED <<mode, main, gen, open, activeConns, told, owed>>
<1>0. sess \in [Conns -> [Gens -> Rec]] /\ sess[c][g] \in Rec /\ used \in [Slots -> Int]
  BY DEF Shape
<1>1. ASSUME NEW r \in Rec, RecStep(c, g, r)
      PROVE  RecordsOK /\ UNCHANGED <<mode, main, gen, open, activeConns, told, owed>>
  BY <1>0, <1>1, Patched DEF RecStep, RecordsOK, history
<1>2. ASSUME NEW s PROVE Released(s) \in [Slots -> Int]
  BY <1>0 DEF Released
<1>3. CASE RecEnds(c, g)
  BY <1>0, <1>1, <1>3, RecEdits DEF RecEnds
<1>4. CASE RecNotices(c, g)
  BY <1>0, <1>1, <1>4, RecEdits DEF RecNotices
<1>5. CASE RecReleases(c, g)
  BY <1>0, <1>1, <1>2, <1>5, RecEdits DEF RecReleases
<1>6. CASE RecForgets(c, g)
  BY <1>0, <1>1, <1>6, RecEdits DEF RecForgets
<1>7. CASE RecAsks(c, g)
  BY <1>0, <1>1, <1>7, RecEdits DEF RecAsks
<1>8. CASE RecRetries(c, g)
  BY <1>0, <1>1, <1>8, RecEdits DEF RecRetries
<1>9. CASE RecRespawns(c, g)
  BY <1>0, <1>1, <1>9, RecEdits DEF RecRespawns
<1>10. ASSUME NEW s \in Slots, RecGets(c, g, s)
       PROVE  /\ sess[c][g].rec # "none"
              /\ RecordsOK
              /\ used' \in [Slots -> Int]
              /\ UNCHANGED <<mode, main, gen, open, activeConns, told, owed>>
  <2>1. [sess[c][g] EXCEPT !.rec = "got", !.fresh = s] \in Rec
    BY <1>0, RecEdits
  <2>2. used' = [used EXCEPT ![s] = @ + 1] /\ sess[c][g].rec = "ask"
    BY <1>10 DEF RecGets
  <2>3. RecStep(c, g, [sess[c][g] EXCEPT !.rec = "got", !.fresh = s])
    BY <1>10 DEF RecGets
  <2>4. used' \in [Slots -> Int]
    BY <1>0, <2>2
  <2>5. QED
    BY <1>1, <2>1, <2>2, <2>3, <2>4
<1>11. QED
  BY <1>3, <1>4, <1>5, <1>6, <1>7, <1>8, <1>9, <1>10 DEF Reconnector

-----------------------------------------------------------------------------
(* The inductive invariant *)

Outside == {"idle", "failed", "nap", "dormant", "returned"}

(* The mapping of Use, by name. *)
Spot == [c \in Conns |-> IF mode # "direct" /\ Holding(c) THEN cur(c).current ELSE Nowhere]
Live == {c \in Conns : mode # "direct" /\ main[c] \in {"up", "uncount"}}
Count == IF mode # "direct" THEN used ELSE [s \in Slots |-> 0]

Abs == INSTANCE ConnUse WITH at <- Spot, live <- Live, used <- Count, active <- activeConns

On(s) == {c \in Conns : Spot[c] = s}

(* Only a direct session has a reconnector, and an SRTP session no TURN goroutine. *)
ModeInv ==
  /\ mode # "direct" => \A c \in Conns, g \in Gens : sess[c][g].rec = "none"
  /\ mode = "srtp" => \A c \in Conns, g \in Gens : sess[c][g].turn = "none"

(* A session knows its slot, and a slot's count is the number of its sessions. *)
SlotInv ==
  mode # "direct" =>
    /\ \A c \in Conns : Holding(c) => cur(c).current \in Slots
    /\ \A s \in Slots : used[s] = Cardinality(On(s))

(* An outcome that is owed is in turnDone until the session looks. *)
OwedOK(c) ==
  /\ mode \in {"srtp", "direct"} => owed[c] = "none"
  /\ main[c] \notin {"dial", "failing", "release"} => owed[c] = "none"
  /\ main[c] \in {"dial", "failing"} /\ owed[c] # "none" =>
       cur(c).done = owed[c] /\ cur(c).turn \in {"told", "none"}
  /\ main[c] = "release" => /\ owed[c] = "quota" => told[c] = "saturated"
                            /\ owed[c] = "auth" => told[c] = "invalidated"

OpenOK(c) == open[c] # {} => mode = "srtp" /\ main[c] \in {"dial", "up", "uncount", "close"}

ConnOK(c) ==
  /\ mode = "direct" => main[c] \in Outside \cup {"up", "release"}
  /\ OwedOK(c)
  /\ OpenOK(c)

ConnInv == \A c \in Conns : ConnOK(c)

IInv == Shape /\ ModeInv /\ SlotInv /\ ConnInv

LEMMA InitIInv == Init => IInv
<1> SUFFICES ASSUME Init PROVE IInv
  OBVIOUS
<1>1. Shape
  BY StartRecs, GenRange DEF Init, Shape, AllModes, MainPC
<1>2. ModeInv
  BY StartRecs DEF Init, ModeInv, NoSess
<1>3. \A c \in Conns : ~Holding(c)
  BY DEF Init, Holding
<1>4. \A s \in Slots : On(s) = {}
  BY <1>3 DEF On, Spot
<1>5. SlotInv
  BY <1>3, <1>4, FS_EmptySet DEF SlotInv, Init
<1>6. ConnInv
  BY DEF Init, ConnInv, ConnOK, OwedOK, OpenOK, Outside
<1>7. QED
  BY <1>1, <1>2, <1>5, <1>6 DEF IInv

-----------------------------------------------------------------------------
(* Frames *)

Types ==
  /\ main' \in [Conns -> MainPC]
  /\ activeConns' \in Int
  /\ open' \in [Conns -> SUBSET {"ctl", "client", "relay"}]
  /\ told' \in [Conns -> {"none", "saturated", "invalidated"}]
  /\ owed' \in [Conns -> {"none"} \cup Refusals]

(* The other conns are left alone. *)
Rest(c) ==
  \A b \in Conns : b # c => /\ main'[b] = main[b] /\ open'[b] = open[b]
                            /\ told'[b] = told[b] /\ owed'[b] = owed[b]

(* No conn takes or gives back a slot. *)
SlotsStay ==
  /\ RecordsOK /\ SlotsSame
  /\ UNCHANGED <<mode, gen, used>>
  /\ \A b \in Conns : main'[b] \in Outside <=> main[b] \in Outside

LEMMA SpotFrame ==
  ASSUME Shape, SlotsStay
  PROVE  Spot' = Spot
<1>1. gen \in [Conns -> Gens]
  BY DEF Shape
<1>2. ASSUME NEW b \in Conns
      PROVE  Holding(b)' = Holding(b) /\ cur(b)'.current = cur(b).current
  BY <1>1 DEF Holding, Outside, SlotsStay, SlotsSame, cur
<1>3. QED
  BY <1>2 DEF Spot, SlotsStay

LEMMA SlotFrame ==
  ASSUME Shape, SlotInv, SlotsStay
  PROVE  SlotInv'
<1>1. \A s : On(s)' = On(s)
  BY SpotFrame DEF On
<1>2. gen \in [Conns -> Gens]
  BY DEF Shape
<1>3. ASSUME NEW b \in Conns
      PROVE  Holding(b)' = Holding(b) /\ cur(b)'.current = cur(b).current
  BY <1>2 DEF Holding, Outside, SlotsStay, SlotsSame, cur
<1>4. QED
  BY <1>1, <1>3 DEF SlotInv, SlotsStay

LEMMA ModeFrame ==
  ASSUME ModeInv, SlotsSame, TurnsSame, mode' = mode
  PROVE  ModeInv'
BY DEF ModeInv, SlotsSame, TurnsSame

LEMMA ConnFrame ==
  ASSUME NEW b \in Conns, ConnOK(b), mode' = mode,
         main'[b] = main[b], open'[b] = open[b], told'[b] = told[b], owed'[b] = owed[b],
         cur(b)'.done = cur(b).done, cur(b)'.turn = cur(b).turn
  PROVE  ConnOK(b)'
BY DEF ConnOK, OwedOK, OpenOK

(* A step of conn c that keeps its slot and its outcome. *)
LEMMA QuietFrame ==
  ASSUME IInv, NEW c \in Conns, SlotsStay, TurnsSame, Types, Rest(c), ConnOK(c)'
  PROVE  IInv' /\ Spot' = Spot /\ Count' = Count
<1>1. gen \in [Conns -> Gens] /\ gen' = gen
  BY DEF IInv, Shape, SlotsStay
<1>2. ASSUME NEW b \in Conns
      PROVE  cur(b)'.done = cur(b).done /\ cur(b)'.turn = cur(b).turn
  BY <1>1 DEF cur, TurnsSame
<1>3. ConnInv'
  BY <1>2, ConnFrame DEF IInv, ConnInv, Rest, SlotsStay
<1>4. Shape'
  BY DEF IInv, Shape, Types, SlotsStay, RecordsOK
<1>5. QED
  BY <1>3, <1>4, SpotFrame, SlotFrame, ModeFrame DEF IInv, SlotsStay, Count

-----------------------------------------------------------------------------
(* The steps of a conn that keep its slot *)

(* What they are, for the abstract specification. *)
Stays == Live' = Live /\ activeConns' = activeConns

Moved(c) ==
  /\ IInv' /\ Spot' = Spot /\ Count' = Count
  /\ Stays \/ Abs!Establish(c) \/ Abs!Lose(c)

(* The pc of conn c moves, the records do not. *)
LEMMA SameRecords ==
  ASSUME Shape, sess' = sess
  PROVE  RecordsOK /\ SlotsSame /\ TurnsSame
BY DEF Shape, RecordsOK, SlotsSame, TurnsSame

LEMMA ConnIn ==
  ASSUME IInv, NEW c \in Conns
  PROVE  /\ ConnOK(c) /\ gen[c] \in Gens /\ main[c] \in MainPC /\ mode \in AllModes
         /\ owed[c] \in {"none"} \cup Refusals
BY DEF IInv, ConnInv, Shape

(* A conn that is not outside has a slot. *)
LEMMA HasSpot ==
  ASSUME IInv, NEW c \in Conns, mode # "direct", main[c] \notin Outside
  PROVE  Spot[c] \in Slots /\ Spot[c] # Nowhere /\ Spot[c] = cur(c).current
BY DEF IInv, SlotInv, Spot, Holding, Outside

(* Outside of a session. *)
LEMMA OutsideMoves ==
  ASSUME IInv, NEW c \in Conns,
         \/ \E e \in {"captcha", "other"} : GetFails(c, e)
         \/ LoopEnds(c)
         \/ \E long \in BOOLEAN : BackOff(c, long)
         \/ WakeUp(c)
         \/ SleepCancelled(c)
  PROVE  Moved(c)
<1>1. PICK p \in Outside : main' = [main EXCEPT ![c] = p]
  BY DEF GetFails, LoopEnds, BackOff, WakeUp, SleepCancelled, Outside
<1>2. /\ UNCHANGED <<mode, gen, sess, used, open, activeConns, told, owed>>
      /\ main[c] \in Outside
  BY DEF GetFails, LoopEnds, BackOff, WakeUp, SleepCancelled, history, provVars, Outside
<1>3. Shape
  BY DEF IInv
<1>4. p \in MainPC /\ Outside \subseteq MainPC
  BY DEF Outside, MainPC
<1>5. Types /\ Rest(c) /\ main'[c] = p
  BY <1>1, <1>2, <1>3, <1>4 DEF Types, Rest, Shape
<1>6. SlotsStay /\ TurnsSame
  BY <1>1, <1>2, <1>3, <1>5, SameRecords DEF SlotsStay, Shape
<1>7. ConnOK(c)'
  BY <1>2, <1>5, ConnIn DEF ConnOK, OwedOK, OpenOK, Outside
<1>8. Live' = Live
  BY <1>1, <1>2, <1>3, <1>5 DEF Live, Outside, Shape
<1>9. QED
  BY <1>2, <1>5, <1>6, <1>7, <1>8, QuietFrame DEF Moved, Stays

LEMMA WithinFrame ==
  ASSUME IInv, NEW c \in Conns, NEW p \in MainPC \ Outside, main[c] \notin Outside,
         main' = [main EXCEPT ![c] = p], UNCHANGED <<mode, gen, used>>,
         RecordsOK, SlotsSame, TurnsSame, activeConns' \in Int,
         NEW o \in SUBSET {"ctl", "client", "relay"}, open' = [open EXCEPT ![c] = o],
         NEW t \in {"none", "saturated", "invalidated"}, told' = [told EXCEPT ![c] = t],
         NEW e \in {"none"} \cup Refusals, owed' = [owed EXCEPT ![c] = e],
         ConnOK(c)'
  PROVE  IInv' /\ Spot' = Spot /\ Count' = Count
<1>1. Shape
  BY DEF IInv
<1>2. Types /\ Rest(c)
  BY <1>1 DEF Types, Rest, Shape
<1>3. SlotsStay
  BY <1>1 DEF SlotsStay, Shape
<1>4. QED
  BY <1>2, <1>3, QuietFrame

LEMMA Keeps ==
  ASSUME IInv, NEW c \in Conns
  PROVE  /\ open[c] \in SUBSET {"ctl", "client", "relay"} /\ open = [open EXCEPT ![c] = open[c]]
         /\ told[c] \in {"none", "saturated", "invalidated"} /\ told = [told EXCEPT ![c] = told[c]]
         /\ owed[c] \in {"none"} \cup Refusals /\ owed = [owed EXCEPT ![c] = owed[c]]
         /\ main[c] \in MainPC /\ main = [main EXCEPT ![c] = main[c]]
BY DEF IInv, Shape

(* A conn's session is counted, and counted out. *)
LEMMA CountedIn ==
  ASSUME IInv, NEW c \in Conns, mode # "direct", mode' = mode,
         main[c] \notin Outside \cup {"up", "uncount"}, main' = [main EXCEPT ![c] = "up"],
         activeConns' = activeConns + 1, Spot' = Spot, Count' = Count
  PROVE  Abs!Establish(c)
<1>1. main \in [Conns -> MainPC]
  BY DEF IInv, Shape
<1>2. c \notin Live /\ Live' = Live \cup {c}
  BY <1>1 DEF Live
<1>3. QED
  BY <1>2, HasSpot DEF Abs!Establish

LEMMA CountedOut ==
  ASSUME IInv, NEW c \in Conns, NEW p \in {"close", "release"}, mode # "direct", mode' = mode,
         main[c] = "uncount", main' = [main EXCEPT ![c] = p],
         activeConns' = activeConns - 1, Spot' = Spot, Count' = Count
  PROVE  Abs!Lose(c)
<1>1. main \in [Conns -> MainPC]
  BY DEF IInv, Shape
<1>2. c \in Live /\ Live' = Live \ {c}
  BY <1>1 DEF Live
<1>3. QED
  BY <1>2 DEF Abs!Lose

(* Neither: main moves within the live or within the other states. *)
LEMMA LiveSame ==
  ASSUME IInv, NEW c \in Conns, NEW p, mode' = mode, main' = [main EXCEPT ![c] = p],
         mode # "direct" => (p \in {"up", "uncount"} <=> main[c] \in {"up", "uncount"})
  PROVE  Live' = Live
<1>1. main \in [Conns -> MainPC]
  BY DEF IInv, Shape
<1>2. QED
  BY <1>1 DEF Live

(* A session is established. *)
LEMMA UpMoves ==
  ASSUME IInv, NEW c \in Conns, DtlsUp(c) \/ WrapAUp(c) \/ SrtpUp(c)
  PROVE  Moved(c)
<1>1. /\ main' = [main EXCEPT ![c] = "up"] /\ activeConns' = activeConns + 1
      /\ UNCHANGED <<mode, gen, used, told, owed, sess, open>>
      /\ main[c] \in {"dial", "store"}
  BY DEF DtlsUp, WrapAUp, SrtpUp, Establish, HandshakeDone, history
<1>2. Shape /\ ConnOK(c)
  BY ConnIn DEF IInv
<1>3. mode # "direct" /\ main[c] \notin Outside \cup {"up", "uncount"}
  BY <1>1, <1>2 DEF ConnOK, Outside
<1>4. owed[c] = "none"
  <2>1. CASE WrapAUp(c)
    BY <1>2, <2>1 DEF ConnOK, OwedOK, WrapAUp
  <2>2. CASE DtlsUp(c)
    BY <1>2, <2>2 DEF ConnOK, OwedOK, DtlsUp, HandshakeDone
  <2>3. CASE SrtpUp(c)
    BY <1>2, <2>3 DEF ConnOK, OwedOK, SrtpUp
  <2>4. QED
    BY <2>1, <2>2, <2>3
<1>5. main'[c] = "up"
  BY <1>1, <1>2 DEF Shape
<1>6. open[c] # {} => mode = "srtp"
  BY <1>2 DEF ConnOK, OpenOK
<1>7. ConnOK(c)'
  BY <1>1, <1>3, <1>4, <1>5, <1>6 DEF ConnOK, OwedOK, OpenOK
<1>8. RecordsOK /\ SlotsSame /\ TurnsSame
  BY <1>1, <1>2, SameRecords
<1>9. activeConns' \in Int
  BY <1>1, <1>2 DEF Shape
<1>10. "up" \in MainPC \ Outside
  BY DEF MainPC, Outside
<1>11. IInv' /\ Spot' = Spot /\ Count' = Count
  BY <1>1, <1>3, <1>7, <1>8, <1>9, <1>10, Keeps, WithinFrame
<1>12. QED
  BY <1>1, <1>3, <1>11, CountedIn DEF Moved

LEMMA UncountMoves ==
  ASSUME IInv, NEW c \in Conns, Uncount(c)
  PROVE  Moved(c)
<1>1. PICK p \in {"close", "release"} :
        main' = [main EXCEPT ![c] = p] /\ (mode = "srtp" => p = "close")
  BY DEF Uncount
<1>2. /\ activeConns' = activeConns - 1
      /\ UNCHANGED <<mode, gen, used, told, owed, sess, open>>
      /\ main[c] = "uncount"
  BY DEF Uncount, history
<1>3. Shape /\ ConnOK(c)
  BY ConnIn DEF IInv
<1>4. mode # "direct" /\ owed[c] = "none"
  BY <1>2, <1>3 DEF ConnOK, OwedOK, Outside
<1>5. main'[c] = p
  BY <1>1, <1>3 DEF Shape
<1>6. ConnOK(c)'
  BY <1>1, <1>2, <1>3, <1>4, <1>5 DEF ConnOK, OwedOK, OpenOK
<1>7. RecordsOK /\ SlotsSame /\ TurnsSame
  BY <1>2, <1>3, SameRecords
<1>8. activeConns' \in Int
  BY <1>2, <1>3 DEF Shape
<1>9. p \in MainPC \ Outside /\ main[c] \notin Outside
  BY <1>2 DEF MainPC, Outside
<1>10. IInv' /\ Spot' = Spot /\ Count' = Count
  BY <1>1, <1>2, <1>6, <1>7, <1>8, <1>9, Keeps, WithinFrame
<1>11. QED
  BY <1>1, <1>2, <1>4, <1>10, CountedOut DEF Moved

LEMMA StayFrame ==
  ASSUME IInv, NEW c \in Conns, NEW p \in MainPC \ Outside, main[c] \notin Outside,
         main' = [main EXCEPT ![c] = p], UNCHANGED <<mode, gen, used, activeConns>>,
         mode # "direct" => (p \in {"up", "uncount"} <=> main[c] \in {"up", "uncount"}),
         RecordsOK, SlotsSame, TurnsSame,
         NEW o \in SUBSET {"ctl", "client", "relay"}, open' = [open EXCEPT ![c] = o],
         NEW t \in {"none", "saturated", "invalidated"}, told' = [told EXCEPT ![c] = t],
         NEW e \in {"none"} \cup Refusals, owed' = [owed EXCEPT ![c] = e],
         ConnOK(c)'
  PROVE  Moved(c)
<1>1. activeConns' \in Int
  BY DEF IInv, Shape
<1>2. IInv' /\ Spot' = Spot /\ Count' = Count
  BY <1>1, WithinFrame
<1>3. Live' = Live
  BY LiveSame
<1>4. QED
  BY <1>2, <1>3 DEF Moved, Stays

(* The handshake of a DTLS or WRAP-A session. *)
LEMMA DialMoves ==
  ASSUME IInv, NEW c \in Conns,
         WrapADialled(c) \/ DialFails(c) \/ GetconfFails(c) \/ GetconfOk(c)
  PROVE  Moved(c)
<1>1. Shape /\ ConnOK(c) /\ gen[c] \in Gens
  BY ConnIn DEF IInv
<1>2. {"failing", "getconf", "release", "store"} \subseteq MainPC \ Outside
  BY DEF MainPC, Outside
<1>3. CASE WrapADialled(c)
  <2>1. /\ main' = [main EXCEPT ![c] = "getconf"] /\ main[c] = "dial" /\ mode = "wrapa"
        /\ UNCHANGED <<mode, gen, used, activeConns, told, owed, sess, open>>
        /\ cur(c).turn = "both"
    BY <1>3 DEF WrapADialled, HandshakeDone, history
  <2>2. main'[c] = "getconf"
    BY <1>1, <2>1 DEF Shape
  <2>3. owed[c] = "none" /\ open[c] = {}
    BY <1>1, <2>1 DEF ConnOK, OwedOK, OpenOK
  <2>4. ConnOK(c)'
    BY <2>1, <2>2, <2>3 DEF ConnOK, OwedOK, OpenOK
  <2>5. RecordsOK /\ SlotsSame /\ TurnsSame
    BY <1>1, <2>1, SameRecords
  <2>6. main[c] \notin Outside
    BY <2>1 DEF Outside
  <2>7. QED
    BY <1>2, <2>1, <2>4, <2>5, <2>6, Keeps, StayFrame
<1>4. CASE DialFails(c)
  <2>1. /\ main' = [main EXCEPT ![c] = "failing"] /\ main[c] = "dial" /\ mode \in {"dtls", "wrapa"}
        /\ UNCHANGED <<mode, gen, used, activeConns, told, open>>
        /\ CtxCut(c, gen[c])
    BY <1>4 DEF DialFails, CtxCut
  <2>2. PICK e \in {owed[c], "none"} : owed' = [owed EXCEPT ![c] = e]
    BY <1>4 DEF DialFails
  <2>3. main'[c] = "failing" /\ owed'[c] = e
    BY <1>1, <2>1, <2>2 DEF Shape
  <2>4. RecordsOK /\ SlotsSame /\ TurnsSame
    BY <1>1, <2>1, CtxStep
  <2>5. cur(c)'.done = cur(c).done /\ cur(c)'.turn = cur(c).turn
    BY <1>1, <2>1, <2>4 DEF TurnsSame, cur
  <2>6. ConnOK(c)'
    BY <1>1, <2>1, <2>2, <2>3, <2>5 DEF ConnOK, OwedOK, OpenOK
  <2>7. main[c] \notin Outside
    BY <2>1 DEF Outside
  <2>8. e \in {"none"} \cup Refusals
    BY <2>2, ConnIn
  <2>9. QED
    BY <1>2, <2>1, <2>2, <2>4, <2>6, <2>7, <2>8, Keeps, StayFrame
<1>5. CASE GetconfFails(c)
  <2>1. /\ main' = [main EXCEPT ![c] = "release"] /\ main[c] \in {"dial", "getconf"} /\ mode = "wrapa"
        /\ UNCHANGED <<mode, gen, used, activeConns, told, sess, open>>
        /\ owed' = [owed EXCEPT ![c] = "none"]
    BY <1>5 DEF GetconfFails
  <2>2. main'[c] = "release" /\ owed'[c] = "none"
    BY <1>1, <2>1 DEF Shape
  <2>3. open[c] = {}
    BY <1>1, <2>1 DEF ConnOK, OpenOK
  <2>4. ConnOK(c)'
    BY <2>1, <2>2, <2>3 DEF ConnOK, OwedOK, OpenOK
  <2>5. RecordsOK /\ SlotsSame /\ TurnsSame
    BY <1>1, <2>1, SameRecords
  <2>6. main[c] \notin Outside
    BY <2>1 DEF Outside
  <2>7. QED
    BY <1>2, <2>1, <2>4, <2>5, <2>6, Keeps, StayFrame
<1>6. CASE GetconfOk(c)
  <2>1. /\ main' = [main EXCEPT ![c] = "store"] /\ main[c] = "getconf"
        /\ UNCHANGED <<mode, gen, used, activeConns, told, owed, sess, open>>
    BY <1>6 DEF GetconfOk, history
  <2>2. main'[c] = "store"
    BY <1>1, <2>1 DEF Shape
  <2>3. owed[c] = "none" /\ open[c] = {} /\ mode # "direct"
    BY <1>1, <2>1 DEF ConnOK, OwedOK, OpenOK, Outside
  <2>4. ConnOK(c)'
    BY <2>1, <2>2, <2>3 DEF ConnOK, OwedOK, OpenOK
  <2>5. RecordsOK /\ SlotsSame /\ TurnsSame
    BY <1>1, <2>1, SameRecords
  <2>6. main[c] \notin Outside
    BY <2>1 DEF Outside
  <2>7. QED
    BY <1>2, <2>1, <2>4, <2>5, <2>6, Keeps, StayFrame
<1>7. QED
  BY <1>3, <1>4, <1>5, <1>6

(* The steps of setupSRTPSession and Close. *)
LEMMA SrtpMoves ==
  ASSUME IInv, NEW c \in Conns,
         \/ \E r \in DOMAIN SrtpOrder : SrtpOpen(c, r)
         \/ \E e \in Refusals : SrtpFails(c, e)
         \/ SrtpClose(c)
  PROVE  Moved(c)
<1>1. Shape /\ ConnOK(c)
  BY ConnIn DEF IInv
<1>2. main[c] \in {"dial", "up", "close"} /\ mode = "srtp"
  BY DEF SrtpOpen, SrtpFails, SrtpClose
<1>3. owed[c] = "none"
  BY <1>1, <1>2 DEF ConnOK, OwedOK
<1>4. UNCHANGED <<mode, gen, used, activeConns, owed, sess>>
  BY DEF SrtpOpen, SrtpFails, SrtpClose, history
<1>5. RecordsOK /\ SlotsSame /\ TurnsSame
  BY <1>1, <1>4, SameRecords
<1>6. main[c] \notin Outside /\ {"dial", "up", "release"} \subseteq MainPC \ Outside
  BY <1>2 DEF Outside, MainPC
<1>7. ASSUME NEW r \in DOMAIN SrtpOrder, SrtpOpen(c, r)
      PROVE  Moved(c)
  <2>1. PICK o \in SUBSET {"ctl", "client", "relay"} : open' = [open EXCEPT ![c] = o]
    <3>1. open[c] \in SUBSET {"ctl", "client", "relay"} /\ r \in {"ctl", "client", "relay"}
      BY <1>1 DEF Shape, SrtpOrder
    <3>2. open' = [open EXCEPT ![c] = open[c] \cup {r}]
      BY <1>7 DEF SrtpOpen
    <3>3. QED
      BY <3>1, <3>2
  <2>2. main' = main /\ told' = told /\ main[c] = "dial"
    BY <1>7 DEF SrtpOpen, history
  <2>3. ConnOK(c)'
    BY <1>2, <1>3, <1>4, <2>2 DEF ConnOK, OwedOK, OpenOK
  <2>4. QED
    BY <1>4, <1>5, <1>6, <2>1, <2>2, <2>3, Keeps, StayFrame
<1>8. ASSUME NEW e \in Refusals, SrtpFails(c, e)
      PROVE  Moved(c)
  <2>1. PICK t \in {"none", "saturated", "invalidated"} : told' = [told EXCEPT ![c] = t]
    BY <1>8 DEF SrtpFails, Tell
  <2>2. /\ main' = [main EXCEPT ![c] = "release"] /\ main[c] = "dial"
        /\ open' = [open EXCEPT ![c] = {}]
    BY <1>8 DEF SrtpFails
  <2>3. main'[c] = "release" /\ open'[c] = {}
    BY <1>1, <2>2 DEF Shape
  <2>4. ConnOK(c)'
    BY <1>2, <1>3, <1>4, <2>3 DEF ConnOK, OwedOK, OpenOK
  <2>5. QED
    BY <1>4, <1>5, <1>6, <2>1, <2>2, <2>4, Keeps, StayFrame
<1>9. ASSUME SrtpClose(c)
      PROVE  Moved(c)
  <2>1. open' = [open EXCEPT ![c] = {}] /\ told' = told
    BY <1>9 DEF SrtpClose, history
  <2>2. PICK p \in {"up", "release"} :
          /\ main' = [main EXCEPT ![c] = p]
          /\ p = "up" <=> main[c] = "up"
          /\ main[c] \in {"up", "close"}
    BY <1>9, Keeps DEF SrtpClose
  <2>3. main'[c] = p /\ open'[c] = {}
    BY <1>1, <2>1, <2>2 DEF Shape
  <2>4. ConnOK(c)'
    BY <1>2, <1>3, <1>4, <2>3 DEF ConnOK, OwedOK, OpenOK
  <2>5. QED
    BY <1>4, <1>5, <1>6, <2>1, <2>2, <2>4, Keeps, StayFrame
<1>10. QED
  BY <1>7, <1>8, <1>9

(* The pumps of an established session. *)
LEMMA PumpMoves ==
  ASSUME IInv, NEW c \in Conns,
         \/ ProbeKills(c) \/ SenderEnds(c)
         \/ ReceiverReads(c) \/ ReceiverDelivers(c) \/ ReceiverEnds(c)
  PROVE  IInv' /\ Spot' = Spot /\ Count' = Count /\ Stays
<1>1. Shape /\ ConnOK(c) /\ gen[c] \in Gens
  BY ConnIn DEF IInv
<1>2. UNCHANGED <<mode, main, gen, used, activeConns, open, told, owed>>
  BY DEF ProbeKills, SenderEnds, ReceiverReads, ReceiverDelivers, ReceiverEnds, history
<1>3. CtxCut(c, gen[c]) \/ sess' = sess
  BY DEF ProbeKills, SenderEnds, ReceiverReads, ReceiverDelivers, ReceiverEnds, CtxCut
<1>4. RecordsOK /\ SlotsSame /\ TurnsSame
  BY <1>1, <1>3, CtxStep, SameRecords
<1>5. cur(c)'.done = cur(c).done /\ cur(c)'.turn = cur(c).turn
  BY <1>1, <1>2, <1>4 DEF TurnsSame, cur
<1>6. ConnOK(c)'
  BY <1>1, <1>2, <1>5, ConnFrame
<1>7. Types /\ Rest(c) /\ SlotsStay
  BY <1>1, <1>2, <1>4 DEF Types, Rest, SlotsStay, Shape
<1>8. Live' = Live
  BY <1>2 DEF Live
<1>9. QED
  BY <1>2, <1>4, <1>6, <1>7, <1>8, QuietFrame DEF Stays

(* The session's goroutines are joined. *)
LEMMA JoinMoves ==
  ASSUME IInv, NEW c \in Conns, Joined(c)
  PROVE  Moved(c)
<1>1. Shape /\ ConnOK(c)
  BY ConnIn DEF IInv
<1>2. PICK p \in {"release", "uncount"} :
        main' = [main EXCEPT ![c] = p] /\ (p = "release" <=> mode = "direct")
  BY DEF Joined
<1>3. UNCHANGED <<mode, gen, used, activeConns, open, told, owed, sess>> /\ main[c] = "up"
  BY DEF Joined, history
<1>4. main'[c] = p
  BY <1>1, <1>2 DEF Shape
<1>5. ConnOK(c)'
  BY <1>1, <1>2, <1>3, <1>4 DEF ConnOK, OwedOK, OpenOK, Outside
<1>6. RecordsOK /\ SlotsSame /\ TurnsSame
  BY <1>1, <1>3, SameRecords
<1>7. p \in MainPC \ Outside /\ main[c] \notin Outside
  BY <1>3 DEF MainPC, Outside
<1>8. QED
  BY <1>2, <1>3, <1>5, <1>6, <1>7, Keeps, StayFrame

(* The session looks at turnDone. *)
LEMMA CheckMoves ==
  ASSUME IInv, NEW c \in Conns, CheckTurnDone(c)
  PROVE  Moved(c)
<1>1. Shape /\ ConnOK(c) /\ gen[c] \in Gens /\ gen \in [Conns -> Gens]
  BY ConnIn DEF IInv, Shape
<1>2. /\ main' = [main EXCEPT ![c] = "release"] /\ main[c] = "failing"
      /\ sess' = [sess EXCEPT ![c][gen[c]].done = "none"]
      /\ UNCHANGED <<mode, gen, used, activeConns, open, owed>>
      /\ Tell(c, cur(c).done)
  BY DEF CheckTurnDone
<1>3. RecordsOK /\ SlotsSame /\ OnlyRecord(c, gen[c]) /\ sess'[c][gen[c]].turn = sess[c][gen[c]].turn
  BY <1>1, <1>2, DoneStep
<1>4. told' \in [Conns -> {"none", "saturated", "invalidated"}]
  BY <1>1, <1>2 DEF Tell, Shape
<1>5. /\ cur(c).done = "quota" => told'[c] = "saturated"
      /\ cur(c).done = "auth" => told'[c] = "invalidated"
      /\ \A b \in Conns : b # c => told'[b] = told[b]
  BY <1>1, <1>2 DEF Tell, Shape
<1>6. main'[c] = "release" /\ main' \in [Conns -> MainPC] /\ \A b \in Conns : b # c => main'[b] = main[b]
  BY <1>1, <1>2 DEF Shape, MainPC
<1>7. ConnOK(c)'
  BY <1>1, <1>2, <1>5, <1>6 DEF ConnOK, OwedOK, OpenOK, Outside
<1>8. ASSUME NEW b \in Conns, b # c PROVE ConnOK(b)'
  <2>1. cur(b)' = cur(b)
    BY <1>1, <1>2, <1>3, <1>8 DEF OnlyRecord, cur
  <2>2. ConnOK(b)
    BY ConnIn
  <2>3. QED
    BY <1>2, <1>5, <1>6, <1>8, <2>1, <2>2, ConnFrame
<1>9. ModeInv'
  BY <1>2, <1>3 DEF IInv, ModeInv, SlotsSame, OnlyRecord
<1>10. SlotsStay
  BY <1>2, <1>3, <1>6 DEF SlotsStay, Outside
<1>11. Shape'
  BY <1>1, <1>2, <1>3, <1>4, <1>6 DEF Shape, RecordsOK
<1>12. IInv' /\ Spot' = Spot /\ Count' = Count
  BY <1>1, <1>2, <1>7, <1>8, <1>9, <1>10, <1>11, SpotFrame, SlotFrame DEF IInv, ConnInv, Count
<1>13. Live' = Live
  BY <1>2, LiveSame
<1>14. QED
  BY <1>2, <1>12, <1>13 DEF Moved, Stays

-----------------------------------------------------------------------------
(* The goroutines a session leaves running *)

LEMMA TurnFrame ==
  ASSUME IInv, NEW c \in Conns, NEW g \in Gens, mode # "srtp",
         RecordsOK, SlotsSame, OnlyRecord(c, g),
         UNCHANGED <<mode, main, gen, open, used, activeConns, told>>,
         owed' \in [Conns -> {"none"} \cup Refusals],
         \A b \in Conns : b # c => owed'[b] = owed[b],
         g # gen[c] => owed'[c] = owed[c],
         g = gen[c] => ConnOK(c)'
  PROVE  IInv' /\ Spot' = Spot /\ Count' = Count /\ Stays
<1>1. Shape /\ gen \in [Conns -> Gens]
  BY DEF IInv, Shape
<1>2. ASSUME NEW b \in Conns PROVE ConnOK(b)'
  <2>1. CASE b = c /\ g = gen[c]
    BY <2>1
  <2>2. CASE b # c \/ g # gen[c]
    <3>1. cur(b)' = cur(b)
      BY <1>1, <2>2 DEF OnlyRecord, cur
    <3>2. ConnOK(b)
      BY ConnIn
    <3>3. QED
      BY <2>2, <3>1, <3>2, ConnFrame
  <2>3. QED
    BY <2>1, <2>2
<1>3. ModeInv'
  BY DEF IInv, ModeInv, SlotsSame
<1>4. SlotsStay
  BY DEF SlotsStay
<1>5. Shape'
  BY <1>1 DEF Shape, RecordsOK
<1>6. Live' = Live
  BY DEF Live
<1>7. QED
  BY <1>1, <1>2, <1>3, <1>4, <1>5, <1>6, SpotFrame, SlotFrame DEF IInv, ConnInv, Count, Stays

LEMMA TurnSteps ==
  ASSUME IInv, NEW c \in Conns, NEW g \in Gens, TurnGoroutine(c, g)
  PROVE  IInv' /\ Spot' = Spot /\ Count' = Count /\ Stays
<1>1. Shape /\ ConnOK(c) /\ gen[c] \in Gens /\ gen \in [Conns -> Gens]
  BY ConnIn DEF IInv, Shape
<1>2. owed \in [Conns -> {"none"} \cup Refusals]
  BY <1>1 DEF Shape
<1>3. sess[c][g].turn # "none" => mode # "srtp"
  BY DEF IInv, ModeInv
<1>4. ASSUME NEW f \in {"allocating", "both"}, NEW t \in {"both", "one"}, TurnStep(c, g, f, t)
      PROVE  IInv' /\ Spot' = Spot /\ Count' = Count /\ Stays
  <2>1. /\ RecordsOK /\ SlotsSame /\ OnlyRecord(c, g)
        /\ sess'[c][g].turn = t /\ sess'[c][g].done = sess[c][g].done
    BY <1>1, <1>4, TurnMoves
  <2>2. /\ UNCHANGED <<mode, main, gen, open, used, activeConns, told, owed>>
        /\ sess[c][g].turn = f
    BY <1>4 DEF TurnStep, history
  <2>3. ASSUME g = gen[c] PROVE ConnOK(c)'
    <3>1. main[c] \in {"dial", "failing"} => owed[c] = "none"
      BY <1>1, <2>2, <2>3 DEF ConnOK, OwedOK, cur
    <3>2. QED
      BY <1>1, <2>2, <3>1 DEF ConnOK, OwedOK, OpenOK
  <2>4. QED
    BY <1>2, <1>3, <2>1, <2>2, <2>3, TurnFrame
<1>5. ASSUME NEW f \in {"allocating", "one"}, NEW o \in {"nil"} \cup Refusals, TurnEnds(c, g, f, o),
             \/ owed' = owed
             \/ o \in Refusals /\ owed' = [owed EXCEPT ![c] = IF g = gen[c] /\ main[c] = "dial" THEN o ELSE @]
      PROVE  IInv' /\ Spot' = Spot /\ Count' = Count /\ Stays
  <2>1. /\ RecordsOK /\ SlotsSame /\ OnlyRecord(c, g)
        /\ sess'[c][g].turn \in {"none", "told"}
        /\ mode # "direct" => sess'[c][g].done = o
    BY <1>1, <1>5, TurnFinishes
  <2>2. /\ UNCHANGED <<mode, main, gen, open, used, activeConns, told>>
        /\ sess[c][g].turn = f
    BY <1>5 DEF TurnEnds
  <2>3. /\ owed' \in [Conns -> {"none"} \cup Refusals]
        /\ \A b \in Conns : b # c => owed'[b] = owed[b]
        /\ g # gen[c] => owed'[c] = owed[c]
        /\ owed'[c] = owed[c] \/ (owed'[c] = o /\ main[c] = "dial")
    BY <1>2, <1>5
  <2>4. ASSUME g = gen[c] PROVE ConnOK(c)'
    <3>1. main[c] \in {"dial", "failing"} => owed[c] = "none" /\ mode # "direct"
      BY <1>1, <2>2, <2>4 DEF ConnOK, OwedOK, cur, Outside
    <3>2. cur(c)' = sess'[c][g]
      BY <2>2, <2>4 DEF cur
    <3>3. mode # "srtp"
      BY <1>3, <2>2
    <3>4. OwedOK(c)'
      BY <1>1, <2>1, <2>2, <2>3, <3>1, <3>2, <3>3 DEF ConnOK, OwedOK
    <3>5. QED
      BY <1>1, <2>2, <3>4 DEF ConnOK, OpenOK
  <2>5. QED
    BY <1>3, <2>1, <2>2, <2>3, <2>4, TurnFrame
<1>6. CASE TurnCancels(c, g)
  <2>1. /\ RecordsOK /\ SlotsSame /\ OnlyRecord(c, g)
        /\ sess'[c][g].turn = "none"
        /\ sess[c][g].current # Nowhere => sess'[c][g].done = sess[c][g].done
    BY <1>1, <1>6, TurnGoes
  <2>2. /\ UNCHANGED <<mode, main, gen, open, used, activeConns, told, owed>>
        /\ sess[c][g].turn = "told"
    BY <1>6 DEF TurnCancels, history
  <2>3. ASSUME g = gen[c] PROVE ConnOK(c)'
    <3>1. ASSUME main[c] \in {"dial", "failing"} PROVE cur(c).current # Nowhere
      <4>1. mode # "direct" /\ main[c] \notin Outside
        BY <1>1, <3>1 DEF ConnOK, Outside
      <4>2. QED
        BY <4>1, HasSpot
    <3>2. cur(c)' = sess'[c][g] /\ cur(c) = sess[c][g]
      BY <2>2, <2>3 DEF cur
    <3>3. QED
      BY <1>1, <2>1, <2>2, <3>1, <3>2 DEF ConnOK, OwedOK, OpenOK
  <2>4. QED
    BY <1>2, <1>3, <2>1, <2>2, <2>3, TurnFrame
<1>7. CASE Allocated(c, g) \/ PumpFails(c, g) \/ PumpCancelled(c, g)
  BY <1>4, <1>7 DEF Allocated, PumpFails, PumpCancelled
<1>8. ASSUME NEW e \in Refusals, AllocFails(c, g, e)
      PROVE  IInv' /\ Spot' = Spot /\ Count' = Count /\ Stays
  BY <1>5, <1>8 DEF AllocFails
<1>9. CASE PumpsJoin(c, g)
  BY <1>5, <1>9 DEF PumpsJoin
<1>10. QED
  BY <1>6, <1>7, <1>8, <1>9 DEF TurnGoroutine

(* The reconnector of a direct session, which has no part in the mapping. *)
LEMMA RecSteps ==
  ASSUME IInv, NEW c \in Conns, NEW g \in Gens, Reconnector(c, g)
  PROVE  IInv' /\ Spot' = Spot /\ Count' = Count /\ Stays
<1>1. Shape
  BY DEF IInv
<1>2. /\ sess[c][g].rec # "none" /\ RecordsOK /\ used' \in [Slots -> Int]
      /\ UNCHANGED <<mode, main, gen, open, activeConns, told, owed>>
  BY <1>1, RecMoves
<1>3. mode = "direct"
  BY <1>2 DEF IInv, ModeInv
<1>4. Shape'
  BY <1>1, <1>2 DEF Shape, RecordsOK
<1>5. ModeInv' /\ SlotInv'
  BY <1>2, <1>3 DEF ModeInv, SlotInv
<1>6. ConnInv'
  BY <1>2, <1>3 DEF IInv, ConnInv, ConnOK, OwedOK, OpenOK
<1>7. Spot' = Spot /\ Count' = Count /\ Live' = Live
  BY <1>2, <1>3 DEF Spot, Count, Live
<1>8. QED
  BY <1>2, <1>4, <1>5, <1>6, <1>7 DEF IInv, Stays

(* The rest of the process. *)
LEMMA OtherSteps ==
  ASSUME IInv, WaiterReturns \/ ReceivePacket \/ SessionCancelled
  PROVE  IInv' /\ Spot' = Spot /\ Count' = Count /\ Stays
<1>1. Shape /\ gen \in [Conns -> Gens]
  BY DEF IInv, Shape
<1>2. UNCHANGED <<mode, main, gen, used, activeConns, open, told, owed>>
  BY DEF WaiterReturns, ReceivePacket, SessionCancelled, history
<1>3. RecordsOK /\ SlotsSame /\ TurnsSame
  <2>1. CASE SessionCancelled
    BY <1>1, <2>1, CancelStep DEF SessionCancelled
  <2>2. CASE WaiterReturns \/ ReceivePacket
    BY <1>1, <2>2, SameRecords DEF WaiterReturns, ReceivePacket
  <2>3. QED
    BY <2>1, <2>2
<1>4. SlotsStay
  BY <1>2, <1>3 DEF SlotsStay
<1>5. ConnInv'
  <2>1. ASSUME NEW b \in Conns PROVE ConnOK(b)'
    <3>1. cur(b)'.done = cur(b).done /\ cur(b)'.turn = cur(b).turn
      BY <1>1, <1>2, <1>3 DEF cur, TurnsSame
    <3>2. ConnOK(b)
      BY ConnIn
    <3>3. QED
      BY <1>2, <3>1, <3>2, ConnFrame
  <2>2. QED
    BY <2>1 DEF ConnInv
<1>6. Shape'
  BY <1>1, <1>2, <1>3 DEF Shape, RecordsOK
<1>7. Live' = Live
  BY <1>2 DEF Live
<1>8. QED
  BY <1>2, <1>3, <1>4, <1>5, <1>6, <1>7, SpotFrame, SlotFrame, ModeFrame DEF IInv, Count, Stays

-----------------------------------------------------------------------------
(* A slot is taken and given back *)

LEMMA OnFinite ==
  ASSUME NEW s
  PROVE  IsFiniteSet(On(s)) /\ IsFiniteSet(On(s)')
BY FS_Subset DEF On

LEMMA TakeMoves ==
  ASSUME IInv, NEW c \in Conns, NEW s \in Slots, NEW q \in Rec, NEW pc \in {"dial", "up"},
         Take(c, s, q, pc), q.done = "none",
         pc = "up" <=> mode = "direct",
         mode # "direct" => q.rec = "none",
         mode = "srtp" => q.turn = "none"
  PROVE  /\ IInv' /\ Live' = Live /\ activeConns' = activeConns
         /\ \/ Abs!Acquire(c, s)
            \/ Spot' = Spot /\ Count' = Count
<1>1. Shape /\ ConnOK(c) /\ gen \in [Conns -> Gens] /\ main \in [Conns -> MainPC]
  BY ConnIn DEF IInv, Shape
<1> DEFINE g == (gen[c] + 1) % Incarnations
<1>2. /\ RecordsOK /\ OnlyRecord(c, g)
      /\ g \in Gens /\ gen' = [gen EXCEPT ![c] = g]
      /\ sess'[c][g].current = s /\ sess'[c][g].rec = q.rec
      /\ sess'[c][g].turn = q.turn /\ sess'[c][g].done = "none"
  BY <1>1, TakeStep
<1> HIDE DEF g
<1>3. /\ main[c] = "idle" /\ main' = [main EXCEPT ![c] = pc]
      /\ used' = [used EXCEPT ![s] = used[s] + 1]
      /\ UNCHANGED <<mode, open, activeConns, told, owed>>
  BY DEF Take, history
<1>4. main'[c] = pc /\ main' \in [Conns -> MainPC] /\ \A b \in Conns : b # c => main'[b] = main[b]
  BY <1>1, <1>3 DEF MainPC
<1>5. gen'[c] = g /\ gen' \in [Conns -> Gens] /\ \A b \in Conns : b # c => gen'[b] = gen[b]
  BY <1>1, <1>2
<1>6. \A b \in Conns : b # c => cur(b)' = cur(b)
  BY <1>1, <1>2, <1>5 DEF OnlyRecord, cur
<1>7. cur(c)' = sess'[c][g]
  BY <1>5 DEF cur
<1>8. Shape'
  <2>1. used' \in [Slots -> Int]
    BY <1>1, <1>3 DEF Shape
  <2>2. QED
    BY <1>1, <1>2, <1>3, <1>4, <1>5, <2>1 DEF Shape, RecordsOK
<1>9. ModeInv'
  <2>1. ASSUME NEW b \in Conns, NEW h \in Gens
        PROVE  /\ mode # "direct" => sess'[b][h].rec = "none"
               /\ mode = "srtp" => sess'[b][h].turn = "none"
    <3>1. CASE b = c /\ h = g
      BY <1>2, <3>1
    <3>2. CASE b # c \/ h # g
      BY <1>2, <3>2 DEF OnlyRecord, IInv, ModeInv
    <3>3. QED
      BY <3>1, <3>2
  <2>2. QED
    BY <1>3, <2>1 DEF ModeInv
<1>10. ConnInv'
  <2>1. owed[c] = "none" /\ open[c] = {}
    BY <1>1, <1>3 DEF ConnOK, OwedOK, OpenOK
  <2>2. ConnOK(c)'
    BY <1>3, <1>4, <2>1 DEF ConnOK, OwedOK, OpenOK, Outside
  <2>3. ASSUME NEW b \in Conns, b # c PROVE ConnOK(b)'
    <3>1. ConnOK(b)
      BY ConnIn
    <3>2. QED
      BY <1>3, <1>4, <1>6, <2>3, <3>1, ConnFrame
  <2>4. QED
    BY <2>2, <2>3 DEF ConnInv
<1>11. Live' = Live
  BY <1>3, LiveSame
<1>12. CASE mode = "direct"
  <2>1. SlotInv' /\ Spot' = Spot /\ Count' = Count
    BY <1>3, <1>12 DEF SlotInv, Spot, Count
  <2>2. QED
    BY <1>3, <1>8, <1>9, <1>10, <1>11, <2>1 DEF IInv
<1>13. CASE mode # "direct"
  <2>1. ~Holding(c) /\ Holding(c)'
    BY <1>3, <1>4, <1>13 DEF Holding
  <2>2. \A b \in Conns : b # c => Holding(b)' = Holding(b)
    BY <1>4 DEF Holding
  <2>3. cur(c)'.current = s
    BY <1>2, <1>7
  <2>4. Spot[c] = Nowhere /\ Spot'[c] = s /\ \A b \in Conns : b # c => Spot'[b] = Spot[b]
    BY <1>3, <1>6, <1>13, <2>1, <2>2, <2>3 DEF Spot
  <2>5. Spot' = [Spot EXCEPT ![c] = s]
    BY <2>4 DEF Spot
  <2>6. On(s)' = On(s) \cup {c} /\ c \notin On(s)
    BY <2>4 DEF On
  <2>7. \A t \in Slots : t # s => On(t)' = On(t)
    BY <2>4 DEF On
  <2>8. Cardinality(On(s)') = Cardinality(On(s)) + 1
    <3>1. IsFiniteSet(On(s))
      BY OnFinite
    <3>2. Cardinality(On(s) \cup {c}) = Cardinality(On(s)) + 1
      BY <2>6, <3>1, FS_AddElement
    <3>3. QED
      BY <2>6, <3>2
  <2>9. used \in [Slots -> Int] /\ \A t \in Slots : used[t] = Cardinality(On(t))
    BY <1>1, <1>13 DEF Shape, IInv, SlotInv
  <2>10. \A t \in Slots : used'[t] = Cardinality(On(t)')
    BY <1>3, <2>7, <2>8, <2>9
  <2>11. ASSUME NEW b \in Conns, Holding(b)' PROVE cur(b)'.current \in Slots
    <3>1. CASE b = c
      BY <2>3, <3>1
    <3>2. CASE b # c
      BY <1>6, <1>13, <2>2, <2>11, <3>2 DEF IInv, SlotInv
    <3>3. QED
      BY <3>1, <3>2
  <2>12. SlotInv'
    BY <2>10, <2>11 DEF SlotInv
  <2>13. Count' = [Count EXCEPT ![s] = Count[s] + 1]
    BY <1>3, <1>13 DEF Count
  <2>14. Abs!Acquire(c, s)
    BY <1>3, <1>11, <2>4, <2>5, <2>13 DEF Abs!Acquire
  <2>15. QED
    BY <1>3, <1>8, <1>9, <1>10, <1>11, <2>12, <2>14 DEF IInv
<1>14. QED
  BY <1>12, <1>13

LEMMA StartMoves ==
  ASSUME IInv, NEW c \in Conns, NEW s \in Slots,
         StartDtls(c, s) \/ StartWrapA(c, s) \/ StartSrtp(c, s) \/ StartDirect(c, s)
  PROVE  /\ IInv' /\ Live' = Live /\ activeConns' = activeConns
         /\ \/ Abs!Acquire(c, s)
            \/ Spot' = Spot /\ Count' = Count
<1> DEFINE q == [NoSess EXCEPT !.turn = "allocating"]
           d == [NoSess EXCEPT !.turn = "allocating", !.rec = "watch"]
<1>1. /\ q \in Rec /\ q.rec = "none" /\ q.done = "none"
      /\ d \in Rec /\ d.done = "none"
  BY StartRecs
<1>2. NoSess \in Rec /\ NoSess.rec = "none" /\ NoSess.done = "none" /\ NoSess.turn = "none"
  BY StartRecs DEF NoSess
<1>3. \/ mode \in {"dtls", "wrapa"} /\ Take(c, s, q, "dial")
      \/ mode = "srtp" /\ Take(c, s, NoSess, "dial")
      \/ mode = "direct" /\ Take(c, s, d, "up")
  BY DEF StartDtls, StartWrapA, StartSrtp, StartDirect
<1> HIDE DEF q, d
<1>4. CASE mode \in {"dtls", "wrapa"} /\ Take(c, s, q, "dial")
  BY <1>1, <1>4, TakeMoves
<1>5. CASE mode = "srtp" /\ Take(c, s, NoSess, "dial")
  BY <1>2, <1>5, TakeMoves
<1>6. CASE mode = "direct" /\ Take(c, s, d, "up")
  BY <1>1, <1>6, TakeMoves
<1>7. QED
  BY <1>3, <1>4, <1>5, <1>6

LEMMA LeaveMoves ==
  ASSUME IInv, NEW c \in Conns, Leave(c)
  PROVE  /\ IInv' /\ Live' = Live /\ activeConns' = activeConns
         /\ \/ Abs!Release(c)
            \/ Spot' = Spot /\ Count' = Count
<1>1. /\ Shape /\ ConnOK(c) /\ gen \in [Conns -> Gens] /\ main \in [Conns -> MainPC]
      /\ used \in [Slots -> Int]
  BY ConnIn DEF IInv, Shape
<1>2. /\ RecordsOK /\ OnlyRecord(c, gen[c])
      /\ sess'[c][gen[c]].rec = sess[c][gen[c]].rec /\ sess'[c][gen[c]].turn = sess[c][gen[c]].turn
  BY <1>1, LeaveStep
<1>3. PICK p \in {"idle", "failed"} : main' = [main EXCEPT ![c] = p]
  BY DEF Leave
<1>4. /\ main[c] = "release" /\ used' = Released(cur(c).current)
      /\ told' = [told EXCEPT ![c] = "none"] /\ owed' = [owed EXCEPT ![c] = "none"]
      /\ UNCHANGED <<mode, gen, open, activeConns>>
  BY DEF Leave
<1>5. main'[c] = p /\ main' \in [Conns -> MainPC] /\ \A b \in Conns : b # c => main'[b] = main[b]
  BY <1>1, <1>3 DEF MainPC
<1>6. \A b \in Conns : b # c => cur(b)' = cur(b)
  BY <1>1, <1>2, <1>4 DEF OnlyRecord, cur
<1>7. Shape'
  <2>1. used' \in [Slots -> Int]
    BY <1>1, <1>4 DEF Released
  <2>2. /\ told' \in [Conns -> {"none", "saturated", "invalidated"}]
        /\ owed' \in [Conns -> {"none"} \cup Refusals]
    BY <1>1, <1>4 DEF Shape
  <2>3. QED
    BY <1>1, <1>2, <1>4, <1>5, <2>1, <2>2 DEF Shape, RecordsOK
<1>8. ModeInv'
  BY <1>1, <1>2, <1>4 DEF IInv, ModeInv, OnlyRecord
<1>9. ConnInv'
  <2>1. owed'[c] = "none" /\ told'[c] = "none"
    BY <1>1, <1>4 DEF Shape
  <2>2. open[c] = {}
    BY <1>1, <1>4 DEF ConnOK, OpenOK
  <2>3. ConnOK(c)'
    BY <1>4, <1>5, <2>1, <2>2 DEF ConnOK, OwedOK, OpenOK, Outside
  <2>4. ASSUME NEW b \in Conns, b # c PROVE ConnOK(b)'
    <3>1. ConnOK(b)
      BY ConnIn
    <3>2. told'[b] = told[b] /\ owed'[b] = owed[b]
      BY <1>1, <1>4, <2>4 DEF Shape
    <3>3. QED
      BY <1>4, <1>5, <1>6, <2>4, <3>1, <3>2, ConnFrame
  <2>5. QED
    BY <2>3, <2>4 DEF ConnInv
<1>10. Live' = Live
  BY <1>3, <1>4, LiveSame
<1>11. CASE mode = "direct"
  <2>1. SlotInv' /\ Spot' = Spot /\ Count' = Count
    BY <1>4, <1>11 DEF SlotInv, Spot, Count
  <2>2. QED
    BY <1>4, <1>7, <1>8, <1>9, <1>10, <2>1 DEF IInv
<1>12. CASE mode # "direct"
  <2>1. Holding(c) /\ ~Holding(c)'
    BY <1>4, <1>5 DEF Holding
  <2>2. \A b \in Conns : b # c => Holding(b)' = Holding(b)
    BY <1>5 DEF Holding
  <2>3. PICK s \in Slots : s = cur(c).current /\ Spot[c] = s /\ s # Nowhere
    BY <1>4, <1>12, HasSpot DEF Outside
  <2>4. Spot'[c] = Nowhere /\ \A b \in Conns : b # c => Spot'[b] = Spot[b]
    BY <1>4, <1>6, <1>12, <2>1, <2>2 DEF Spot
  <2>5. Spot' = [Spot EXCEPT ![c] = Nowhere]
    BY <2>4 DEF Spot
  <2>6. On(s)' = On(s) \ {c} /\ c \in On(s)
    BY <2>3, <2>4 DEF On
  <2>7. ASSUME NEW t \in Slots, t # s PROVE On(t)' = On(t)
    <3>1. Spot[c] # t /\ Spot'[c] # t
      BY <2>3, <2>4, <2>7
    <3>2. \A b \in Conns : Spot'[b] = t <=> Spot[b] = t
      BY <2>4, <3>1
    <3>3. QED
      BY <3>2 DEF On
  <2>8. Cardinality(On(s)') = Cardinality(On(s)) - 1 /\ Cardinality(On(s)) > 0
    <3>1. IsFiniteSet(On(s))
      BY OnFinite
    <3>2. Cardinality(On(s)) \in Nat /\ Cardinality(On(s) \ {c}) = Cardinality(On(s)) - 1
      BY <2>6, <3>1, FS_RemoveElement, FS_CardinalityType
    <3>3. Cardinality(On(s)) # 0
      BY <2>6, <3>1, FS_EmptySet
    <3>4. QED
      BY <2>6, <3>2, <3>3
  <2>9. \A t \in Slots : used[t] = Cardinality(On(t))
    BY <1>12 DEF IInv, SlotInv
  <2>10. used' = [used EXCEPT ![s] = used[s] - 1]
    BY <1>4, <2>3, <2>8, <2>9 DEF Released
  <2>11. ASSUME NEW t \in Slots PROVE used'[t] = Cardinality(On(t)')
    <3>1. CASE t = s
      <4>1. used'[s] = used[s] - 1
        BY <1>1, <2>3, <2>10
      <4>2. QED
        BY <2>3, <2>8, <2>9, <3>1, <4>1
    <3>2. CASE t # s
      <4>1. used'[t] = used[t]
        BY <1>1, <2>10, <3>2
      <4>2. QED
        BY <2>7, <2>9, <3>2, <4>1
    <3>3. QED
      BY <3>1, <3>2
  <2>12. ASSUME NEW b \in Conns, Holding(b)' PROVE cur(b)'.current \in Slots
    <3>1. b # c
      BY <2>1, <2>12
    <3>2. QED
      BY <1>6, <1>12, <2>2, <2>12, <3>1 DEF IInv, SlotInv
  <2>13. SlotInv'
    BY <2>11, <2>12 DEF SlotInv
  <2>14. Count' = [Count EXCEPT ![s] = Count[s] - 1]
    BY <1>4, <1>12, <2>10 DEF Count
  <2>15. c \notin Live
    BY <1>4 DEF Live
  <2>16. Abs!Release(c)
    BY <1>4, <1>10, <2>3, <2>5, <2>14, <2>15 DEF Abs!Release
  <2>17. QED
    BY <1>4, <1>7, <1>8, <1>9, <1>10, <2>13, <2>16 DEF IInv
<1>13. QED
  BY <1>11, <1>12

-----------------------------------------------------------------------------
(* Theorems *)

(* What every step does, in the terms of ConnUse. *)
LEMMA StepMaps ==
  ASSUME IInv, Next
  PROVE  IInv' /\ (Abs!Next \/ UNCHANGED <<Spot, Live, Count, activeConns>>)
<1>1. ASSUME NEW c \in Conns, Moved(c)
      PROVE  IInv' /\ (Abs!Next \/ UNCHANGED <<Spot, Live, Count, activeConns>>)
  BY <1>1 DEF Moved, Stays, Abs!Next
<1>2. ASSUME NEW c \in Conns, ConnStep(c)
      PROVE  IInv' /\ (Abs!Next \/ UNCHANGED <<Spot, Live, Count, activeConns>>)
  <2>1. ASSUME NEW s \in Slots,
               StartDtls(c, s) \/ StartWrapA(c, s) \/ StartSrtp(c, s) \/ StartDirect(c, s)
        PROVE  IInv' /\ (Abs!Next \/ UNCHANGED <<Spot, Live, Count, activeConns>>)
    BY <2>1, StartMoves DEF Abs!Next
  <2>2. CASE Leave(c)
    BY <2>2, LeaveMoves DEF Abs!Next
  <2>3. CASE \/ \E e \in {"captcha", "other"} : GetFails(c, e)
             \/ LoopEnds(c)
             \/ \E long \in BOOLEAN : BackOff(c, long)
             \/ SleepTimer(c) \/ HearSlot(c) \/ SleepCancelled(c)
    <3>1. \/ \E e \in {"captcha", "other"} : GetFails(c, e)
          \/ LoopEnds(c)
          \/ \E long \in BOOLEAN : BackOff(c, long)
          \/ WakeUp(c)
          \/ SleepCancelled(c)
      BY <2>3 DEF SleepTimer, HearSlot
    <3>2. QED
      BY <1>1, <3>1, OutsideMoves
  <2>4. CASE DtlsUp(c) \/ WrapAUp(c) \/ SrtpUp(c)
    BY <1>1, <2>4, UpMoves
  <2>5. CASE WrapADialled(c) \/ DialFails(c) \/ GetconfFails(c) \/ GetconfOk(c)
    BY <1>1, <2>5, DialMoves
  <2>6. CASE \/ \E r \in DOMAIN SrtpOrder : SrtpOpen(c, r)
             \/ \E e \in Refusals : SrtpFails(c, e)
             \/ SrtpClose(c)
    BY <1>1, <2>6, SrtpMoves
  <2>7. CASE \/ ProbeKills(c) \/ SenderEnds(c)
             \/ ReceiverReads(c) \/ ReceiverDelivers(c) \/ ReceiverEnds(c)
    BY <2>7, PumpMoves DEF Stays
  <2>8. CASE Joined(c)
    BY <1>1, <2>8, JoinMoves
  <2>9. CASE Uncount(c)
    BY <1>1, <2>9, UncountMoves
  <2>10. CASE CheckTurnDone(c)
    BY <1>1, <2>10, CheckMoves
  <2>11. QED
    BY <1>2, <2>1, <2>2, <2>3, <2>4, <2>5, <2>6, <2>7, <2>8, <2>9, <2>10 DEF ConnStep
<1>3. ASSUME NEW c \in Conns, NEW g \in Gens, TurnGoroutine(c, g) \/ Reconnector(c, g)
      PROVE  IInv' /\ (Abs!Next \/ UNCHANGED <<Spot, Live, Count, activeConns>>)
  BY <1>3, TurnSteps, RecSteps DEF Stays
<1>4. CASE WaiterReturns \/ ReceivePacket \/ SessionCancelled
  BY <1>4, OtherSteps DEF Stays
<1>5. QED
  BY <1>2, <1>3, <1>4 DEF Next

LEMMA StutterMaps ==
  ASSUME IInv, UNCHANGED vars
  PROVE  IInv' /\ UNCHANGED <<Spot, Live, Count, activeConns>>
<1>1. UNCHANGED <<mode, main, gen, sess, used, activeConns, open, told, owed>>
  BY DEF vars
<1>2. \A c \in Conns : Holding(c)' = Holding(c) /\ cur(c)' = cur(c)
  BY <1>1 DEF Holding, cur
<1>3. Spot' = Spot /\ Live' = Live /\ Count' = Count
  BY <1>1, <1>2 DEF Spot, Live, Count
<1>4. \A s : On(s)' = On(s)
  BY <1>3 DEF On
<1>5. Shape' /\ ModeInv'
  BY <1>1 DEF IInv, Shape, ModeInv
<1>6. SlotInv'
  BY <1>1, <1>2, <1>4 DEF IInv, SlotInv
<1>7. ConnInv'
  BY <1>1, <1>2 DEF IInv, ConnInv, ConnOK, OwedOK, OpenOK
<1>8. QED
  BY <1>1, <1>3, <1>5, <1>6, <1>7 DEF IInv

LEMMA Invariant == Spec => []IInv
<1>1. IInv /\ [Next]_vars => IInv'
  BY StepMaps, StutterMaps
<1>2. QED
  BY <1>1, InitIInv, PTL DEF Spec

(* Every session but a direct one implements ConnUse, for any number of       *)
(* conns, slots and left-over goroutines: each takes one slot, gives it back  *)
(* once, and is among activeConns only while it holds it (the defers of       *)
(* runDTLSSession, runWrapASession and runSRTPSession).                       *)
THEOREM SessionImplementsConnUse == Spec => UsesSlotOnce
<1>1. Init => Use!Init
  <2> SUFFICES ASSUME Init PROVE Use!Init
    OBVIOUS
  <2>1. \A c \in Conns : ~Holding(c) /\ main[c] = "idle"
    BY DEF Init, Holding
  <2>2. QED
    BY <2>1 DEF Init, Use!Init
<1>2. IInv /\ [Next]_vars => [Use!Next]_(Use!vars)
  <2> SUFFICES ASSUME IInv, [Next]_vars PROVE [Use!Next]_(Use!vars)
    OBVIOUS
  <2>1. Abs!Next \/ UNCHANGED <<Spot, Live, Count, activeConns>>
    BY StepMaps, StutterMaps
  <2>2. QED
    BY <2>1 DEF Abs!Next, Abs!Acquire, Abs!Establish, Abs!Lose, Abs!Release,
                Use!Next, Use!Acquire, Use!Establish, Use!Lose, Use!Release, Use!vars,
                Spot, Live, Count
<1>3. QED
  BY <1>1, <1>2, Invariant, PTL DEF Spec, UsesSlotOnce, Use!Spec

(* A 486 or 401 that made the dial fail has been passed to the pool before    *)
(* the slot is released, in every interleaving of the session with its TURN   *)
(* goroutine and those of earlier sessions.                                   *)
THEOREM RefusalAlwaysReported == Spec => []RefusalReported
<1>1. IInv => RefusalReported
  BY DEF IInv, ConnInv, ConnOK, OwedOK, RefusalReported
<1>2. QED
  BY <1>1, Invariant, PTL

(* An SRTP session has closed relay, client and socket before it releases its *)
(* slot, whichever step of setupSRTPSession failed.                           *)
THEOREM AlwaysClosedBeforeRelease == Spec => []SrtpClosedBeforeRelease
<1>1. IInv => SrtpClosedBeforeRelease
  BY DEF IInv, ConnInv, ConnOK, OpenOK, SrtpClosedBeforeRelease, Holding
<1>2. QED
  BY <1>1, Invariant, PTL

-----------------------------------------------------------------------------
(* Types and bounds *)

(* What no step relates to anything else. *)
PlainOK ==
  /\ mode \in Modes /\ parent \in BOOLEAN
  /\ result \in [Conns -> {"none", "captcha", "other"}]
  /\ woken \in [Conns -> BOOLEAN]
  /\ signaled \in [Conns -> BOOLEAN]
  /\ sender \in [Conns -> {"run", "gone"}]
  /\ receiver \in [Conns -> {"read", "deliver", "gone"}]
  /\ recvCh \in 0 .. RecvCap
  /\ prov \in BOOLEAN /\ provCh \in BOOLEAN
  /\ waiter \in {"waiting", "got", "nothing", "timeout"}

(* A conn that has not failed too often counts its failures; one that has lies *)
(* dormant, and begins anew.                                                   *)
FailOK ==
  /\ shortFailures \in [Conns -> 0 .. MaxFailures]
  /\ \A c \in Conns : shortFailures[c] < MaxFailures \/ main[c] \in {"dormant", "returned"}

(* The reconnector asks for a credential only while it has an attempt left. *)
Patient(r) == r.retries \in 0 .. MaxRetries /\ (r.rec = "ask" => r.retries < MaxRetries)

RetryOK == \A c \in Conns, g \in Gens : Patient(sess[c][g])

(* In every mode, also the one that leaks slots, the quota is kept. *)
QuotaOK == used \in [Slots -> 0 .. Quota]

(* activeConns counts the DTLS, SRTP and WRAP-A sessions between their Add and *)
(* their deferred Add.                                                        *)
ActiveOK == activeConns = Cardinality(Live)

LEMMA PlainStep == ASSUME PlainOK, [Next]_vars PROVE PlainOK'
<1>1. ASSUME UNCHANGED <<mode, parent, result, woken, signaled, sender, receiver, recvCh,
                         provVars>>
      PROVE  PlainOK'
  BY <1>1 DEF PlainOK, provVars
<1>2. ASSUME NEW c \in Conns, ConnStep(c) PROVE PlainOK'
  <2>1. CASE \E s \in Slots : StartDirect(c, s)
    BY <2>1 DEF PlainOK, StartDirect, provVars, Take
  <2>2. CASE \E e \in {"captcha", "other"} : GetFails(c, e)
    BY <2>2 DEF PlainOK, GetFails, connVars, flowVars, provVars
  <2>3. CASE DtlsUp(c) \/ SrtpUp(c)
    <3>1. Establish(c) /\ UNCHANGED provVars
      BY <2>3 DEF DtlsUp, SrtpUp
    <3>2. QED
      BY <3>1 DEF PlainOK, provVars, Establish
  <2>4. CASE WrapAUp(c)
    BY <2>4 DEF PlainOK, WrapAUp, Establish
  <2>5. CASE DialFails(c) \/ GetconfFails(c)
    BY <2>5 DEF PlainOK, DialFails, GetconfFails, connVars, flowVars, provVars
  <2>6. CASE GetconfOk(c)
    BY <2>6 DEF PlainOK, GetconfOk, connVars, flowVars
  <2>7. CASE \E e \in Refusals : SrtpFails(c, e)
    BY <2>7 DEF PlainOK, SrtpFails, connVars, flowVars, provVars
  <2>8. CASE SenderEnds(c)
    BY <2>8 DEF PlainOK, SenderEnds, connVars, provVars
  <2>9. CASE ReceiverReads(c)
    BY <2>9 DEF PlainOK, ReceiverReads, connVars, provVars
  <2>10. CASE ReceiverDelivers(c)
    BY <2>10 DEF PlainOK, ReceiverDelivers, connVars, provVars
  <2>11. CASE ReceiverEnds(c)
    BY <2>11 DEF PlainOK, ReceiverEnds, connVars, provVars
  <2>12. CASE Joined(c)
    BY <2>12 DEF PlainOK, Joined, connVars, flowVars, provVars
  <2>13. CASE Leave(c)
    BY <2>13 DEF PlainOK, Leave, flowVars, provVars, Broadcast
  <2>14. CASE \E long \in BOOLEAN : BackOff(c, long)
    BY <2>14 DEF PlainOK, BackOff, flowVars, provVars
  <2>15. QED
    BY <1>1, <1>2, <2>1, <2>2, <2>3, <2>4, <2>5, <2>6, <2>7, <2>8, <2>9, <2>10, <2>11, <2>12,
       <2>13, <2>14 DEF ConnStep, StartDtls, StartWrapA, StartSrtp, LoopEnds, WrapADialled,
       CheckTurnDone, SrtpOpen, SrtpClose, ProbeKills, Uncount, SleepTimer, HearSlot,
       SleepCancelled, flowVars, provVars, Take, connVars, WakeUp
<1>3. ASSUME NEW c \in Conns, NEW g \in Gens, TurnGoroutine(c, g) PROVE PlainOK'
  BY <1>1, <1>3
     DEF TurnGoroutine, Allocated, AllocFails, PumpFails, PumpCancelled, PumpsJoin, TurnCancels,
         TurnStep, TurnEnds, connVars, flowVars
<1>4. ASSUME NEW c \in Conns, NEW g \in Gens, Reconnector(c, g) PROVE PlainOK'
  <2>1. CASE RecReleases(c, g)
    BY <2>1 DEF PlainOK, RecReleases, RecStep, Broadcast, flowVars, provVars
  <2>2. QED
    BY <1>1, <1>4, <2>1
       DEF Reconnector, RecEnds, RecNotices, RecForgets, RecAsks, RecRetries, RecRespawns,
           RecGets, RecStep, flowVars
<1>5. CASE WaiterReturns \/ ReceivePacket \/ SessionCancelled
  <2>1. CASE WaiterReturns
    BY <2>1 DEF PlainOK, WaiterReturns, connVars, flowVars
  <2>2. CASE ReceivePacket
    BY <2>2 DEF PlainOK, ReceivePacket, connVars, provVars
  <2>3. CASE SessionCancelled
    BY <2>3 DEF PlainOK, SessionCancelled, connVars, flowVars, provVars
  <2>4. QED
    BY <1>5, <2>1, <2>2, <2>3
<1>6. CASE UNCHANGED vars
  BY <1>1, <1>6 DEF vars, provVars
<1>7. QED
  BY <1>2, <1>3, <1>4, <1>5, <1>6 DEF Next

(* Only a failure counts, and only dormancy ends the count at its limit. *)
LEMMA FailStep == ASSUME Shape, FailOK, [Next]_vars PROVE FailOK'
<1>1. ASSUME UNCHANGED <<shortFailures, main>> PROVE FailOK'
  BY <1>1 DEF FailOK
<1>2. ASSUME NEW c \in Conns, ConnStep(c) PROVE FailOK'
  <2>1. CASE \E long \in BOOLEAN : BackOff(c, long)
    <3>1. PICK long \in BOOLEAN : BackOff(c, long)
      BY <2>1
    <3>2. shortFailures[c] \in 0 .. MaxFailures - 1 /\ main \in [Conns -> MainPC]
      BY <3>1 DEF Shape, FailOK, BackOff
    <3>3. Failures(c, long) \in 0 .. MaxFailures
      BY <3>2 DEF Failures
    <3>4. CASE ~signaled[c] /\ c \in Boot
      BY <3>1, <3>2, <3>4 DEF FailOK, BackOff
    <3>5. CASE ~(~signaled[c] /\ c \in Boot)
      <4>1. /\ main' = [main EXCEPT ![c] = IF Failures(c, long) >= MaxFailures
                                             THEN "dormant" ELSE "nap"]
            /\ shortFailures' = [shortFailures EXCEPT ![c] = Failures(c, long)]
        BY <3>1, <3>5 DEF BackOff
      <4>2. \A n \in 0 .. MaxFailures :
              /\ main' = [main EXCEPT ![c] = IF n >= MaxFailures THEN "dormant" ELSE "nap"]
              /\ shortFailures' = [shortFailures EXCEPT ![c] = n]
              => FailOK'
        BY <3>2 DEF FailOK
      <4>3. QED
        BY <3>3, <4>1, <4>2
    <3>6. QED
      BY <3>4, <3>5
  <2>2. CASE WakeUp(c)
    BY <2>2 DEF Shape, FailOK, WakeUp
  <2>3. CASE SleepCancelled(c)
    BY <2>3 DEF Shape, FailOK, SleepCancelled, connVars
  <2>4. ASSUME NEW p \in MainPC, main[c] \notin {"dormant", "returned"},
               shortFailures' = shortFailures, main' = [main EXCEPT ![c] = p]
        PROVE  FailOK'
    BY <2>4 DEF Shape, FailOK
  <2>5. \/ WakeUp(c) \/ SleepCancelled(c) \/ \E long \in BOOLEAN : BackOff(c, long)
        \/ UNCHANGED <<shortFailures, main>>
        \/ /\ main[c] \notin {"dormant", "returned"} /\ shortFailures' = shortFailures
           /\ \E p \in MainPC : main' = [main EXCEPT ![c] = p]
    <3> USE DEF MainPC
    <3>1. ASSUME NEW s \in Slots,
                 StartDtls(c, s) \/ StartWrapA(c, s) \/ StartSrtp(c, s) \/ StartDirect(c, s)
          PROVE  /\ main[c] \notin {"dormant", "returned"} /\ shortFailures' = shortFailures
                 /\ \E p \in MainPC : main' = [main EXCEPT ![c] = p]
      BY <3>1 DEF StartDtls, StartWrapA, StartSrtp, StartDirect, Take
    <3>2. CASE (\E e \in {"captcha", "other"} : GetFails(c, e)) \/ LoopEnds(c)
      BY <3>2 DEF GetFails, LoopEnds, connVars
    <3>3. CASE DtlsUp(c) \/ WrapAUp(c) \/ SrtpUp(c)
      BY <3>3 DEF DtlsUp, WrapAUp, SrtpUp, Establish, HandshakeDone
    <3>4. CASE WrapADialled(c) \/ GetconfOk(c)
      BY <3>4 DEF WrapADialled, HandshakeDone, GetconfOk, connVars
    <3>5. CASE DialFails(c) \/ CheckTurnDone(c) \/ GetconfFails(c)
      BY <3>5 DEF DialFails, CheckTurnDone, GetconfFails, connVars
    <3>6. CASE \E r \in DOMAIN SrtpOrder : SrtpOpen(c, r)
      BY <3>6 DEF SrtpOpen, connVars
    <3>7. CASE (\E e \in Refusals : SrtpFails(c, e)) \/ SrtpClose(c)
      BY <3>7 DEF SrtpFails, SrtpClose, connVars
    <3>8. CASE \/ ProbeKills(c) \/ SenderEnds(c)
               \/ ReceiverReads(c) \/ ReceiverDelivers(c) \/ ReceiverEnds(c)
      BY <3>8 DEF ProbeKills, SenderEnds, ReceiverReads, ReceiverDelivers, ReceiverEnds, connVars
    <3>9. CASE Joined(c) \/ Uncount(c) \/ Leave(c)
      BY <3>9 DEF Joined, Uncount, Leave, connVars
    <3>10. QED
      BY <1>2, <3>1, <3>2, <3>3, <3>4, <3>5, <3>6, <3>7, <3>8, <3>9
         DEF ConnStep, SleepTimer, HearSlot
  <2>6. QED
    BY <1>1, <2>1, <2>2, <2>3, <2>4, <2>5
<1>3. ASSUME NEW c \in Conns, NEW g \in Gens, TurnGoroutine(c, g) \/ Reconnector(c, g)
      PROVE  FailOK'
  BY <1>1, <1>3
     DEF TurnGoroutine, Allocated, AllocFails, PumpFails, PumpCancelled, PumpsJoin, TurnCancels,
         TurnStep, TurnEnds, connVars, Reconnector, RecEnds, RecNotices, RecReleases, RecForgets,
         RecAsks, RecRetries, RecRespawns, RecGets, RecStep
<1>4. CASE WaiterReturns \/ ReceivePacket \/ SessionCancelled
  BY <1>1, <1>4 DEF WaiterReturns, ReceivePacket, SessionCancelled, connVars
<1>5. CASE UNCHANGED vars
  BY <1>1, <1>5 DEF vars
<1>6. QED
  BY <1>2, <1>3, <1>4, <1>5 DEF Next

(* A slot is only counted up below its quota, and only down above zero. *)
LEMMA QuotaStep == ASSUME QuotaOK, [Next]_vars PROVE QuotaOK'
<1>1. ASSUME used' = used PROVE QuotaOK'
  BY <1>1 DEF QuotaOK
<1>2. ASSUME NEW s \in Slots, used[s] < Quota, used' = [used EXCEPT ![s] = @ + 1] PROVE QuotaOK'
  BY <1>2 DEF QuotaOK
<1>3. ASSUME NEW s, used' = Released(s) PROVE QuotaOK'
  BY <1>3 DEF QuotaOK, Released
<1>4. ASSUME NEW c \in Conns, ConnStep(c) PROVE QuotaOK'
  <2>1. ASSUME NEW s \in Slots,
               StartDtls(c, s) \/ StartWrapA(c, s) \/ StartSrtp(c, s) \/ StartDirect(c, s)
        PROVE  QuotaOK'
    BY <1>2, <2>1 DEF StartDtls, StartWrapA, StartSrtp, StartDirect, Take
  <2>2. CASE Leave(c)
    BY <1>3, <2>2 DEF Leave
  <2>3. CASE \/ \E e \in {"captcha", "other"} : GetFails(c, e)
             \/ LoopEnds(c)
             \/ \E long \in BOOLEAN : BackOff(c, long)
             \/ SleepTimer(c) \/ HearSlot(c) \/ SleepCancelled(c)
    BY <1>1, <2>3 DEF GetFails, LoopEnds, BackOff, SleepTimer, HearSlot, WakeUp, SleepCancelled
  <2>4. CASE \/ DtlsUp(c) \/ WrapADialled(c) \/ DialFails(c) \/ CheckTurnDone(c)
             \/ GetconfFails(c) \/ GetconfOk(c) \/ WrapAUp(c)
    BY <1>1, <2>4 DEF DtlsUp, WrapADialled, DialFails, CheckTurnDone, GetconfFails, GetconfOk,
                      WrapAUp, Establish
  <2>5. CASE \/ \E r \in DOMAIN SrtpOrder : SrtpOpen(c, r)
             \/ \E e \in Refusals : SrtpFails(c, e)
             \/ SrtpUp(c) \/ SrtpClose(c)
    BY <1>1, <2>5 DEF SrtpOpen, SrtpFails, SrtpUp, SrtpClose, Establish
  <2>6. CASE \/ ProbeKills(c) \/ SenderEnds(c) \/ ReceiverReads(c) \/ ReceiverDelivers(c)
             \/ ReceiverEnds(c) \/ Joined(c) \/ Uncount(c)
    BY <1>1, <2>6 DEF ProbeKills, SenderEnds, ReceiverReads, ReceiverDelivers, ReceiverEnds,
                      Joined, Uncount
  <2>7. QED
    BY <1>4, <2>1, <2>2, <2>3, <2>4, <2>5, <2>6 DEF ConnStep
<1>5. ASSUME NEW c \in Conns, NEW g \in Gens, TurnGoroutine(c, g) PROVE QuotaOK'
  BY <1>1, <1>5
     DEF TurnGoroutine, Allocated, AllocFails, PumpFails, PumpCancelled, PumpsJoin, TurnCancels,
         TurnStep, TurnEnds
<1>6. ASSUME NEW c \in Conns, NEW g \in Gens, Reconnector(c, g) PROVE QuotaOK'
  <2>1. CASE RecReleases(c, g)
    BY <1>3, <2>1 DEF RecReleases
  <2>2. CASE \E s \in Slots : RecGets(c, g, s)
    BY <1>2, <2>2 DEF RecGets
  <2>3. QED
    BY <1>1, <1>6, <2>1, <2>2
       DEF Reconnector, RecEnds, RecNotices, RecForgets, RecAsks, RecRetries, RecRespawns
<1>7. CASE WaiterReturns \/ ReceivePacket \/ SessionCancelled
  BY <1>1, <1>7 DEF WaiterReturns, ReceivePacket, SessionCancelled
<1>8. CASE UNCHANGED vars
  BY <1>1, <1>8 DEF vars
<1>9. QED
  BY <1>4, <1>5, <1>6, <1>7, <1>8 DEF Next

(* Each step is one of ConnUse, whose Establish and Lose count what they do. *)
LEMMA ActiveStep == ASSUME IInv, ActiveOK, [Next]_vars PROVE ActiveOK'
<1>1. IsFiniteSet(Live)
  BY FS_Subset DEF Live
<1>2. ASSUME UNCHANGED <<Live, activeConns>> PROVE ActiveOK'
  BY <1>2 DEF ActiveOK
<1>3. ASSUME NEW c \in Conns, Abs!Establish(c) PROVE ActiveOK'
  BY <1>1, <1>3, FS_AddElement, FS_CardinalityType DEF ActiveOK, Abs!Establish
<1>4. ASSUME NEW c \in Conns, Abs!Lose(c) PROVE ActiveOK'
  BY <1>1, <1>4, FS_RemoveElement, FS_CardinalityType DEF ActiveOK, Abs!Lose
<1>5. ASSUME NEW c \in Conns, Abs!Release(c) \/ \E s \in Slots : Abs!Acquire(c, s) PROVE ActiveOK'
  BY <1>2, <1>5 DEF Abs!Release, Abs!Acquire
<1>6. CASE Next
  BY <1>2, <1>3, <1>4, <1>5, <1>6, StepMaps DEF Abs!Next
<1>7. CASE UNCHANGED vars
  BY <1>2, <1>7, StutterMaps
<1>8. QED
  BY <1>6, <1>7

(* What the steps of the other goroutines leave of a reconnector's count. *)
LEMMA PatientEdits ==
  ASSUME NEW r \in Rec, Patient(r)
  PROVE  /\ Patient([r EXCEPT !.ctx = TRUE])
         /\ Patient([r EXCEPT !.done = "none"])
         /\ \A t : Patient([r EXCEPT !.turn = t])
         /\ \A t, d : Patient([r EXCEPT !.turn = t, !.done = d])
         /\ \A d : Patient([r EXCEPT !.turn = "none", !.ctx = TRUE, !.done = d])
         /\ \A d : Patient([r EXCEPT !.ctx = TRUE, !.current = Nowhere, !.done = d])
BY DEF Rec, Patient

(* A session begins with no attempt made. *)
LEMMA PatientStarts ==
  ASSUME NEW s \in Slots
  PROVE  \A q \in {NoSess, [NoSess EXCEPT !.turn = "allocating"],
                   [NoSess EXCEPT !.turn = "allocating", !.rec = "watch"]} :
           Patient([q EXCEPT !.ctx = FALSE, !.current = s, !.turnSlot = s])
<1>1. 0 \in 0 .. MaxRetries
  OBVIOUS
<1>2. \A q \in Rec : q.retries = 0 /\ q.rec # "ask" =>
        Patient([q EXCEPT !.ctx = FALSE, !.current = s, !.turnSlot = s])
  BY <1>1 DEF Rec, Patient
<1>3. NoSess \in Rec /\ NoSess.retries = 0 /\ NoSess.rec = "none"
  BY StartRecs DEF NoSess
<1>4. \A q \in Rec : q.retries = 0 /\ q.rec = "none" =>
        /\ [q EXCEPT !.turn = "allocating"] \in Rec
        /\ [q EXCEPT !.turn = "allocating"].retries = 0
        /\ [q EXCEPT !.turn = "allocating"].rec = "none"
        /\ [q EXCEPT !.turn = "allocating", !.rec = "watch"] \in Rec
        /\ [q EXCEPT !.turn = "allocating", !.rec = "watch"].retries = 0
        /\ [q EXCEPT !.turn = "allocating", !.rec = "watch"].rec = "watch"
  BY DEF Rec
<1>5. QED
  BY <1>2, <1>3, <1>4

(* The reconnector counts the attempts that failed and stops at the limit. *)
LEMMA PatientMoves ==
  ASSUME NEW r \in Rec, Patient(r)
  PROVE  /\ Patient([r EXCEPT !.rec = "none", !.ctx = TRUE, !.done = "none", !.retries = 0])
         /\ Patient([r EXCEPT !.rec = "pause", !.done = "none"])
         /\ Patient([r EXCEPT !.rec = "freed"])
         /\ Patient([r EXCEPT !.rec = "resolve", !.current = Nowhere, !.turnSlot = Nowhere])
         /\ r.retries < MaxRetries => Patient([r EXCEPT !.rec = "ask"])
         /\ r.rec = "ask" => Patient([r EXCEPT !.rec = "resolve", !.retries = @ + 1])
         /\ \A s : Patient([r EXCEPT !.rec = "got", !.fresh = s])
         /\ Patient([r EXCEPT !.rec = "watch", !.turn = "allocating", !.current = r.fresh,
                              !.turnSlot = r.fresh, !.fresh = Nowhere, !.retries = 0])
<1>1. 0 \in 0 .. MaxRetries /\ r.retries \in 0 .. MaxRetries
  BY DEF Patient
<1>2. \A n \in 0 .. MaxRetries :
        /\ Patient([r EXCEPT !.rec = "none", !.ctx = TRUE, !.done = "none", !.retries = n])
        /\ Patient([r EXCEPT !.rec = "resolve", !.retries = n])
        /\ \A s, t, u : Patient([r EXCEPT !.rec = "watch", !.turn = "allocating", !.current = s,
                                          !.turnSlot = t, !.fresh = u, !.retries = n])
  BY DEF Rec, Patient
<1>3. /\ Patient([r EXCEPT !.rec = "pause", !.done = "none"])
      /\ Patient([r EXCEPT !.rec = "freed"])
      /\ Patient([r EXCEPT !.rec = "resolve", !.current = Nowhere, !.turnSlot = Nowhere])
      /\ r.retries < MaxRetries => Patient([r EXCEPT !.rec = "ask"])
      /\ \A s : Patient([r EXCEPT !.rec = "got", !.fresh = s])
  BY DEF Rec, Patient
<1>4. r.rec = "ask" => r.retries + 1 \in 0 .. MaxRetries
  BY <1>1 DEF Patient
<1>5. r.rec = "ask" => Patient([r EXCEPT !.rec = "resolve", !.retries = @ + 1])
  BY <1>2, <1>4
<1>6. QED
  BY <1>1, <1>2, <1>3, <1>5

LEMMA RetryStep == ASSUME Shape, RetryOK, [Next]_vars PROVE RetryOK'
<1>1. sess \in [Conns -> [Gens -> Rec]]
  BY DEF Shape
<1>2. ASSUME sess' = sess PROVE RetryOK'
  BY <1>2 DEF RetryOK
<1>3. ASSUME NEW c \in Conns, NEW g \in Gens, NEW r, Patient(r), sess' = [sess EXCEPT ![c][g] = r]
      PROVE  RetryOK'
  <2>1. \A b \in Conns, h \in Gens :
          sess'[b][h] = IF b = c /\ h = g THEN r ELSE sess[b][h]
    BY <1>1, <1>3
  <2>2. QED
    BY <1>3, <2>1 DEF RetryOK
<1>4. ASSUME NEW c \in Conns, NEW g \in Gens
      PROVE  Patient(sess[c][g]) /\ sess[c][g] \in Rec
  BY <1>1 DEF RetryOK
<1>a. gen \in [Conns -> Gens]
  BY DEF Shape
<1>5. ASSUME NEW c \in Conns, NEW g \in Gens, CtxCut(c, g) PROVE RetryOK'
  <2>1. sess' = [sess EXCEPT ![c][g] = [sess[c][g] EXCEPT !.ctx = TRUE]]
    BY <1>1, <1>5 DEF CtxCut
  <2>2. QED
    BY <1>3, <1>4, <2>1, PatientEdits
<1>6. ASSUME NEW c \in Conns, ConnStep(c) PROVE RetryOK'
  <2>1. ASSUME NEW s \in Slots,
               StartDtls(c, s) \/ StartWrapA(c, s) \/ StartSrtp(c, s) \/ StartDirect(c, s)
        PROVE  RetryOK'
    <3>1. PICK q \in {NoSess, [NoSess EXCEPT !.turn = "allocating"],
                      [NoSess EXCEPT !.turn = "allocating", !.rec = "watch"]},
               pc \in {"dial", "up"} : Take(c, s, q, pc)
      BY <2>1 DEF StartDtls, StartWrapA, StartSrtp, StartDirect
    <3>2. sess' = [sess EXCEPT ![c][(gen[c] + 1) % Incarnations]
                                 = [q EXCEPT !.ctx = FALSE, !.current = s, !.turnSlot = s]]
      BY <3>1 DEF Take
    <3>3. (gen[c] + 1) % Incarnations \in Gens
      BY GenRange DEF Shape
    <3>4. QED
      BY <1>3, <3>2, <3>3, PatientStarts
  <2>2. CASE Leave(c)
    <3>1. PICK d : sess' = [sess EXCEPT ![c][gen[c]] =
                      [sess[c][gen[c]] EXCEPT !.ctx = TRUE, !.current = Nowhere, !.done = d]]
      BY <1>1, <1>a, <2>2 DEF Leave
    <3>2. gen[c] \in Gens
      BY <1>a
    <3>3. QED
      BY <1>3, <1>4, <3>1, <3>2, PatientEdits
  <2>3. CASE DialFails(c) \/ ProbeKills(c) \/ SenderEnds(c) \/ ReceiverEnds(c)
    BY <1>a, <1>5, <2>3 DEF DialFails, ProbeKills, SenderEnds, ReceiverEnds, CtxCut
  <2>4. CASE CheckTurnDone(c)
    <3>1. sess' = [sess EXCEPT ![c][gen[c]] = [sess[c][gen[c]] EXCEPT !.done = "none"]]
      BY <1>1, <1>a, <2>4 DEF CheckTurnDone
    <3>2. gen[c] \in Gens
      BY <1>a
    <3>3. QED
      BY <1>3, <1>4, <3>1, <3>2, PatientEdits
  <2>5. CASE \/ \E e \in {"captcha", "other"} : GetFails(c, e)
             \/ LoopEnds(c)
             \/ \E long \in BOOLEAN : BackOff(c, long)
             \/ SleepTimer(c) \/ HearSlot(c) \/ SleepCancelled(c)
    BY <1>2, <2>5 DEF GetFails, LoopEnds, BackOff, SleepTimer, HearSlot, WakeUp, SleepCancelled
  <2>6. CASE \/ DtlsUp(c) \/ WrapADialled(c) \/ GetconfFails(c) \/ GetconfOk(c) \/ WrapAUp(c)
             \/ SrtpUp(c)
    BY <1>2, <2>6 DEF DtlsUp, WrapADialled, GetconfFails, GetconfOk, WrapAUp, SrtpUp
  <2>7. CASE \/ \E r \in DOMAIN SrtpOrder : SrtpOpen(c, r)
             \/ \E e \in Refusals : SrtpFails(c, e)
             \/ SrtpClose(c)
    BY <1>2, <2>7 DEF SrtpOpen, SrtpFails, SrtpClose
  <2>8. CASE ReceiverReads(c) \/ ReceiverDelivers(c) \/ Joined(c) \/ Uncount(c)
    BY <1>2, <2>8 DEF ReceiverReads, ReceiverDelivers, Joined, Uncount
  <2>9. QED
    BY <1>6, <2>1, <2>2, <2>3, <2>4, <2>5, <2>6, <2>7, <2>8 DEF ConnStep
<1>7. ASSUME NEW c \in Conns, NEW g \in Gens, TurnGoroutine(c, g) PROVE RetryOK'
  <2>1. ASSUME NEW t, sess' = [sess EXCEPT ![c][g].turn = t] PROVE RetryOK'
    <3>1. sess' = [sess EXCEPT ![c][g] = [sess[c][g] EXCEPT !.turn = t]]
      BY <1>1, <2>1
    <3>2. QED
      BY <1>3, <1>4, <3>1, PatientEdits
  <2>2. ASSUME NEW f, NEW e, TurnEnds(c, g, f, e) PROVE RetryOK'
    <3>1. PICK t, d : sess' = [sess EXCEPT ![c][g].turn = t, ![c][g].done = d]
      BY <2>2 DEF TurnEnds
    <3>2. sess' = [sess EXCEPT ![c][g] = [sess[c][g] EXCEPT !.turn = t, !.done = d]]
      BY <1>1, <3>1
    <3>3. QED
      BY <1>3, <1>4, <3>2, PatientEdits
  <2>3. CASE TurnCancels(c, g)
    <3>1. PICK d : sess' = [sess EXCEPT ![c][g] =
                      [sess[c][g] EXCEPT !.turn = "none", !.ctx = TRUE, !.done = d]]
      BY <1>1, <2>3 DEF TurnCancels
    <3>2. QED
      BY <1>3, <1>4, <3>1, PatientEdits
  <2>4. QED
    BY <1>7, <2>1, <2>2, <2>3
       DEF TurnGoroutine, Allocated, AllocFails, PumpFails, PumpCancelled, PumpsJoin, TurnStep
<1>8. ASSUME NEW c \in Conns, NEW g \in Gens, Reconnector(c, g) PROVE RetryOK'
  <2>1. ASSUME NEW r, Patient(r), RecStep(c, g, r) PROVE RetryOK'
    BY <1>3, <2>1 DEF RecStep
  <2>2. CASE RecAsks(c, g) \/ RecRetries(c, g)
    BY <1>4, <2>1, <2>2, PatientMoves DEF RecAsks, RecRetries
  <2>3. CASE RecEnds(c, g) \/ RecNotices(c, g) \/ RecReleases(c, g) \/ RecForgets(c, g)
    BY <1>4, <2>1, <2>3, PatientMoves DEF RecEnds, RecNotices, RecReleases, RecForgets
  <2>4. CASE RecRespawns(c, g) \/ \E s \in Slots : RecGets(c, g, s)
    BY <1>4, <2>1, <2>4, PatientMoves DEF RecRespawns, RecGets
  <2>5. QED
    BY <1>8, <2>2, <2>3, <2>4 DEF Reconnector
<1>9. CASE SessionCancelled
  <2>1. \A c \in Conns, g \in Gens : sess'[c][g] = [sess[c][g] EXCEPT !.ctx = TRUE]
    BY <1>9 DEF SessionCancelled
  <2>2. QED
    <3>1. ASSUME NEW c \in Conns, NEW g \in Gens PROVE Patient(sess'[c][g])
      <4>1. Patient(sess[c][g]) /\ sess[c][g] \in Rec
        BY <1>4
      <4>2. Patient([sess[c][g] EXCEPT !.ctx = TRUE])
        BY <4>1, PatientEdits
      <4>3. QED
        BY <2>1, <4>2
    <3>2. QED
      BY <3>1 DEF RetryOK
<1>10. CASE WaiterReturns \/ ReceivePacket
  BY <1>2, <1>10 DEF WaiterReturns, ReceivePacket
<1>11. CASE UNCHANGED vars
  BY <1>2, <1>11 DEF vars
<1>12. QED
  BY <1>6, <1>7, <1>8, <1>9, <1>10, <1>11 DEF Next

Bounds == PlainOK /\ FailOK /\ RetryOK /\ QuotaOK /\ ActiveOK

(* Every variable keeps its type: in particular no slot is counted beyond the *)
(* quota in any mode, a conn lies dormant after MaxFailures short failures at *)
(* the latest, and the reconnector makes MaxRetries attempts at most.         *)
THEOREM TypeCorrect == Spec => []TypeOK
<1>1. Init => Bounds
  <2> SUFFICES ASSUME Init PROVE Bounds
    OBVIOUS
  <2>1. PlainOK /\ QuotaOK
    <3>1. 0 \in 0 .. RecvCap /\ 0 \in 0 .. Quota
      OBVIOUS
    <3>2. QED
      BY <3>1 DEF Init, PlainOK, QuotaOK
  <2>2. FailOK
    BY DEF Init, FailOK
  <2>3. RetryOK
    BY DEF Init, RetryOK, Patient, NoSess
  <2>4. Live = {}
    BY DEF Init, Live
  <2>5. ActiveOK
    BY <2>4, FS_EmptySet DEF Init, ActiveOK
  <2>6. QED
    BY <2>1, <2>2, <2>3, <2>5 DEF Bounds
<1>2. IInv /\ Bounds /\ [Next]_vars => Bounds'
  BY PlainStep, FailStep, RetryStep, QuotaStep, ActiveStep DEF Bounds, IInv
<1>3. IInv /\ Bounds => TypeOK
  <2> SUFFICES ASSUME IInv, Bounds PROVE TypeOK
    OBVIOUS
  <2>1. Cardinality(Live) \in 0 .. Cardinality(Conns)
    <3>1. Live \subseteq Conns
      BY DEF Live
    <3>2. QED
      BY <3>1, FS_Subset, FS_CardinalityType
  <2>2. ASSUME NEW c \in Conns, NEW g \in Gens PROVE sess[c][g] \in SessRec
    BY DEF IInv, Bounds, Shape, RetryOK, Patient, Rec, SessRec, AnySlot
  <2>3. sess \in [Conns -> [Gens -> SessRec]]
    BY <2>2 DEF IInv, Shape
  <2>4. QED
    BY <2>1, <2>3
       DEF IInv, Bounds, Shape, PlainOK, FailOK, QuotaOK, ActiveOK, TypeOK
<1>4. QED
  BY <1>1, <1>2, <1>3, Invariant, PTL DEF Spec

(* What the watchdog and the statistics read: the number of DTLS, SRTP and     *)
(* WRAP-A sessions that are established and not yet torn down.  No direct      *)
(* session is ever counted, connected or not.                                  *)
CountedSessions ==
  activeConns = IF mode = "direct" THEN 0 ELSE Cardinality({c \in Conns : main[c] \in {"up", "uncount"}})

(* activeConns is exact over every reconnection, failure and swap, for any     *)
(* number of connections and goroutines left over from earlier sessions: zero  *)
(* means that no session is established, except in direct mode, where it is    *)
(* zero whatever is connected and says nothing (runDirectSession never adds).  *)
THEOREM ActiveConnsExact == Spec => []CountedSessions
<1>1. Init => ActiveOK
  <2> SUFFICES ASSUME Init PROVE ActiveOK
    OBVIOUS
  <2>1. Live = {}
    BY DEF Init, Live
  <2>2. QED
    BY <2>1, FS_EmptySet DEF Init, ActiveOK
<1>2. IInv /\ ActiveOK /\ [Next]_vars => ActiveOK'
  BY ActiveStep
<1>3. ActiveOK => CountedSessions
  <2>1. CASE mode = "direct"
    <3>1. Live = {}
      BY <2>1 DEF Live
    <3>2. QED
      BY <2>1, <3>1, FS_EmptySet DEF ActiveOK, CountedSessions
  <2>2. CASE mode # "direct"
    <3>1. Live = {c \in Conns : main[c] \in {"up", "uncount"}}
      BY <2>2 DEF Live
    <3>2. QED
      BY <2>2, <3>1 DEF ActiveOK, CountedSessions
  <2>3. QED
    BY <2>1, <2>2
<1>4. QED
  BY <1>1, <1>2, <1>3, Invariant, PTL DEF Spec

=============================================================================
