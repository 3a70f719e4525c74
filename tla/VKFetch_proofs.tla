--------------------------- MODULE VKFetch_proofs ---------------------------
(***************************************************************************)
(* The captchas a user sees are untouched by the solver, and the answer an *)
(* app passes back stays whole, for any number of fetches, clients, tries  *)
(* and captchas.                                                           *)
(*                                                                         *)
(* The caches of the logged-in way take no part in these: a step of        *)
(* CookieMint leaves all of anonVars alone.  The section after is about    *)
(* them, for any configurations at any time, and the last one about the    *)
(* types of all variables and the end of every call's retries.             *)
(***************************************************************************)
EXTENDS VKFetch, FiniteSetTheorems, SequenceTheorems, TLAPS

USE VKAssumption

SomeId == Ids \cup {NoId}

(* The fields of a call, and the types of those that name a captcha. *)
CallFields == {"pc", "sid", "key", "token1", "pin", "wave", "todo", "transient", "client", "attempt",
               "carry", "token2", "img", "powTry", "emptyShow"}

CallShape(c) ==
  /\ DOMAIN c = CallFields
  /\ c.sid \in SomeId /\ c.key \in SomeId /\ c.token1 \in SomeId /\ c.img \in SomeId

Shape ==
  /\ captchaImageURL \in SomeId
  /\ lastCaptchaSID \in SomeId
  /\ lastCaptchaKey \in SomeId
  /\ lastCaptchaToken1 \in SomeId
  /\ solved \in [Apps -> [id : SomeId, done : BOOLEAN]]
  /\ DOMAIN call = Callers /\ \A f \in Callers : CallShape(call[f])
  /\ issuedTo \in [Ids -> Clients \cup {None}]
  /\ touched \subseteq Ids
  /\ burnt \subseteq Ids

(* A call that has a captcha for the solver, ... *)
Solving == {"pow", "refresh", "last"}

(* ... one that stores a captcha for the user, ... *)
Publishing == {"publish", "publishSid", "publishToken1"}

(* ... one that is in getVKCredsWithClientID. *)
InClient == {"step1", "step2", "join"} \cup Solving

-----------------------------------------------------------------------------
(* Records *)

(* What the invariants know of a call after most steps: its captcha is the one *)
(* it had or none, and it got no other work for a captcha; ...                 *)
Keeps(c, d) ==
  /\ d.img \in {c.img, NoId}
  /\ d.pc \in Solving => c.pc \in Solving /\ d.img = c.img
  /\ d.pc \in Publishing => c.pc \in Publishing /\ d.img = c.img

(* ... the saved tokens are as they were, ... *)
SameTokens(c, d) == d.sid = c.sid /\ d.key = c.key /\ d.token1 = c.token1 /\ d.pin = c.pin

(* ... the client too, and the clients of the wave. *)
SameClient(c, d) ==
  /\ SameTokens(c, d) /\ d.todo = c.todo
  /\ d.pc \in InClient => c.pc \in InClient /\ d.client = c.client

LEMMA NoCallFields ==
  /\ CallShape(NoCall)
  /\ NoCall.pc = "idle" /\ NoCall.img = NoId
  /\ NoCall.sid = NoId /\ NoCall.key = NoId /\ NoCall.token1 = NoId
  /\ NoCall.todo = {} /\ NoCall.pin = None
BY DEF NoCall, CallShape, CallFields, SomeId

LEMMA FailedFields ==
  ASSUME NEW c, CallShape(c), NEW net
  PROVE  /\ CallShape(ClientFailed(c, net))
         /\ ClientFailed(c, net).pc = "wave" /\ ClientFailed(c, net).img = NoId
         /\ SameTokens(c, ClientFailed(c, net)) /\ ClientFailed(c, net).todo = c.todo
BY DEF ClientFailed, CallShape, CallFields, SameTokens, SomeId

(* A move that changes pc only. *)
LEMMA PcFields ==
  ASSUME NEW c, CallShape(c), NEW pc
  PROVE  LET d == [c EXCEPT !.pc = pc]
         IN  /\ CallShape(d)
             /\ d.pc = pc /\ d.img = c.img /\ d.client = c.client
             /\ SameTokens(c, d) /\ d.todo = c.todo
BY DEF CallShape, CallFields, SameTokens

LEMMA NextAttemptFields ==
  ASSUME NEW c, CallShape(c), c.pc \in Solving
  PROVE  LET d == NextAttempt(c)
         IN  /\ CallShape(d)
             /\ d.pc \in {"step2", "join", "wave"} /\ d.img \in {c.img, NoId}
             /\ SameClient(c, d)
<1> DEFINE d == [c EXCEPT !.pc = "step2", !.attempt = @ + 1, !.img = NoId, !.powTry = 0, !.emptyShow = 0]
<1>1. CASE NextAttempt(c) = d
  <2>1. /\ CallShape(d) /\ d.pc = "step2" /\ d.img = NoId
        /\ SameTokens(c, d) /\ d.todo = c.todo /\ d.client = c.client
    BY DEF CallShape, CallFields, SameTokens, SomeId
  <2>2. QED
    BY <1>1, <2>1 DEF SameClient, InClient
<1>2. CASE NextAttempt(c) = [c EXCEPT !.pc = "join"]
  BY <1>2, PcFields DEF SameClient, InClient
<1>3. CASE NextAttempt(c) = ClientFailed(c, FALSE)
  BY <1>3, FailedFields DEF SameClient, InClient, Solving
<1>4. QED
  BY <1>1, <1>2, <1>3, Zenon DEF NextAttempt

-----------------------------------------------------------------------------
(* The invariant *)

(* The captcha the solver of a call works on is in no other hands: nobody looks *)
(* at it and no other call has it.  One that is about to be shown is untouched. *)
ShownInv ==
  /\ \A f \in Callers : call[f].pc \in Solving =>
       /\ call[f].img # NoId /\ call[f].img \notin OnShow
       /\ \A g \in Callers : g # f => call[g].img # call[f].img
  /\ \A f \in Callers :
       call[f].pc \in Publishing /\ call[f].img \in touched => call[f].img \in burnt
  /\ ShownCaptchaUntouched

ClientOK(c) == c.pc \in InClient => c.client \in Clients

IssuedOK(c) == c.pc \in Solving => issuedTo[c.img] \in Clients

(* The tokens an app passed are of one captcha, and only its client is tried. *)
TokensOK(c) ==
  /\ c.sid = c.key /\ c.token1 = c.key
  /\ c.key # NoId => /\ c.pin = issuedTo[c.key] /\ c.pin # None
                     /\ c.todo \subseteq {c.pin}
                     /\ c.pc \in InClient => c.client = c.pin

CallOK(f, c) == ClientOK(c) /\ (f \in Apps => TokensOK(c))

AnswerInv ==
  /\ \A f \in Callers : CallOK(f, call[f]) /\ IssuedOK(call[f])
  /\ \A a \in Apps : solved[a].id # NoId => issuedTo[solved[a].id] \in Clients

IInv == Shape /\ ShownInv /\ AnswerInv

LEMMA InvInit == Init => IInv
<1> SUFFICES ASSUME Init PROVE IInv
  OBVIOUS
<1>1. \A f \in Callers : call[f] = NoCall
  BY DEF Init
<1>2. Shape
  BY <1>1, NoCallFields DEF Init, Shape, SomeId
<1>3. ShownInv
  BY <1>1, NoCallFields DEF Init, ShownInv, ShownCaptchaUntouched, Solving, Publishing
<1>4. AnswerInv
  BY <1>1, NoCallFields DEF Init, AnswerInv, CallOK, ClientOK, IssuedOK, TokensOK, InClient, Solving
<1>5. QED
  BY <1>2, <1>3, <1>4 DEF IInv

-----------------------------------------------------------------------------
(* Kinds of steps *)

Moves(f, d) == call' = [call EXCEPT ![f] = d] /\ CallShape(d) /\ CallOK(f, d)

(* No call gets a captcha. *)
Quiet ==
  /\ DOMAIN call' = Callers
  /\ \A g \in Callers : CallShape(call'[g]) /\ CallOK(g, call'[g]) /\ Keeps(call[g], call'[g])

TokenTypes ==
  captchaImageURL \in SomeId /\ lastCaptchaSID \in SomeId /\ lastCaptchaKey \in SomeId /\ lastCaptchaToken1 \in SomeId

SolvedType == solved \in [Apps -> [id : SomeId, done : BOOLEAN]]

LEMMA MoveShape ==
  ASSUME IInv, NEW f \in Callers, NEW d, Moves(f, d)
  PROVE  /\ call'[f] = d /\ \A g \in Callers : g # f => call'[g] = call[g]
         /\ DOMAIN call' = Callers /\ \A g \in Callers : CallShape(call'[g])
BY DEF IInv, Shape, Moves

LEMMA MoveQuiet ==
  ASSUME IInv, NEW f \in Callers, NEW d, Moves(f, d), Keeps(call[f], d)
  PROVE  Quiet
<1>1. /\ call'[f] = d /\ \A g \in Callers : g # f => call'[g] = call[g]
      /\ DOMAIN call' = Callers /\ \A g \in Callers : CallShape(call'[g])
  BY MoveShape
<1>2. QED
  BY <1>1 DEF Quiet, Keeps, Moves, IInv, AnswerInv

LEMMA StayQuiet ==
  ASSUME IInv, call' = call
  PROVE  Quiet
BY DEF Quiet, Keeps, IInv, Shape, AnswerInv

(* Nothing comes on show, and the solver may use the captcha it works on. *)
LEMMA QuietKeeps ==
  ASSUME IInv, Quiet, TokenTypes', SolvedType',
         captchaImageURL' \in {captchaImageURL, NoId},
         \A a \in Apps : solved'[a].id \in {solved[a].id, NoId},
         UNCHANGED <<issuedTo, burnt>>,
         \/ touched' = touched
         \/ \E f \in Callers : call[f].pc \in Solving /\ touched' \in {touched, touched \cup {call[f].img}}
  PROVE  IInv'
<1>3. OnShow' \subseteq OnShow
  BY DEF OnShow
<1>a. ASSUME NEW x, x \in touched', x \notin touched
      PROVE  \E f \in Callers : call[f].pc \in Solving /\ x = call[f].img
  BY <1>a
<1>4. Shape'
  <2>1. touched' \subseteq Ids
    BY <1>a DEF IInv, Shape, CallShape, ShownInv, SomeId
  <2>2. QED
    BY <2>1 DEF IInv, Shape, TokenTypes, SolvedType, Quiet
<1>5. ShownInv'
  <2>1. ASSUME NEW g \in Callers, call'[g].pc \in Solving
        PROVE  /\ call'[g].img # NoId /\ call'[g].img \notin OnShow'
               /\ \A h \in Callers : h # g => call'[h].img # call'[g].img
    <3>1. call[g].pc \in Solving /\ call'[g].img = call[g].img
      BY <2>1 DEF Keeps, Quiet
    <3>2. /\ call[g].img # NoId /\ call[g].img \notin OnShow
          /\ \A h \in Callers : h # g => call[h].img # call[g].img
      BY <3>1 DEF IInv, ShownInv
    <3>3. \A h \in Callers : call'[h].img \in {call[h].img, NoId}
      BY DEF Keeps, Quiet
    <3>4. QED
      BY <1>3, <3>1, <3>2, <3>3
  <2>2. ASSUME NEW g \in Callers, call'[g].pc \in Publishing, call'[g].img \in touched'
        PROVE  call'[g].img \in burnt'
    <3>1. call[g].pc \in Publishing /\ call'[g].img = call[g].img
      BY <2>2 DEF Keeps, Quiet
    <3>2. call[g].img \in touched
      <4>1. SUFFICES ASSUME call[g].img \notin touched PROVE FALSE
        OBVIOUS
      <4>2. PICK f \in Callers : call[f].pc \in Solving /\ call[g].img = call[f].img
        BY <1>a, <2>2, <3>1, <4>1
      <4>3. f # g
        BY <3>1, <4>2 DEF Solving, Publishing
      <4>4. QED
        BY <4>2, <4>3 DEF IInv, ShownInv
    <3>3. QED
      BY <3>1, <3>2 DEF IInv, ShownInv
  <2>3. ShownCaptchaUntouched'
    <3>1. ASSUME NEW x \in OnShow, x \in touched' PROVE x \in touched
      BY <1>a, <3>1 DEF IInv, ShownInv
    <3>2. QED
      BY <1>3, <3>1 DEF IInv, ShownInv, ShownCaptchaUntouched
  <2>4. QED
    BY <2>1, <2>2, <2>3 DEF ShownInv
<1>6. AnswerInv'
  <2>1. ASSUME NEW g \in Callers PROVE CallOK(g, call[g])' /\ IssuedOK(call[g])'
    BY DEF Quiet, Keeps, IInv, AnswerInv, CallOK, ClientOK, TokensOK, IssuedOK
  <2>2. QED
    BY <2>1 DEF IInv, AnswerInv
<1>7. QED
  BY <1>4, <1>5, <1>6 DEF IInv

LEMMA HeldIsKnown ==
  /\ OnShow \subseteq Known
  /\ \A g \in Callers : call[g].img \in Known /\ call[g].key \in Known
  /\ \A a \in Apps : solved[a].id \in Known
<1> DEFINE C(f) == {call[f].sid, call[f].key, call[f].token1, call[f].carry, call[f].img}
<1>1. ASSUME NEW g \in Callers PROVE call[g].img \in Known /\ call[g].key \in Known
  <2>1. call[g].img \in C(g) /\ call[g].key \in C(g)
    OBVIOUS
  <2>2. C(g) \in {C(f) : f \in Callers}
    OBVIOUS
  <2>3. C(g) \subseteq UNION {C(f) : f \in Callers}
    BY <2>2, Zenon
  <2>4. UNION {C(f) : f \in Callers} \subseteq Known
    BY Zenon DEF Known
  <2>5. QED
    BY <2>1, <2>3, <2>4
<1>2. {solved[a].id : a \in Apps} \subseteq Known /\ captchaImageURL \in Known
  <2> DEFINE U == UNION {C(f) : f \in Callers}
  <2>1. Known = {captchaImageURL, lastCaptchaSID, lastCaptchaKey, lastCaptchaToken1} \cup U
                  \cup {solved[a].id : a \in Apps}
    BY DEF Known
  <2> HIDE DEF U
  <2>2. QED
    BY <2>1
<1>3. QED
  BY <1>1, <1>2 DEF OnShow

(* A new captcha is in no hands, and what is known of the others stays. *)
LEMMA NewIsNew ==
  ASSUME IInv, NEW vc \in Clients, NEW k, NewCaptcha(vc, k)
  PROVE  /\ k \in Ids /\ k # NoId
         /\ k \notin OnShow
         /\ \A g \in Callers : k \notin {call[g].img, call[g].key}
         /\ \A a \in Apps : k # solved[a].id
         /\ issuedTo' \in [Ids -> Clients \cup {None}] /\ issuedTo'[k] = vc
         /\ \A j \in Ids \cap Known : issuedTo'[j] = issuedTo[j]
         /\ touched' \subseteq touched \ {k} /\ burnt' \subseteq Ids
         /\ \A j \in burnt \cap Known : j \in burnt'
<1>1. k \in Ids \ Known
  BY DEF NewCaptcha
<1>2. k \in Ids /\ k # NoId
  BY <1>1 DEF Ids, NoId
<1>3. k \notin OnShow /\ \A a \in Apps : k # solved[a].id
  BY <1>1, HeldIsKnown
<1>4. \A g \in Callers : k \notin {call[g].img, call[g].key}
  BY <1>1, HeldIsKnown
<1>5. issuedTo' \in [Ids -> Clients \cup {None}] /\ issuedTo'[k] = vc
  BY <1>2 DEF NewCaptcha, IInv, Shape
<1>6. \A j \in Ids \cap Known : issuedTo'[j] = issuedTo[j]
  BY <1>1 DEF NewCaptcha
<1>7. /\ touched' \subseteq touched \ {k} /\ burnt' \subseteq Ids
      /\ \A j \in burnt \cap Known : j \in burnt'
  BY <1>1 DEF NewCaptcha, IInv, Shape
<1>8. QED
  BY <1>2, <1>3, <1>4, <1>5, <1>6, <1>7

(* VK issues captcha k to the client of call f, which goes on with it or ends; *)
(* an app that ends keeps it for the user.                                     *)
LEMMA NewKeeps ==
  ASSUME IInv, NEW f \in Callers, NEW d, Moves(f, d), NEW vc \in Clients, NEW k, NewCaptcha(vc, k),
         d.key \in {call[f].key, NoId},
         (d.pc \in {"pow", "publish"} /\ d.img = k) \/ (d.pc = "idle" /\ d.img = NoId),
         UNCHANGED tokenVars, SolvedType',
         \A a \in Apps : solved'[a].id = solved[a].id \/ (solved'[a].id = k /\ d.pc = "idle")
  PROVE  IInv'
<1>1. /\ call'[f] = d /\ \A g \in Callers : g # f => call'[g] = call[g]
      /\ DOMAIN call' = Callers /\ \A g \in Callers : CallShape(call'[g])
  BY MoveShape
<1>2. /\ k \in Ids /\ k # NoId
      /\ k \notin OnShow
      /\ \A g \in Callers : k \notin {call[g].img, call[g].key}
      /\ \A a \in Apps : k # solved[a].id
  BY NewIsNew
<1>3. /\ issuedTo' \in [Ids -> Clients \cup {None}] /\ issuedTo'[k] = vc
      /\ \A j \in Ids \cap Known : issuedTo'[j] = issuedTo[j]
      /\ touched' \subseteq touched \ {k} /\ burnt' \subseteq Ids
      /\ \A j \in burnt \cap Known : j \in burnt'
  BY NewIsNew
<1>4. OnShow' \subseteq OnShow \cup (IF d.pc = "idle" THEN {k} ELSE {})
  BY DEF OnShow, tokenVars
<1>5. Shape'
  BY <1>1, <1>3 DEF IInv, Shape, SolvedType, tokenVars
<1>6. ShownInv'
  <2>1. ASSUME NEW g \in Callers, call'[g].pc \in Solving
        PROVE  /\ call'[g].img # NoId /\ call'[g].img \notin OnShow'
               /\ \A h \in Callers : h # g => call'[h].img # call'[g].img
    <3>1. CASE g = f
      <4>1. d.pc = "pow" /\ call'[g].img = k
        BY <1>1, <2>1, <3>1 DEF Solving
      <4>2. QED
        BY <1>1, <1>2, <1>4, <3>1, <4>1
    <3>2. CASE g # f
      <4>1. /\ call[g].img # NoId /\ call[g].img \notin OnShow
            /\ \A h \in Callers : h # g => call[h].img # call[g].img
        BY <1>1, <2>1, <3>2 DEF IInv, ShownInv
      <4>2. call'[g].img = call[g].img /\ call[g].img # k
        BY <1>1, <1>2, <3>2
      <4>3. \A h \in Callers : call'[h].img \in {call[h].img, k, NoId}
        BY <1>1
      <4>4. QED
        BY <1>4, <4>1, <4>2, <4>3
    <3>3. QED
      BY <3>1, <3>2
  <2>2. ASSUME NEW g \in Callers, call'[g].pc \in Publishing, call'[g].img \in touched'
        PROVE  call'[g].img \in burnt'
    <3>1. CASE g = f
      BY <1>1, <1>3, <2>2, <3>1 DEF Publishing
    <3>2. CASE g # f
      <4>1. call[g].img \in burnt
        BY <1>1, <1>3, <2>2, <3>2 DEF IInv, ShownInv
      <4>2. QED
        BY <1>1, <1>3, <3>2, <4>1, HeldIsKnown
    <3>3. QED
      BY <3>1, <3>2
  <2>3. ShownCaptchaUntouched'
    <3>1. ASSUME NEW x \in OnShow', x \in touched' PROVE x \in burnt'
      <4>1. x # k /\ x \in touched
        BY <1>3, <3>1
      <4>2. x \in OnShow
        BY <1>4, <3>1, <4>1
      <4>3. x \in burnt
        BY <4>1, <4>2 DEF IInv, ShownInv, ShownCaptchaUntouched
      <4>4. QED
        BY <1>3, <4>2, <4>3, HeldIsKnown
    <3>2. QED
      BY <3>1 DEF ShownCaptchaUntouched
  <2>4. QED
    BY <2>1, <2>2, <2>3 DEF ShownInv
<1>7. AnswerInv'
  <2>1. \A g \in Callers : call[g].key # NoId => issuedTo'[call[g].key] = issuedTo[call[g].key]
    BY <1>3, HeldIsKnown DEF IInv, Shape, CallShape, SomeId
  <2>2. \A g \in Callers : call[g].img # NoId => issuedTo'[call[g].img] = issuedTo[call[g].img]
    BY <1>3, HeldIsKnown DEF IInv, Shape, CallShape, SomeId
  <2>3. ASSUME NEW g \in Callers PROVE CallOK(g, call[g])'
    <3>1. CASE g = f
      BY <1>1, <2>1, <3>1 DEF Moves, CallOK, ClientOK, TokensOK
    <3>2. CASE g # f
      BY <1>1, <2>1, <3>2 DEF IInv, AnswerInv, CallOK, ClientOK, TokensOK
    <3>3. QED
      BY <3>1, <3>2
  <2>4. ASSUME NEW g \in Callers PROVE IssuedOK(call[g])'
    <3>1. CASE g = f
      BY <1>1, <1>3, <3>1 DEF IssuedOK, Solving
    <3>2. CASE g # f
      BY <1>1, <2>2, <3>2 DEF IInv, AnswerInv, IssuedOK, ShownInv
    <3>3. QED
      BY <3>1, <3>2
  <2>5. ASSUME NEW a \in Apps, solved'[a].id # NoId PROVE issuedTo'[solved'[a].id] \in Clients
    <3>1. CASE solved'[a].id = solved[a].id
      BY <1>3, <2>5, <3>1, HeldIsKnown DEF IInv, AnswerInv, Shape, SomeId
    <3>2. CASE solved'[a].id = k
      BY <1>3, <3>2
    <3>3. QED
      BY <3>1, <3>2
  <2>6. QED
    BY <2>3, <2>4, <2>5 DEF AnswerInv
<1>8. QED
  BY <1>5, <1>6, <1>7 DEF IInv

(* The captcha of call f goes to the user: marked as burnt, or untouched and *)
(* stored by the call itself.                                                *)
LEMMA ShowKeeps ==
  ASSUME IInv, NEW f \in Callers, NEW d, Moves(f, d), TokenTypes', SolvedType',
         d.pc \notin Solving, d.img \in {call[f].img, NoId},
         d.pc \in Publishing => d.img = call[f].img,
         captchaImageURL' \in {captchaImageURL, call[f].img},
         \/ call[f].pc \in Solving /\ burnt' = burnt \cup {call[f].img}
         \/ call[f].pc \in Publishing /\ burnt' = burnt,
         \A a \in Apps : \/ solved'[a].id = solved[a].id
                         \/ solved'[a].id = call[f].img /\ call[f].pc \in Solving,
         UNCHANGED <<touched, issuedTo>>
  PROVE  IInv'
<1> DEFINE m == call[f].img
<1>1. /\ call'[f] = d /\ \A g \in Callers : g # f => call'[g] = call[g]
      /\ DOMAIN call' = Callers /\ \A g \in Callers : CallShape(call'[g])
  BY MoveShape
<1>2. m \in touched => m \in burnt'
  BY DEF IInv, ShownInv
<1>3. burnt \subseteq burnt'
  OBVIOUS
<1>4. OnShow' \subseteq OnShow \cup {m}
  BY DEF OnShow
<1>5. Shape'
  <2>1. burnt' \subseteq Ids
    BY DEF IInv, Shape, CallShape, SomeId, ShownInv
  <2>2. QED
    BY <1>1, <2>1 DEF IInv, Shape, TokenTypes, SolvedType
<1>6. ShownInv'
  <2>1. ASSUME NEW g \in Callers, call'[g].pc \in Solving
        PROVE  /\ call'[g].img # NoId /\ call'[g].img \notin OnShow'
               /\ \A h \in Callers : h # g => call'[h].img # call'[g].img
    <3>1. g # f
      BY <1>1, <2>1
    <3>2. /\ call[g].img # NoId /\ call[g].img \notin OnShow
          /\ \A h \in Callers : h # g => call[h].img # call[g].img
      BY <1>1, <2>1, <3>1 DEF IInv, ShownInv
    <3>3. \A h \in Callers : call'[h].img \in {call[h].img, NoId}
      BY <1>1
    <3>4. QED
      BY <1>1, <1>4, <3>1, <3>2, <3>3
  <2>2. ASSUME NEW g \in Callers, call'[g].pc \in Publishing, call'[g].img \in touched'
        PROVE  call'[g].img \in burnt'
    <3>1. CASE g = f
      BY <1>1, <1>2, <2>2, <3>1
    <3>2. CASE g # f
      BY <1>1, <1>3, <2>2, <3>2 DEF IInv, ShownInv
    <3>3. QED
      BY <3>1, <3>2
  <2>3. ShownCaptchaUntouched'
    BY <1>2, <1>3, <1>4 DEF IInv, ShownInv, ShownCaptchaUntouched
  <2>4. QED
    BY <2>1, <2>2, <2>3 DEF ShownInv
<1>7. AnswerInv'
  <2>1. ASSUME NEW g \in Callers PROVE CallOK(g, call[g])' /\ IssuedOK(call[g])'
    <3>1. CASE g = f
      BY <1>1, <3>1 DEF Moves, CallOK, ClientOK, TokensOK, IssuedOK
    <3>2. CASE g # f
      BY <1>1, <3>2 DEF IInv, AnswerInv, CallOK, ClientOK, TokensOK, IssuedOK
    <3>3. QED
      BY <3>1, <3>2
  <2>2. ASSUME NEW a \in Apps, solved'[a].id # NoId PROVE issuedTo'[solved'[a].id] \in Clients
    BY <2>2 DEF IInv, AnswerInv, IssuedOK
  <2>3. QED
    BY <2>1, <2>2 DEF AnswerInv
<1>8. QED
  BY <1>5, <1>6, <1>7 DEF IInv

-----------------------------------------------------------------------------
(* The steps of a call that has its tokens *)

(* A call whose client fields stay as they are stays in order. *)
LEMMA SameIsOK ==
  ASSUME NEW f, NEW c, CallOK(f, c), NEW d, SameClient(c, d)
  PROVE  CallOK(f, d)
BY DEF CallOK, ClientOK, TokensOK, SameClient, SameTokens

LEMMA NoCallOK ==
  ASSUME NEW f
  PROVE  CallOK(f, NoCall)
BY NoCallFields DEF CallOK, ClientOK, TokensOK, InClient, Solving

LEMMA NoCallKeeps ==
  ASSUME NEW c
  PROVE  Keeps(c, NoCall)
BY NoCallFields DEF Keeps, Solving, Publishing

(* What the steps that hand no captcha out have in common. *)
QuietStep ==
  /\ Quiet
  /\ UNCHANGED <<captchaImageURL, solved, issuedTo, burnt>>
  /\ \/ touched' = touched
     \/ \E f \in Callers : call[f].pc \in Solving /\ touched' \in {touched, touched \cup {call[f].img}}

LEMMA CallIn ==
  ASSUME IInv, NEW f \in Callers
  PROVE  CallShape(call[f]) /\ CallOK(f, call[f])
BY DEF IInv, Shape, AnswerInv

LEMMA QuietInv ==
  ASSUME IInv, QuietStep, TokenTypes'
  PROVE  IInv'
BY QuietKeeps DEF QuietStep, IInv, Shape, SolvedType

LEMMA Quiet1 ==
  ASSUME IInv, NEW f \in Callers, UNCHANGED <<captchaImageURL, solved, vkVars>>, NEW d,
         call' = [call EXCEPT ![f] = d], CallShape(d), Keeps(call[f], d), CallOK(f, d)
  PROVE  QuietStep
BY MoveQuiet DEF QuietStep, Moves, vkVars

(* The steps of GetVKCreds that hand no captcha out. *)
QuietClientStep(f) ==
  \/ Starts(f)
  \/ \E falls \in BOOLEAN : FreePath(f, falls)
  \/ \E vc \in Clients : TryClient(f, vc)
  \/ WaveEnds(f)
  \/ \E net \in BOOLEAN : RequestFails(f, net)
  \/ Step1Ok(f) \/ Step2Token(f) \/ Step2Fatal(f)
  \/ RefreshToken(f) \/ RefreshFails(f)
  \/ JoinOk(f)

LEMMA QuietClient ==
  ASSUME IInv, NEW f \in Callers, QuietClientStep(f)
  PROVE  IInv'
<1> DEFINE c == call[f]
<1>1. CallShape(c) /\ CallOK(f, c)
  BY CallIn
<1>2. TokenTypes' /\ UNCHANGED <<captchaImageURL, solved, vkVars>>
  BY DEF QuietClientStep, Starts, FreePath, TryClient, WaveEnds, RequestFails, Step1Ok, Step2Token,
         Step2Fatal, RefreshToken, RefreshFails, JoinOk, tokenVars, IInv, Shape, TokenTypes
<1>3. SUFFICES \E d : call' = [call EXCEPT ![f] = d] /\ CallShape(d) /\ Keeps(c, d) /\ CallOK(f, d)
  BY <1>2, Quiet1, QuietInv
<1>4. CASE Starts(f)
  <2> DEFINE pc == IF c.token1 = NoId /\ c.sid = NoId /\ c.pin = None THEN "free" ELSE "wave"
             d == [c EXCEPT !.pc = pc, !.wave = 1, !.todo = WaveClients(c)]
  <2>1. pc \in {"free", "wave"}
    OBVIOUS
  <2>2. call' = [call EXCEPT ![f] = d]
    BY <1>4 DEF Starts, Step
  <2> HIDE DEF pc
  <2>3. CallShape(d) /\ d.pc = pc /\ d.img = c.img /\ SameTokens(c, d) /\ d.todo = WaveClients(c)
    BY <1>1 DEF CallShape, CallFields, SameTokens
  <2>4. Keeps(c, d)
    BY <2>1, <2>3 DEF Keeps, Solving, Publishing
  <2>5. CallOK(f, d)
    BY <1>1, <2>1, <2>3 DEF CallOK, ClientOK, TokensOK, SameTokens, WaveClients, InClient, Solving
  <2>6. QED
    BY <2>2, <2>3, <2>4, <2>5
<1>5. ASSUME NEW falls \in BOOLEAN, FreePath(f, falls)
      PROVE  \E d : call' = [call EXCEPT ![f] = d] /\ CallShape(d) /\ Keeps(c, d) /\ CallOK(f, d)
  <2>1. call' = [call EXCEPT ![f] = [c EXCEPT !.pc = "wave"]] \/ call' = [call EXCEPT ![f] = NoCall]
    BY <1>5 DEF FreePath, Returns, Step
  <2>2. LET d == [c EXCEPT !.pc = "wave"] IN CallShape(d) /\ Keeps(c, d) /\ SameClient(c, d)
    BY <1>1, PcFields DEF Keeps, SameClient, InClient, Solving, Publishing
  <2>3. QED
    BY <1>1, <2>1, <2>2, SameIsOK, NoCallFields, NoCallOK, NoCallKeeps
<1>6. ASSUME NEW vc \in Clients, TryClient(f, vc)
      PROVE  \E d : call' = [call EXCEPT ![f] = d] /\ CallShape(d) /\ Keeps(c, d) /\ CallOK(f, d)
  <2> DEFINE pc == IF c.token1 = NoId THEN "step1" ELSE "step2"
             d == [c EXCEPT !.pc = pc, !.todo = @ \ {vc}, !.client = vc, !.attempt = 1, !.carry = c.key,
                            !.token2 = FALSE, !.img = NoId]
  <2>1. pc \in {"step1", "step2"} /\ vc \in c.todo
    BY <1>6 DEF TryClient
  <2>2. call' = [call EXCEPT ![f] = d]
    BY <1>6 DEF TryClient, Step
  <2> HIDE DEF pc
  <2>3. /\ CallShape(d) /\ d.pc = pc /\ d.img = NoId /\ SameTokens(c, d)
        /\ d.todo = c.todo \ {vc} /\ d.client = vc
    BY <1>1 DEF CallShape, CallFields, SameTokens, SomeId
  <2>4. Keeps(c, d)
    BY <2>1, <2>3 DEF Keeps, Solving, Publishing
  <2>5. CallOK(f, d)
    BY <1>1, <2>1, <2>3 DEF CallOK, ClientOK, TokensOK, SameTokens
  <2>6. QED
    BY <2>2, <2>3, <2>4, <2>5
<1>7. CASE WaveEnds(f)
  <2> DEFINE d == [c EXCEPT !.wave = @ + 1, !.todo = WaveClients(c)]
  <2>1. c.pc = "wave" /\ (call' = [call EXCEPT ![f] = d] \/ call' = [call EXCEPT ![f] = NoCall])
    BY <1>7 DEF WaveEnds, Returns, Step
  <2>2. CallShape(d) /\ d.pc = c.pc /\ d.img = c.img /\ SameTokens(c, d) /\ d.todo = WaveClients(c)
    BY <1>1 DEF CallShape, CallFields, SameTokens
  <2>3. Keeps(c, d)
    BY <2>2 DEF Keeps
  <2>4. CallOK(f, d)
    BY <1>1, <2>1, <2>2 DEF CallOK, ClientOK, TokensOK, SameTokens, WaveClients, InClient, Solving
  <2>5. QED
    BY <2>1, <2>2, <2>3, <2>4, NoCallFields, NoCallOK, NoCallKeeps
<1>8. ASSUME NEW net \in BOOLEAN, RequestFails(f, net)
      PROVE  \E d : call' = [call EXCEPT ![f] = d] /\ CallShape(d) /\ Keeps(c, d) /\ CallOK(f, d)
  <2> DEFINE d == ClientFailed(c, net)
  <2>1. call' = [call EXCEPT ![f] = d]
    BY <1>8 DEF RequestFails, Step
  <2>2. CallShape(d) /\ d.pc = "wave" /\ d.img = NoId /\ SameTokens(c, d) /\ d.todo = c.todo
    BY <1>1, FailedFields
  <2> HIDE DEF d
  <2>3. Keeps(c, d) /\ SameClient(c, d)
    BY <2>2 DEF Keeps, SameClient, InClient, Solving, Publishing
  <2>4. QED
    BY <1>1, <2>1, <2>2, <2>3, SameIsOK
<1>9. CASE Step1Ok(f)
  <2> DEFINE d == [c EXCEPT !.pc = "step2"]
  <2>1. c.pc = "step1" /\ call' = [call EXCEPT ![f] = d]
    BY <1>9 DEF Step1Ok, Step
  <2>2. CallShape(d) /\ Keeps(c, d) /\ SameClient(c, d)
    BY <1>1, <2>1, PcFields DEF Keeps, SameClient, InClient, Solving, Publishing
  <2>3. QED
    BY <1>1, <2>1, <2>2, SameIsOK
<1>10. CASE Step2Token(f)
  <2> DEFINE d == [c EXCEPT !.pc = "join", !.token2 = TRUE]
  <2>1. c.pc = "step2" /\ call' = [call EXCEPT ![f] = d]
    BY <1>10 DEF Step2Token, Step
  <2>2. CallShape(d) /\ d.pc = "join" /\ d.img = c.img /\ SameTokens(c, d) /\ d.todo = c.todo /\ d.client = c.client
    BY <1>1 DEF CallShape, CallFields, SameTokens
  <2>3. Keeps(c, d) /\ SameClient(c, d)
    BY <2>1, <2>2 DEF Keeps, SameClient, InClient, Solving, Publishing
  <2>4. QED
    BY <1>1, <2>1, <2>2, <2>3, SameIsOK
<1>11. CASE Step2Fatal(f) \/ JoinOk(f)
  BY <1>11, NoCallFields, NoCallOK, NoCallKeeps DEF Step2Fatal, JoinOk, Returns, Step
<1>12. CASE RefreshToken(f)
  <2> DEFINE e == [c EXCEPT !.token2 = TRUE]
             d == NextAttempt(e)
  <2>1. c.pc = "refresh" /\ call' = [call EXCEPT ![f] = d]
    BY <1>12 DEF RefreshToken, Step
  <2>2. CallShape(e) /\ e.pc = c.pc /\ e.img = c.img /\ SameTokens(c, e) /\ e.todo = c.todo /\ e.client = c.client
    BY <1>1 DEF CallShape, CallFields, SameTokens
  <2> HIDE DEF e
  <2>3. CallShape(d) /\ d.pc \in {"step2", "join", "wave"} /\ d.img \in {c.img, NoId} /\ SameClient(e, d)
    BY <2>1, <2>2, NextAttemptFields DEF Solving
  <2> HIDE DEF d
  <2>4. Keeps(c, d) /\ SameClient(c, d)
    BY <2>2, <2>3 DEF Keeps, SameClient, SameTokens, Solving, Publishing
  <2>5. QED
    BY <1>1, <2>1, <2>3, <2>4, SameIsOK
<1>13. CASE RefreshFails(f)
  <2> DEFINE d == [c EXCEPT !.pc = "last"]
  <2>1. c.pc = "refresh" /\ call' = [call EXCEPT ![f] = d]
    BY <1>13 DEF RefreshFails, Step
  <2>2. CallShape(d) /\ Keeps(c, d) /\ SameClient(c, d)
    BY <1>1, <2>1, PcFields DEF Keeps, SameClient, InClient, Solving, Publishing
  <2>3. QED
    BY <1>1, <2>1, <2>2, SameIsOK
<1>14. QED
  BY <1>4, <1>5, <1>6, <1>7, <1>8, <1>9, <1>10, <1>11, <1>12, <1>13 DEF QuietClientStep

(* The solver uses the captcha of the call. *)
LEMMA SolverSteps ==
  ASSUME IInv, NEW f \in Callers, PoWSolves(f) \/ \E uses, empty \in BOOLEAN : PoWFails(f, uses, empty)
  PROVE  IInv'
<1> DEFINE c == call[f]
<1>1. CallShape(c) /\ CallOK(f, c)
  BY CallIn
<1>2. /\ TokenTypes' /\ UNCHANGED <<captchaImageURL, solved, issuedTo, burnt>>
      /\ c.pc = "pow" /\ touched' \in {touched, touched \cup {c.img}}
  BY DEF PoWSolves, PoWFails, tokenVars, IInv, Shape, TokenTypes
<1>3. SUFFICES \E d : call' = [call EXCEPT ![f] = d] /\ CallShape(d) /\ Keeps(c, d) /\ CallOK(f, d)
  BY <1>2, MoveQuiet, QuietInv DEF QuietStep, Solving, Moves
<1>4. CASE PoWSolves(f)
  <2> DEFINE e == [c EXCEPT !.carry = c.img]
             d == NextAttempt(e)
  <2>1. call' = [call EXCEPT ![f] = d]
    BY <1>4 DEF PoWSolves, Step
  <2>2. CallShape(e) /\ e.pc = c.pc /\ e.img = c.img /\ SameTokens(c, e) /\ e.todo = c.todo /\ e.client = c.client
    BY <1>1 DEF CallShape, CallFields, SameTokens
  <2> HIDE DEF e
  <2>3. CallShape(d) /\ d.pc \in {"step2", "join", "wave"} /\ d.img \in {c.img, NoId} /\ SameClient(e, d)
    BY <1>2, <2>2, NextAttemptFields DEF Solving
  <2> HIDE DEF d
  <2>4. Keeps(c, d) /\ SameClient(c, d)
    BY <2>2, <2>3 DEF Keeps, SameClient, SameTokens, Solving, Publishing
  <2>5. QED
    BY <1>1, <2>1, <2>3, <2>4, SameIsOK
<1>5. ASSUME NEW uses \in BOOLEAN, NEW empty \in BOOLEAN, PoWFails(f, uses, empty)
      PROVE  \E d : call' = [call EXCEPT ![f] = d] /\ CallShape(d) /\ Keeps(c, d) /\ CallOK(f, d)
  <2> DEFINE n == IF empty THEN c.emptyShow + 1 ELSE 0
             pc == IF n < 2 /\ c.powTry < MaxPoW THEN "refresh" ELSE "last"
             d == [c EXCEPT !.pc = pc, !.emptyShow = n]
  <2>1. call' = [call EXCEPT ![f] = d]
    BY <1>5 DEF PoWFails, Step
  <2>2. pc \in {"refresh", "last"}
    OBVIOUS
  <2> HIDE DEF n, pc
  <2>3. CallShape(d) /\ d.pc = pc /\ d.img = c.img /\ SameTokens(c, d) /\ d.todo = c.todo /\ d.client = c.client
    BY <1>1 DEF CallShape, CallFields, SameTokens
  <2>4. Keeps(c, d) /\ SameClient(c, d)
    BY <1>2, <2>2, <2>3 DEF Keeps, SameClient, InClient, Solving, Publishing
  <2>5. QED
    BY <1>1, <2>1, <2>3, <2>4, SameIsOK
<1>6. QED
  BY <1>4, <1>5

(* The record of a call that is about to store captcha k. *)
LEMMA PublishFields ==
  ASSUME NEW k \in SomeId, NEW f
  PROVE  LET d == [NoCall EXCEPT !.pc = "publish", !.img = k]
         IN  CallShape(d) /\ d.pc = "publish" /\ d.img = k /\ d.key = NoId /\ CallOK(f, d)
<1> DEFINE d == [NoCall EXCEPT !.pc = "publish", !.img = k]
<1>1. /\ CallShape(d) /\ d.pc = "publish" /\ d.img = k
      /\ d.sid = NoId /\ d.key = NoId /\ d.token1 = NoId
  BY NoCallFields DEF CallShape, CallFields
<1>2. CallOK(f, d)
  BY <1>1 DEF CallOK, ClientOK, TokensOK, InClient, Solving
<1>3. QED
  BY <1>1, <1>2

(* The answer to the captcha of step 2, or to the solver's failure, is a captcha. *)
LEMMA CaptchaSteps ==
  ASSUME IInv, NEW f \in Callers, NEW k, Step2Captcha(f, k) \/ Refreshed(f, k)
  PROVE  IInv'
<1> DEFINE c == call[f]
<1>1. CallShape(c) /\ CallOK(f, c)
  BY CallIn
<1>2. c.client \in Clients /\ c.pc \in {"step2", "refresh"} /\ NewCaptcha(c.client, k)
  BY <1>1 DEF Step2Captcha, Refreshed, CallOK, ClientOK, InClient, Solving
<1>3. k \in SomeId
  BY <1>2, NewIsNew DEF SomeId
<1>4. PICK d : /\ call' = [call EXCEPT ![f] = d] /\ CallShape(d) /\ d.pc = "pow" /\ d.img = k
               /\ SameTokens(c, d) /\ d.todo = c.todo /\ d.client = c.client
  <2>1. CASE Step2Captcha(f, k)
    <3> DEFINE d == [c EXCEPT !.pc = "pow", !.img = k, !.powTry = 1, !.emptyShow = 0]
    <3>1. call' = [call EXCEPT ![f] = d]
      BY <2>1 DEF Step2Captcha, Step
    <3>2. /\ CallShape(d) /\ d.pc = "pow" /\ d.img = k /\ SameTokens(c, d)
          /\ d.todo = c.todo /\ d.client = c.client
      BY <1>1, <1>3 DEF CallShape, CallFields, SameTokens
    <3>3. QED
      BY <3>1, <3>2
  <2>2. CASE Refreshed(f, k)
    <3> DEFINE d == [c EXCEPT !.pc = "pow", !.img = k, !.powTry = @ + 1]
    <3>1. call' = [call EXCEPT ![f] = d]
      BY <2>2 DEF Refreshed, Step
    <3>2. /\ CallShape(d) /\ d.pc = "pow" /\ d.img = k /\ SameTokens(c, d)
          /\ d.todo = c.todo /\ d.client = c.client
      BY <1>1, <1>3 DEF CallShape, CallFields, SameTokens
    <3>3. QED
      BY <3>1, <3>2
  <2>3. QED
    BY <2>1, <2>2
<1>5. Moves(f, d) /\ d.key \in {c.key, NoId}
  BY <1>1, <1>2, <1>4, SameIsOK DEF Moves, SameClient, SameTokens, InClient, Solving
<1>6. UNCHANGED <<tokenVars, solved>> /\ SolvedType'
  BY DEF Step2Captcha, Refreshed, IInv, Shape, SolvedType
<1>7. /\ (d.pc \in {"pow", "publish"} /\ d.img = k) \/ (d.pc = "idle" /\ d.img = NoId)
      /\ UNCHANGED tokenVars
      /\ \A a \in Apps : solved'[a].id = solved[a].id \/ (solved'[a].id = k /\ d.pc = "idle")
  BY <1>4, <1>6
<1>8. QED
  BY <1>2, <1>5, <1>6, <1>7, NewKeeps, Zenon

(* A captcha is handed over. *)
LEMMA HandSteps ==
  ASSUME IInv, NEW f \in Callers, NEW publishes,
         HandsUsed(f, publishes) \/ \E k \in Ids : HandsFresh(f, k, publishes)
  PROVE  IInv'
<1> DEFINE c == call[f]
<1>1. CallShape(c) /\ CallOK(f, c) /\ c.pc = "last" /\ UNCHANGED tokenVars
  BY CallIn DEF HandsUsed, HandsFresh
<1>2. ASSUME NEW k \in SomeId, HandOver(f, k, publishes)
      PROVE  /\ \E d : /\ Moves(f, d) /\ d.key = NoId
                       /\ (d.pc = "publish" /\ d.img = k /\ solved' = solved) \/ d = NoCall
             /\ \A a \in Apps : \/ solved'[a].id = solved[a].id
                                \/ solved'[a].id = k /\ call' = [call EXCEPT ![f] = NoCall]
             /\ SolvedType'
  <2>1. CASE f \in Apps
    <3>1. Moves(f, NoCall) /\ solved' = [solved EXCEPT ![f] = [id |-> k, done |-> FALSE]]
      BY <1>2, <2>1, NoCallFields, NoCallOK DEF HandOver, Returns, Step, Moves
    <3>2. SolvedType' /\ \A a \in Apps : solved'[a].id = solved[a].id \/ solved'[a].id = k
      BY <2>1, <3>1 DEF IInv, Shape, SolvedType
    <3>3. QED
      BY <3>1, <3>2, NoCallFields DEF Moves
  <2>2. CASE f \notin Apps
    <3>1. solved' = solved /\ SolvedType'
      BY <1>2, <2>2 DEF HandOver, IInv, Shape, SolvedType
    <3>2. CASE publishes
      <4> DEFINE e == [NoCall EXCEPT !.pc = "publish", !.img = k]
      <4>1. call' = [call EXCEPT ![f] = e]
        BY <1>2, <2>2, <3>2 DEF HandOver, Step
      <4>2. CallShape(e) /\ e.pc = "publish" /\ e.img = k /\ e.key = NoId /\ CallOK(f, e)
        BY <1>2, PublishFields
      <4> HIDE DEF e
      <4>3. QED
        <5>1. Moves(f, e) /\ e.key = NoId /\ (e.pc = "publish" /\ e.img = k /\ solved' = solved)
          BY <3>1, <4>1, <4>2 DEF Moves
        <5>2. \A a \in Apps : solved'[a].id = solved[a].id
          BY <3>1
        <5>3. QED
          BY <3>1, <5>1, <5>2
    <3>3. CASE ~publishes
      <4>1. call' = [call EXCEPT ![f] = NoCall]
        BY <1>2, <2>2, <3>3 DEF HandOver, Step
      <4>2. QED
        BY <3>1, <4>1, NoCallFields, NoCallOK DEF Moves
    <3>4. QED
      BY <3>2, <3>3
  <2>3. QED
    BY <2>1, <2>2
<1>3. ASSUME NEW k \in Ids, HandsFresh(f, k, publishes) PROVE IInv'
  <2>1. c.client \in Clients /\ NewCaptcha(c.client, k) /\ HandOver(f, k, publishes) /\ k \in SomeId
    BY <1>1, <1>3 DEF HandsFresh, CallOK, ClientOK, InClient, Solving, SomeId
  <2>2. PICK d : /\ Moves(f, d) /\ d.key = NoId
                 /\ (d.pc = "publish" /\ d.img = k /\ solved' = solved) \/ d = NoCall
    BY <1>2, <2>1
  <2>3. \A a \in Apps : \/ solved'[a].id = solved[a].id
                        \/ solved'[a].id = k /\ call' = [call EXCEPT ![f] = NoCall]
    BY <1>2, <2>1
  <2>4. call'[f] = d
    BY <2>2, MoveShape
  <2>5. \A a \in Apps : solved'[a].id = solved[a].id \/ (solved'[a].id = k /\ d.pc = "idle")
    BY <2>3, <2>4, NoCallFields DEF IInv, Shape
  <2>6. SolvedType'
    BY <1>2, <2>1
  <2>7. /\ d.key \in {c.key, NoId}
        /\ (d.pc \in {"pow", "publish"} /\ d.img = k) \/ (d.pc = "idle" /\ d.img = NoId)
    BY <2>2, NoCallFields
  <2>8. QED
    BY <1>1, <2>1, <2>2, <2>5, <2>6, <2>7, NewKeeps, Zenon
<1>4. CASE HandsUsed(f, publishes)
  <2>1. /\ HandOver(f, c.img, publishes) /\ c.img \in SomeId
        /\ burnt' = burnt \cup {c.img} /\ UNCHANGED <<touched, issuedTo>>
    BY <1>1, <1>4 DEF HandsUsed, CallShape
  <2>2. PICK d : /\ Moves(f, d) /\ d.key = NoId
                 /\ (d.pc = "publish" /\ d.img = c.img /\ solved' = solved) \/ d = NoCall
    BY <1>2, <2>1
  <2>3. SolvedType' /\ \A a \in Apps : solved'[a].id = solved[a].id \/ solved'[a].id = c.img
    BY <1>2, <2>1
  <2>4. c.pc \in Solving /\ d.pc \notin Solving /\ d.img \in {c.img, NoId} /\ (d.pc \in Publishing => d.img = c.img)
    BY <1>1, <2>2, NoCallFields DEF Solving, Publishing
  <2>5. TokenTypes' /\ captchaImageURL' = captchaImageURL
    BY <1>1 DEF tokenVars, TokenTypes, IInv, Shape
  <2>6. /\ captchaImageURL' \in {captchaImageURL, c.img}
        /\ \/ c.pc \in Solving /\ burnt' = burnt \cup {c.img}
           \/ c.pc \in Publishing /\ burnt' = burnt
        /\ \A a \in Apps : solved'[a].id = solved[a].id \/ (solved'[a].id = c.img /\ c.pc \in Solving)
    BY <2>1, <2>3, <2>4, <2>5
  <2>7. QED
    BY <2>1, <2>2, <2>3, <2>4, <2>5, <2>6, ShowKeeps, Zenon
<1>5. QED
  BY <1>3, <1>4

-----------------------------------------------------------------------------
(* The other steps *)

(* A fetch begins and takes the stored tokens. *)
LEMMA FetchSteps ==
  ASSUME IInv, NEW f \in Fetchers, FetchBegins(f) \/ fetchFreshCreds(f)
  PROVE  IInv'
<1> DEFINE c == call[f]
<1>0. f \in Callers /\ f \notin Apps
  BY DEF Callers
<1>1. CallShape(c)
  BY <1>0, CallIn
<1>2. TokenTypes' /\ UNCHANGED <<captchaImageURL, solved, vkVars>>
  BY DEF FetchBegins, fetchFreshCreds, LoadSid, ClearSid, LoadKey, ClearKey, LoadToken1, ClearToken1,
         tokenVars, IInv, Shape, TokenTypes, SomeId
<1> DEFINE Early == {"sid", "sidTaken", "key", "keyTaken", "token1", "token1Taken", "start"}
<1>3. PICK d : call' = [call EXCEPT ![f] = d] /\ CallShape(d) /\ d.pc \in Early /\ d.img \in {c.img, NoId}
  <2>1. CASE FetchBegins(f)
    <3> DEFINE d == [NoCall EXCEPT !.pc = "sid"]
    <3>1. call' = [call EXCEPT ![f] = d]
      BY <2>1 DEF FetchBegins, Step
    <3>2. CallShape(d) /\ d.pc = "sid" /\ d.img = NoId
      BY NoCallFields, PcFields
    <3>3. QED
      BY <3>1, <3>2
  <2>2. CASE LoadSid(f)
    <3> DEFINE pc == IF lastCaptchaSID = NoId THEN "key" ELSE "sidTaken"
               d == [c EXCEPT !.pc = pc, !.sid = lastCaptchaSID]
    <3>1. call' = [call EXCEPT ![f] = d] /\ pc \in {"key", "sidTaken"}
      BY <2>2 DEF LoadSid, Step
    <3> HIDE DEF pc
    <3>2. CallShape(d) /\ d.pc = pc /\ d.img = c.img
      BY <1>1 DEF CallShape, CallFields, IInv, Shape
    <3>3. QED
      BY <3>1, <3>2
  <2>3. CASE LoadKey(f)
    <3> DEFINE pc == IF lastCaptchaKey = NoId THEN "token1" ELSE "keyTaken"
               d == [c EXCEPT !.pc = pc, !.key = lastCaptchaKey]
    <3>1. call' = [call EXCEPT ![f] = d] /\ pc \in {"token1", "keyTaken"}
      BY <2>3 DEF LoadKey, Step
    <3> HIDE DEF pc
    <3>2. CallShape(d) /\ d.pc = pc /\ d.img = c.img
      BY <1>1 DEF CallShape, CallFields, IInv, Shape
    <3>3. QED
      BY <3>1, <3>2
  <2>4. CASE LoadToken1(f)
    <3> DEFINE pc == IF lastCaptchaToken1 = NoId THEN "start" ELSE "token1Taken"
               d == [c EXCEPT !.pc = pc, !.token1 = lastCaptchaToken1]
    <3>1. call' = [call EXCEPT ![f] = d] /\ pc \in {"start", "token1Taken"}
      BY <2>4 DEF LoadToken1, Step
    <3> HIDE DEF pc
    <3>2. CallShape(d) /\ d.pc = pc /\ d.img = c.img
      BY <1>1 DEF CallShape, CallFields, IInv, Shape
    <3>3. QED
      BY <3>1, <3>2
  <2>5. CASE ClearSid(f) \/ ClearKey(f) \/ ClearToken1(f)
    <3>1. PICK pc \in {"key", "token1", "start"} : call' = [call EXCEPT ![f] = [c EXCEPT !.pc = pc]]
      BY <2>5 DEF ClearSid, ClearKey, ClearToken1, Step
    <3>2. LET d == [c EXCEPT !.pc = pc] IN CallShape(d) /\ d.pc = pc /\ d.img = c.img
      BY <1>1, PcFields
    <3>3. QED
      BY <3>1, <3>2
  <2>6. QED
    BY <2>1, <2>2, <2>3, <2>4, <2>5 DEF fetchFreshCreds
<1>4. Keeps(c, d) /\ CallOK(f, d)
  BY <1>0, <1>3 DEF Keeps, CallOK, ClientOK, InClient, Solving, Publishing
<1>5. QED
  BY <1>0, <1>2, <1>3, <1>4, Quiet1, QuietInv

(* The stores of a captcha that is to be shown. *)
LEMMA PublishSteps ==
  ASSUME IInv, NEW f \in Fetchers, Publish(f)
  PROVE  IInv'
<1> DEFINE c == call[f]
<1>0. f \in Callers /\ f \notin Apps
  BY DEF Callers
<1>1. CallShape(c)
  BY <1>0, CallIn
<1>2. c.pc \in Publishing /\ UNCHANGED <<solved, vkVars>> /\ TokenTypes' /\ SolvedType'
  BY <1>1 DEF Publish, PublishImage, PublishSid, PublishToken1, Publishing, CallShape, IInv, Shape,
              TokenTypes, SolvedType
<1>3. PICK d : /\ call' = [call EXCEPT ![f] = d] /\ CallShape(d)
               /\ (d.pc \in Publishing /\ d.img = c.img) \/ (d.pc = "idle" /\ d.img = NoId)
  <2>1. CASE PublishImage(f)
    <3>1. call' = [call EXCEPT ![f] = [c EXCEPT !.pc = "publishSid"]]
      BY <2>1 DEF PublishImage, Step
    <3>2. LET d == [c EXCEPT !.pc = "publishSid"] IN CallShape(d) /\ d.pc = "publishSid" /\ d.img = c.img
      BY <1>1, PcFields
    <3>3. QED
      BY <3>1, <3>2 DEF Publishing
  <2>2. CASE PublishSid(f)
    <3>1. call' = [call EXCEPT ![f] = [c EXCEPT !.pc = "publishToken1"]]
      BY <2>2 DEF PublishSid, Step
    <3>2. LET d == [c EXCEPT !.pc = "publishToken1"] IN CallShape(d) /\ d.pc = "publishToken1" /\ d.img = c.img
      BY <1>1, PcFields
    <3>3. QED
      BY <3>1, <3>2 DEF Publishing
  <2>3. CASE PublishToken1(f)
    BY <2>3, NoCallFields DEF PublishToken1, Returns, Step
  <2>4. QED
    BY <2>1, <2>2, <2>3 DEF Publish
<1>4. /\ Moves(f, d) /\ d.pc \notin Solving /\ d.img \in {c.img, NoId}
      /\ d.pc \in Publishing => d.img = c.img
  BY <1>0, <1>3 DEF Moves, CallOK, ClientOK, InClient, Solving, Publishing
<1>5. captchaImageURL' \in {captchaImageURL, c.img}
  BY DEF Publish, PublishImage, PublishSid, PublishToken1
<1>6. /\ \/ c.pc \in Solving /\ burnt' = burnt \cup {c.img}
         \/ c.pc \in Publishing /\ burnt' = burnt
      /\ \A a \in Apps : \/ solved'[a].id = solved[a].id
                         \/ solved'[a].id = c.img /\ c.pc \in Solving
      /\ UNCHANGED <<touched, issuedTo>>
  BY <1>2 DEF vkVars
<1>7. QED
  BY <1>0, <1>2, <1>4, <1>5, <1>6, ShowKeeps, Zenon

(* An app passes back what it solved. *)
LEMMA ProbeStep ==
  ASSUME IInv, NEW a \in Apps, ProbeBegins(a)
  PROVE  IInv'
<1> DEFINE k == IF solved[a].done THEN solved[a].id ELSE NoId
           pin == IF k = NoId THEN None ELSE issuedTo[k]
           d == [NoCall EXCEPT !.pc = "start", !.sid = k, !.key = k, !.token1 = k, !.pin = pin]
<1>0. a \in Callers
  BY DEF Callers
<1>1. call' = [call EXCEPT ![a] = d] /\ UNCHANGED <<tokenVars, vkVars>>
  BY DEF ProbeBegins, Step
<1>2. k \in SomeId
  BY DEF IInv, Shape, SomeId
<1>3. k # NoId => pin = issuedTo[k] /\ pin # None
  BY DEF IInv, AnswerInv
<1>4. solved' = [solved EXCEPT ![a] = [id |-> NoId, done |-> FALSE]]
  BY DEF ProbeBegins
<1>5. SolvedType' /\ \A b \in Apps : solved'[b].id \in {solved[b].id, NoId}
  BY <1>4 DEF IInv, Shape, SolvedType, SomeId
<1> HIDE DEF k, pin
<1>6. /\ CallShape(d) /\ d.pc = "start" /\ d.img = NoId
      /\ d.sid = k /\ d.key = k /\ d.token1 = k /\ d.pin = pin /\ d.todo = {}
  BY <1>2, NoCallFields DEF CallShape, CallFields
<1> HIDE DEF d
<1>7. Keeps(call[a], d) /\ CallOK(a, d)
  BY <1>3, <1>6 DEF Keeps, CallOK, ClientOK, TokensOK, InClient, Solving, Publishing
<1>8. Quiet
  BY <1>0, <1>1, <1>6, <1>7, MoveQuiet DEF Moves
<1>9. TokenTypes' /\ captchaImageURL' \in {captchaImageURL, NoId} /\ UNCHANGED <<issuedTo, burnt>> /\ touched' = touched
  BY <1>1 DEF IInv, Shape, TokenTypes, tokenVars, vkVars
<1>10. QED
  BY <1>5, <1>8, <1>9, QuietKeeps

(* A new captcha takes the place of the one on show. *)
LEMMA RefreshStep ==
  ASSUME IInv, NEW f \in Fetchers, NEW vc \in Clients, NEW k, RefreshCaptchaURL(f, vc, k)
  PROVE  IInv'
<1> DEFINE d == [NoCall EXCEPT !.pc = "publish", !.img = k]
<1>1. f \in Callers /\ call' = [call EXCEPT ![f] = d] /\ NewCaptcha(vc, k) /\ UNCHANGED <<tokenVars, solved>>
  BY DEF RefreshCaptchaURL, Step, Callers
<1>2. CallShape(d) /\ d.pc = "publish" /\ d.img = k /\ d.key = NoId /\ CallOK(f, d)
  BY <1>1, NewIsNew, PublishFields DEF SomeId
<1> HIDE DEF d
<1>3. /\ Moves(f, d) /\ d.key \in {call[f].key, NoId}
      /\ (d.pc \in {"pow", "publish"} /\ d.img = k) \/ (d.pc = "idle" /\ d.img = NoId)
      /\ UNCHANGED tokenVars /\ SolvedType'
      /\ \A a \in Apps : solved'[a].id = solved[a].id \/ (solved'[a].id = k /\ d.pc = "idle")
  BY <1>1, <1>2 DEF Moves, IInv, Shape, SolvedType
<1>4. QED
  BY <1>1, <1>3, NewKeeps, Zenon

(* The user, the app and the stop of the proxy. *)
LEMMA UserSteps ==
  ASSUME IInv, SolveCaptcha \/ (\E stops \in BOOLEAN : CaptchaCleared(stops))
               \/ ProxyStarts \/ (\E a \in Apps : AppSolves(a))
  PROVE  IInv'
<1>1. call' = call /\ UNCHANGED vkVars
  BY DEF SolveCaptcha, CaptchaCleared, ProxyStarts, AppSolves
<1>2. TokenTypes' /\ captchaImageURL' \in {captchaImageURL, NoId}
  BY DEF SolveCaptcha, CaptchaCleared, ProxyStarts, AppSolves, tokenVars, IInv, Shape, TokenTypes, SomeId
<1>3. SolvedType' /\ \A a \in Apps : solved'[a].id \in {solved[a].id, NoId}
  <2>0. solved \in [Apps -> [id : SomeId, done : BOOLEAN]]
    BY DEF IInv, Shape
  <2>1. CASE solved' = solved
    BY <2>0, <2>1 DEF SolvedType
  <2>2. CASE ProxyStarts
    BY <2>2 DEF ProxyStarts, SolvedType, SomeId
  <2>3. ASSUME NEW a \in Apps, AppSolves(a) PROVE SolvedType' /\ \A b \in Apps : solved'[b].id = solved[b].id
    <3> DEFINE r == [solved[a] EXCEPT !.done = TRUE]
    <3>1. solved' = [solved EXCEPT ![a] = r]
      BY <2>0, <2>3 DEF AppSolves
    <3>2. r \in [id : SomeId, done : BOOLEAN] /\ r.id = solved[a].id
      BY <2>0
    <3> HIDE DEF r
    <3>3. QED
      BY <2>0, <3>1, <3>2 DEF SolvedType
  <2>4. QED
    BY <2>1, <2>2, <2>3 DEF SolveCaptcha, CaptchaCleared
<1>4. QED
  BY <1>1, <1>2, <1>3, StayQuiet, QuietKeeps DEF vkVars

LEMMA StutterStep ==
  ASSUME IInv, UNCHANGED anonVars
  PROVE  IInv'
<1>1. Quiet
  BY StayQuiet DEF anonVars
<1>2. QED
  BY <1>1, QuietInv DEF QuietStep, anonVars, tokenVars, vkVars, IInv, Shape, TokenTypes

LEMMA InvNext ==
  ASSUME IInv, [Next]_vars
  PROVE  IInv'
<1>1. ASSUME NEW f \in Fetchers, FetchBegins(f) \/ fetchFreshCreds(f) \/ Publish(f) PROVE IInv'
  BY <1>1, FetchSteps, PublishSteps
<1>2. ASSUME NEW a \in Apps, ProbeBegins(a) \/ AppSolves(a) PROVE IInv'
  BY <1>2, ProbeStep, UserSteps
<1>3. CASE ProxyStarts \/ SolveCaptcha \/ \E stops \in BOOLEAN : CaptchaCleared(stops)
  BY <1>3, UserSteps
<1>4. ASSUME NEW f \in Callers, GetVKCreds(f) PROVE IInv'
  BY <1>4, QuietClient, SolverSteps, CaptchaSteps, HandSteps DEF GetVKCreds, QuietClientStep
<1>5. ASSUME NEW f \in Fetchers, NEW vc \in Clients, NEW k \in Ids, RefreshCaptchaURL(f, vc, k) PROVE IInv'
  BY <1>5, RefreshStep
<1>6. CASE UNCHANGED anonVars
  BY <1>6, StutterStep
<1>7. QED
  BY <1>1, <1>2, <1>3, <1>4, <1>5, <1>6 DEF Next, vars

LEMMA InvAlways == Spec => []IInv
BY InvInit, InvNext, PTL DEF Spec

-----------------------------------------------------------------------------
(* The theorems *)

(* A captcha the user sees has not been used by the solver of any fetch, but for *)
(* those handed out because VK's last answer held none: HandsFresh asks for one  *)
(* more captcha, and no call keeps a captcha it has handed over.                 *)
THEOREM ShownStaysUntouched == Spec => []ShownCaptchaUntouched
<1>1. IInv => ShownCaptchaUntouched
  BY DEF IInv, ShownInv
<1>2. QED
  BY <1>1, InvAlways, PTL

(* The token an app passes back goes to VK with the SID, step 1 token and client *)
(* of the captcha it solves, in every wave: savedClientID keeps the other        *)
(* clients out of the waves.                                                     *)
THEOREM AnswerStaysWhole == Spec => []AppAnswerWhole
<1>1. IInv => AppAnswerWhole
  <2> SUFFICES ASSUME IInv, NEW a \in Apps, call[a].pc = "step2", call[a].key # NoId
               PROVE  /\ call[a].sid = call[a].key /\ call[a].token1 = call[a].key
                      /\ issuedTo[call[a].key] = call[a].client
    BY DEF AppAnswerWhole
  <2>1. TokensOK(call[a])
    BY DEF IInv, AnswerInv, CallOK, Callers
  <2>2. QED
    BY <2>1 DEF TokensOK, InClient
<1>2. QED
  BY <1>1, InvAlways, PTL

-----------------------------------------------------------------------------
(* The logged-in way: the relays of the slots *)

LEMMA PartFinite ==
  ASSUME NEW n \in Nat, NEW new \in SUBSET (1 .. n)
  PROVE  IsFiniteSet(new) /\ Cardinality(new) \in Nat
<1>1. IsFiniteSet(1 .. n)
  BY FS_Interval
<1>2. IsFiniteSet(new)
  BY <1>1, FS_Subset
<1>3. QED
  BY <1>2, FS_CardinalityType

LEMMA RankIsOnto ==
  ASSUME NEW n \in Nat, NEW new \in SUBSET (1 .. n), NEW p \in 1 .. Cardinality(new)
  PROVE  Nth(new, p) \in new /\ Cardinality({j \in new : j <= Nth(new, p)}) = p
<1> DEFINE Upto(i) == {j \in new : j <= i}
           rank == [i \in new |-> Cardinality(Upto(i))]
<1>1. IsFiniteSet(new) /\ Cardinality(new) \in Nat
  BY PartFinite
<1>2. \A i \in new : IsFiniteSet(Upto(i)) /\ Cardinality(Upto(i)) \in 1 .. Cardinality(new)
  <2> SUFFICES ASSUME NEW i \in new PROVE IsFiniteSet(Upto(i)) /\ Cardinality(Upto(i)) \in 1 .. Cardinality(new)
    OBVIOUS
  <2>1. Upto(i) \in SUBSET new /\ i \in Upto(i)
    OBVIOUS
  <2>2. IsFiniteSet(Upto(i)) /\ Cardinality(Upto(i)) <= Cardinality(new)
    BY <1>1, <2>1, FS_Subset
  <2>3. Cardinality(Upto(i)) \in Nat /\ Cardinality(Upto(i)) # 0
    BY <2>1, <2>2, FS_CardinalityType, FS_EmptySet
  <2>4. QED
    BY <1>1, <2>2, <2>3
<1>3. \A i, k \in new : i < k => Cardinality(Upto(i)) # Cardinality(Upto(k))
  <2> SUFFICES ASSUME NEW i \in new, NEW k \in new, i < k, Cardinality(Upto(i)) = Cardinality(Upto(k)) PROVE FALSE
    OBVIOUS
  <2>0. new \subseteq Nat /\ i \in Nat /\ k \in Nat
    OBVIOUS
  <2>1. Upto(i) \in SUBSET Upto(k) /\ k \in Upto(k) /\ k \notin Upto(i)
    <3>1. \A j \in Upto(i) : j \in Upto(k)
      BY <2>0
    <3>2. k \in Upto(k) /\ k \notin Upto(i)
      BY <2>0
    <3>3. QED
      BY <3>1, <3>2, Zenon
  <2>2. Upto(k) = Upto(i)
    BY <1>2, <2>1, FS_Subset
  <2>3. QED
    BY <2>1, <2>2
<1>4. rank \in Injection(new, 1 .. Cardinality(new))
  <2>1. rank \in [new -> 1 .. Cardinality(new)]
    BY <1>2
  <2>2. \A i, k \in new : rank[i] = rank[k] => i = k
    BY <1>3
  <2>3. QED
    BY <2>1, <2>2 DEF Injection, IsInjective
<1>5. IsFiniteSet(1 .. Cardinality(new)) /\ Cardinality(1 .. Cardinality(new)) = Cardinality(new)
  BY <1>1, FS_Interval
<1> HIDE DEF rank
<1>6. rank \in Surjection(new, 1 .. Cardinality(new))
  BY <1>4, <1>5, FS_Injection
<1>7. PICK i \in new : rank[i] = p
  BY <1>6 DEF Surjection
<1>8. Cardinality({j \in new : j <= i}) = p
  BY <1>7 DEF rank
<1>9. QED
  BY <1>8 DEF Nth

Refs == [address : Relays, linkID : Links]

(* The list grows by addresses that are new to it, each once. *)
Grown(list, seen, urls, longer) ==
  /\ longer \in Seq(Refs) /\ Len(longer) >= Len(list)
  /\ \A i \in 1 .. Len(list) : longer[i] = list[i]
  /\ \A i \in Len(list) + 1 .. Len(longer) :
       /\ longer[i].address \in {urls[j] : j \in DOMAIN urls} \ seen
       /\ \A k \in Len(list) + 1 .. Len(longer) : i # k => longer[i].address # longer[k].address

LEMMA Appended ==
  ASSUME NEW list \in Seq(Refs), NEW seen, NEW urls \in Seq(Relays), NEW l \in Links
  PROVE  Grown(list, seen, urls, AppendNew(list, seen, urls, l))
<1> DEFINE new == NewUrls(seen, urls)
           n == Cardinality(new)
           more == [p \in 1 .. n |-> [address |-> urls[Nth(new, p)], linkID |-> l]]
           longer == AppendNew(list, seen, urls, l)
<1>1. DOMAIN urls = 1 .. Len(urls) /\ Len(urls) \in Nat /\ new \in SUBSET (1 .. Len(urls))
  BY DEF NewUrls
<1>2. n \in Nat
  BY <1>1, PartFinite
<1>3. \A p \in 1 .. n : Nth(new, p) \in new /\ Cardinality({j \in new : j <= Nth(new, p)}) = p
  BY <1>1, RankIsOnto
<1>4. \A i \in new : i \in 1 .. Len(urls) /\ urls[i] \in Relays \ seen
  BY <1>1 DEF NewUrls
<1>5. \A i, j \in new : i # j => urls[i] # urls[j]
  <2>1. \A i, j \in new : j < i => urls[i] # urls[j]
    BY <1>1 DEF NewUrls
  <2>2. QED
    BY <1>4, <2>1
<1>6. \A p, q \in 1 .. n : p # q => Nth(new, p) # Nth(new, q)
  BY <1>3
<1> HIDE DEF new, n
<1>7. \A p \in 1 .. n : more[p] \in Refs /\ more[p].address = urls[Nth(new, p)]
  BY <1>3, <1>4 DEF Refs
<1>8. more \in Seq(Refs) /\ Len(more) = n
  BY <1>2, <1>7
<1>9. longer = list \o more
  BY DEF AppendNew, new, n
<1> HIDE DEF more, longer
<1>10. longer \in Seq(Refs) /\ Len(longer) = Len(list) + n /\ Len(list) \in Nat
       /\ \A i \in 1 .. Len(list) + n : longer[i] = IF i <= Len(list) THEN list[i] ELSE more[i - Len(list)]
  <2>1. Len(list) \in Nat
    OBVIOUS
  <2>2. longer \in Seq(Refs) /\ Len(longer) = Len(list) + Len(more)
        /\ \A i \in 1 .. Len(list) + Len(more) : longer[i] = IF i <= Len(list) THEN list[i] ELSE more[i - Len(list)]
    BY <1>8, <1>9, ConcatProperties, Zenon
  <2>3. QED
    BY <1>8, <2>1, <2>2
<1>11. \A i \in Len(list) + 1 .. Len(longer) :
         i - Len(list) \in 1 .. n /\ longer[i].address = urls[Nth(new, i - Len(list))]
  BY <1>2, <1>7, <1>10
<1>12. \A i \in Len(list) + 1 .. Len(longer) :
         /\ longer[i].address \in {urls[j] : j \in DOMAIN urls} \ seen
         /\ \A k \in Len(list) + 1 .. Len(longer) : i # k => longer[i].address # longer[k].address
  <2> SUFFICES ASSUME NEW i \in Len(list) + 1 .. Len(longer)
               PROVE  /\ longer[i].address \in {urls[j] : j \in DOMAIN urls} \ seen
                      /\ \A k \in Len(list) + 1 .. Len(longer) : i # k => longer[i].address # longer[k].address
    OBVIOUS
  <2>1. longer[i].address \in {urls[j] : j \in DOMAIN urls} \ seen
    BY <1>1, <1>3, <1>4, <1>11
  <2>2. ASSUME NEW k \in Len(list) + 1 .. Len(longer), i # k PROVE longer[i].address # longer[k].address
    <3>1. i - Len(list) # k - Len(list)
      BY <1>10, <2>2
    <3>2. Nth(new, i - Len(list)) # Nth(new, k - Len(list))
      BY <1>6, <1>11, <3>1
    <3>3. QED
      BY <1>3, <1>5, <1>11, <3>2
  <2>3. QED
    BY <2>1, <2>2
<1>13. QED
  BY <1>2, <1>10, <1>12 DEF Grown, longer

(* Whoever is in the locked part holds the mutex. *)
CookieMuInv ==
  \A f \in Fetchers :
    /\ fetch[f].pc \in {"discover", "serve"} => cookieMu = f
    /\ fetch[f].pc \in {"links", "lock", "discover", "serve"} => fetch[f].slot \in Slots
    /\ fetch[f].pc = "serve" => fetch[f].slot <= Len(cookieRelayList)

(* The list has every relay once. *)
ListInv ==
  \A i \in 1 .. Len(cookieRelayList) :
    /\ cookieRelayList[i].address \in cookieRelaySeen
    /\ \A k \in 1 .. Len(cookieRelayList) :
         i # k => cookieRelayList[i].address # cookieRelayList[k].address

(* What a slot was served is the slot's relay. *)
ServedInv ==
  \A s \in Slots : served[s] # None =>
    s <= Len(cookieRelayList) /\ served[s] = cookieRelayList[s].address

CookieInv == CookieTypeOK /\ CookieMuInv /\ ListInv /\ ServedInv

FetchType == [pc : FetchPC, slot : Slots \cup {0}, links : Seq(Links)]

LEMMA CookieInvInit == CookieInit => CookieInv
<1> SUFFICES ASSUME CookieInit PROVE CookieInv
  OBVIOUS
<1>1. Idle \in FetchType
  BY DEF Idle, FetchType, FetchPC
<1>2. CookieTypeOK
  <2>1. setting \in [todo : {"none", "fatal", "links", "caches"}, links : Seq(Links)]
    BY DEF CookieInit, NoSetting
  <2>2. fetch \in [Fetchers -> FetchType]
    BY <1>1 DEF CookieInit
  <2>3. cookieCache \in [Links -> UrlLists \cup {None}] /\ served \in [Slots -> Relays \cup {None}]
    BY DEF CookieInit, NoMint
  <2>4. cookieRelayList \in Seq([address : Relays, linkID : Links]) /\ cookieLinks \in Seq(Links)
    BY DEF CookieInit
  <2>5. QED
    BY <2>1, <2>2, <2>3, <2>4 DEF CookieInit, CookieTypeOK, FetchType
<1>3. QED
  BY <1>2 DEF CookieInit, CookieInv, CookieMuInv, ListInv, ServedInv, Idle

(* A fetch moves on, all else as it was but for the mutex. *)
LEMMA FetchMoves ==
  ASSUME CookieInv, NEW f \in Fetchers, NEW r \in FetchType, fetch' = [fetch EXCEPT ![f] = r],
         UNCHANGED <<cookieAuthEnabled, cookieHeader, cookieLinks, setting, cookieRelayList>>,
         cookieAuthFatal' \in BOOLEAN,
         cookieCache' \in [Links -> UrlLists \cup {None}], cookieDiscoverIdx' \in Nat,
         cookieRelaySeen' = cookieRelaySeen, served' \in [Slots -> Relays \cup {None}],
         ServedInv',
         \/ cookieMu' = cookieMu
         \/ cookieMu = None /\ cookieMu' = f
         \/ cookieMu = f /\ cookieMu' = None,
         r.pc \in {"discover", "serve"} => cookieMu' = f,
         r.pc \in {"links", "lock", "discover", "serve"} => r.slot \in Slots,
         r.pc = "serve" => r.slot <= Len(cookieRelayList)
  PROVE  CookieInv'
<1>1. fetch' \in [Fetchers -> FetchType] /\ fetch'[f] = r /\ \A g \in Fetchers \ {f} : fetch'[g] = fetch[g]
  BY DEF CookieInv, CookieTypeOK, FetchType
<1>2. CookieTypeOK'
  BY <1>1 DEF CookieInv, CookieTypeOK, FetchType
<1>3. CookieMuInv'
  BY <1>1, CookieAssumption DEF CookieInv, CookieMuInv
<1>4. ListInv'
  BY DEF CookieInv, ListInv
<1>5. QED
  BY <1>2, <1>3, <1>4 DEF CookieInv

LEMMA FetchFields ==
  ASSUME CookieInv, NEW f \in Fetchers
  PROVE  /\ fetch \in [Fetchers -> FetchType] /\ fetch[f] \in FetchType
         /\ \A pc \in FetchPC : [fetch[f] EXCEPT !.pc = pc] \in FetchType
         /\ \A pc : /\ [fetch[f] EXCEPT !.pc = pc].pc = pc
                    /\ [fetch[f] EXCEPT !.pc = pc].slot = fetch[f].slot
         /\ Idle \in FetchType /\ Idle.pc = "idle"
<1>1. fetch \in [Fetchers -> FetchType] /\ fetch[f] \in FetchType
  BY DEF CookieInv, CookieTypeOK, FetchType
<1>2. Idle \in FetchType /\ Idle.pc = "idle"
  BY DEF Idle, FetchType, FetchPC
<1>3. QED
  BY <1>1, <1>2 DEF FetchType

LEMMA SettingKeeps ==
  ASSUME CookieInv, SetVKCookieAuth
  PROVE  CookieInv'
<1> USE DEF configVars, mintVars
<1>1. ASSUME NEW e \in BOOLEAN, NEW h \in Cookies \cup {NoCookie}, NEW ls \in Seq(Links), SetBegins(e, h, ls)
      PROVE  CookieInv'
  BY <1>1 DEF SetBegins, CookieInv, CookieTypeOK, CookieMuInv, ListInv, ServedInv
<1>2. CASE SetClearsFatal
  BY <1>2 DEF SetClearsFatal, CookieInv, CookieTypeOK, CookieMuInv, ListInv, ServedInv
<1>3. CASE SetLinks
  <2>1. cookieLinks' \in Seq(Links) /\ setting' \in [todo : {"none", "fatal", "links", "caches"}, links : Seq(Links)]
    <3>1. setting.links \in Seq(Links) /\ NoSetting \in [todo : {"none", "fatal", "links", "caches"}, links : Seq(Links)]
      BY DEF NoSetting, CookieInv, CookieTypeOK
    <3>2. QED
      BY <1>3, <3>1 DEF SetLinks
  <2>2. QED
    BY <1>3, <2>1 DEF SetLinks, CookieInv, CookieTypeOK, CookieMuInv, ListInv, ServedInv
<1>4. CASE SetClearsCaches
  <2>1. CookieTypeOK'
    BY <1>4 DEF SetClearsCaches, NoSetting, NoMint, CookieInv, CookieTypeOK
  <2>2. \A f \in Fetchers : fetch[f].pc \notin {"discover", "serve"}
    BY <1>4, CookieAssumption DEF SetClearsCaches, CookieInv, CookieMuInv
  <2>3. CookieMuInv'
    BY <1>4, <2>2 DEF SetClearsCaches, CookieInv, CookieMuInv
  <2>4. ListInv' /\ ServedInv'
    BY <1>4 DEF SetClearsCaches, ListInv, ServedInv
  <2>5. QED
    BY <2>1, <2>3, <2>4 DEF CookieInv
<1>5. QED
  <2>1. \A ls \in LinkLists : ls \in Seq(Links)
    BY CookieAssumption
  <2>2. <<>> \in Seq(Links)
    OBVIOUS
  <2>3. QED
    BY <1>1, <1>2, <1>3, <1>4, <2>1, <2>2 DEF SetVKCookieAuth

LEMMA DiscoveredKeeps ==
  ASSUME CookieInv, NEW f \in Fetchers, NEW urls \in UrlLists, Discovered(f, urls)
  PROVE  CookieInv'
<1> DEFINE list == cookieRelayList
           l == NextLink(f)
<1>1. /\ list \in Seq(Refs) /\ Len(list) \in Nat /\ urls \in Seq(Relays) /\ l \in Links
  <2>1. fetch[f].links \in Seq(Links) /\ cookieDiscoverIdx \in Nat /\ cookieDiscoverIdx < Len(fetch[f].links)
    BY FetchFields DEF Discovered, WantsRelay, FetchType, CookieInv, CookieTypeOK
  <2>2. cookieDiscoverIdx + 1 \in 1 .. Len(fetch[f].links)
    BY <2>1
  <2>3. l \in Links
    BY <2>1, <2>2 DEF NextLink
  <2>4. QED
    BY <2>3, CookieAssumption DEF CookieInv, CookieTypeOK, Refs
<1>2. /\ cookieRelayList' = AppendNew(list, cookieRelaySeen, urls, l)
      /\ cookieRelaySeen' = cookieRelaySeen \cup {urls[i] : i \in DOMAIN urls}
      /\ cookieCache' = [cookieCache EXCEPT ![l] = urls]
      /\ cookieDiscoverIdx' = cookieDiscoverIdx + 1
      /\ UNCHANGED <<cookieAuthEnabled, cookieHeader, cookieLinks, cookieAuthFatal, setting, cookieMu, fetch, served>>
  BY DEF Discovered, Minted, configVars
<1> HIDE DEF l
<1>3. /\ list' \in Seq(Refs) /\ Len(list') >= Len(list)
      /\ \A i \in 1 .. Len(list) : list'[i] = list[i]
      /\ \A i \in Len(list) + 1 .. Len(list') :
           /\ list'[i].address \in {urls[j] : j \in DOMAIN urls} \ cookieRelaySeen
           /\ \A k \in Len(list) + 1 .. Len(list') : i # k => list'[i].address # list'[k].address
  <2>1. Grown(list, cookieRelaySeen, urls, AppendNew(list, cookieRelaySeen, urls, l))
    BY <1>1, Appended
  <2>2. QED
    BY <1>2, <2>1 DEF Grown
<1>4. CookieTypeOK'
  <2>1. cookieRelaySeen' \subseteq Relays
    BY <1>1, <1>2 DEF CookieInv, CookieTypeOK
  <2>2. cookieCache' \in [Links -> UrlLists \cup {None}] /\ cookieDiscoverIdx' \in Nat
    BY <1>1, <1>2 DEF CookieInv, CookieTypeOK
  <2>3. QED
    BY <1>2, <1>3, <2>1, <2>2 DEF CookieInv, CookieTypeOK, Refs
<1>5. Len(list') \in Nat
  BY <1>3
<1>6. CookieMuInv'
  <2>1. \A g \in Fetchers : fetch[g].slot \in Nat
    BY CookieAssumption, FetchFields DEF FetchType
  <2>2. QED
    BY <1>1, <1>2, <1>3, <1>5, <2>1 DEF CookieInv, CookieMuInv
<1>7. ListInv'
  <2> SUFFICES ASSUME NEW i \in 1 .. Len(list'), NEW k \in 1 .. Len(list')
               PROVE  /\ list'[i].address \in cookieRelaySeen'
                      /\ i # k => list'[i].address # list'[k].address
    BY DEF ListInv
  <2>1. \A m \in 1 .. Len(list') : \/ m \in 1 .. Len(list) /\ list'[m] = list[m]
                                   \/ m \in Len(list) + 1 .. Len(list')
    BY <1>1, <1>3, <1>5
  <2>2. \A m \in 1 .. Len(list) : list[m].address \in cookieRelaySeen
    BY DEF CookieInv, ListInv
  <2>3. \A m \in Len(list) + 1 .. Len(list') : list'[m].address \in cookieRelaySeen' \ cookieRelaySeen
    BY <1>2, <1>3
  <2>4. list'[i].address \in cookieRelaySeen'
    BY <1>2, <2>1, <2>2, <2>3
  <2>5. ASSUME i # k PROVE list'[i].address # list'[k].address
    <3>1. CASE i \in 1 .. Len(list) /\ k \in 1 .. Len(list)
      BY <1>3, <2>5, <3>1 DEF CookieInv, ListInv
    <3>2. CASE i \in Len(list) + 1 .. Len(list') /\ k \in Len(list) + 1 .. Len(list')
      BY <1>3, <2>5, <3>2
    <3>3. QED
      BY <2>1, <2>2, <2>3, <3>1, <3>2
  <2>6. QED
    BY <2>4, <2>5
<1>8. ServedInv'
  <2> SUFFICES ASSUME NEW s \in Slots, served[s] # None
               PROVE  s <= Len(list') /\ served[s] = list'[s].address
    BY <1>2 DEF ServedInv
  <2>1. s \in 1 .. Len(list) /\ served[s] = list[s].address
    BY <1>1, CookieAssumption DEF CookieInv, ServedInv
  <2>2. QED
    BY <1>1, <1>3, <1>5, <2>1
<1>9. QED
  BY <1>4, <1>6, <1>7, <1>8 DEF CookieInv

LEMMA CookieFetchKeeps ==
  ASSUME CookieInv, NEW f \in Fetchers, cookieCredForSlot(f)
  PROVE  CookieInv'
<1>0. /\ cookieAuthFatal \in BOOLEAN /\ cookieCache \in [Links -> UrlLists \cup {None}]
      /\ cookieDiscoverIdx \in Nat /\ served \in [Slots -> Relays \cup {None}] /\ ServedInv
  BY DEF CookieInv, CookieTypeOK
<1> USE DEF configVars, mintVars
<1>1. ASSUME NEW s \in Slots, CookieBegins(f, s) PROVE CookieInv'
  <2>1. PICK r \in FetchType : r.pc \in {"rejected", "links"} /\ r.slot = s /\ fetch' = [fetch EXCEPT ![f] = r]
    <3> DEFINE r(pc) == [Idle EXCEPT !.pc = pc, !.slot = s]
    <3>1. \A pc \in {"rejected", "links"} : r(pc) \in FetchType /\ r(pc).pc = pc /\ r(pc).slot = s
      <4>1. \A x \in FetchType, pc \in FetchPC :
              LET y == [x EXCEPT !.pc = pc, !.slot = s] IN y \in FetchType /\ y.pc = pc /\ y.slot = s
        BY DEF FetchType
      <4>2. {"rejected", "links"} \subseteq FetchPC
        BY DEF FetchPC
      <4>3. ASSUME NEW x \in FetchType, x = Idle, NEW pc \in FetchPC
            PROVE  r(pc) \in FetchType /\ r(pc).pc = pc /\ r(pc).slot = s
        BY <4>1, <4>3
      <4>4. QED
        BY <4>2, <4>3, FetchFields
    <3>2. \E pc \in {"rejected", "links"} : fetch' = [fetch EXCEPT ![f] = r(pc)]
      BY <1>1 DEF CookieBegins
    <3> HIDE DEF r
    <3>3. QED
      BY <3>1, <3>2
  <2>2. QED
    BY <1>0, <1>1, <2>1, FetchMoves DEF CookieBegins, ServedInv
<1>2. CASE LinksLoaded(f)
  <2> DEFINE r(pc) == [fetch[f] EXCEPT !.pc = pc, !.links = cookieLinks]
  <2>1. \A pc \in {"failed", "lock"} : r(pc) \in FetchType /\ r(pc).pc = pc /\ r(pc).slot = fetch[f].slot
    <3>1. fetch[f] \in FetchType /\ cookieLinks \in Seq(Links) /\ {"failed", "lock"} \subseteq FetchPC
      BY FetchFields DEF CookieInv, CookieTypeOK, FetchPC
    <3>2. \A x \in FetchType, ls \in Seq(Links), pc \in FetchPC :
            LET y == [x EXCEPT !.pc = pc, !.links = ls] IN y \in FetchType /\ y.pc = pc /\ y.slot = x.slot
      BY DEF FetchType
    <3>3. ASSUME NEW x \in FetchType, x = fetch[f], NEW ls \in Seq(Links), ls = cookieLinks, NEW pc \in FetchPC
          PROVE  r(pc) \in FetchType /\ r(pc).pc = pc /\ r(pc).slot = fetch[f].slot
      BY <3>2, <3>3
    <3>4. QED
      BY <3>1, <3>3
  <2>2. PICK pc \in {"failed", "lock"} : fetch' = [fetch EXCEPT ![f] = r(pc)]
    BY <1>2, FetchFields DEF LinksLoaded
  <2>3. fetch[f].slot \in Slots
    BY <1>2 DEF LinksLoaded, CookieInv, CookieMuInv
  <2> HIDE DEF r
  <2>4. r(pc) \in FetchType /\ r(pc).pc \in {"failed", "lock"} /\ r(pc).slot \in Slots
    BY <2>1, <2>3
  <2>5. UNCHANGED <<configVars, cookieAuthFatal, setting, cookieMu, mintVars, served>> /\ ServedInv'
    BY <1>0, <1>2 DEF LinksLoaded, ServedInv
  <2>6. QED
    BY <1>0, <2>2, <2>4, <2>5, FetchMoves
<1>3. ASSUME NEW pc \in FetchPC, To(f, pc),
             UNCHANGED <<cookieAuthEnabled, cookieHeader, cookieLinks, setting, cookieRelayList, cookieRelaySeen,
                         cookieAuthFatal>>,
             cookieCache' \in [Links -> UrlLists \cup {None}], cookieDiscoverIdx' \in Nat,
             served' \in [Slots -> Relays \cup {None}], ServedInv',
             \/ cookieMu' = cookieMu
             \/ cookieMu = None /\ cookieMu' = f
             \/ cookieMu = f /\ cookieMu' = None,
             pc \in {"discover", "serve"} => cookieMu' = f /\ fetch[f].slot \in Slots,
             pc = "serve" => fetch[f].slot <= Len(cookieRelayList),
             pc \notin {"links", "lock"}
      PROVE  CookieInv'
  <2> DEFINE r == [fetch[f] EXCEPT !.pc = pc]
  <2>1. r \in FetchType /\ r.pc = pc /\ r.slot = fetch[f].slot
    BY <1>3, FetchFields
  <2>2. fetch' = [fetch EXCEPT ![f] = r]
    BY <1>3, FetchFields DEF To
  <2> HIDE DEF r
  <2>3. QED
    BY <1>0, <1>3, <2>1, <2>2, FetchMoves
<1>4. CASE Locks(f)
  <2>1. fetch[f].slot \in Slots
    BY <1>4 DEF Locks, CookieInv, CookieMuInv
  <2>2. "discover" \in FetchPC /\ ServedInv'
    BY <1>0, <1>4 DEF FetchPC, Locks, ServedInv
  <2>3. QED
    BY <1>0, <1>3, <1>4, <2>1, <2>2 DEF Locks
<1>5. ASSUME NEW urls \in UrlLists, Discovered(f, urls) PROVE CookieInv'
  BY <1>5, DiscoveredKeeps
<1>6. ASSUME NEW urls \in UrlLists, Served(f, urls) PROVE CookieInv'
  <2> DEFINE s == fetch[f].slot
  <2>1. /\ fetch[f].pc = "serve" /\ cookieMu = f /\ s \in Slots /\ s \in 1 .. Len(cookieRelayList)
    <3>1. fetch[f].pc = "serve" /\ cookieMu = f /\ s \in Slots /\ s <= Len(cookieRelayList)
      BY <1>6 DEF Served, CookieInv, CookieMuInv
    <3>2. Len(cookieRelayList) \in Nat
      BY DEF CookieInv, CookieTypeOK
    <3>3. s \in Nat \ {0}
      BY <3>1, CookieAssumption
    <3> HIDE DEF s
    <3>4. QED
      BY <3>1, <3>2, <3>3
  <2>2. cookieRelayList[s] \in Refs
    <3>1. cookieRelayList \in Seq(Refs)
      BY DEF CookieInv, CookieTypeOK, Refs
    <3> HIDE DEF s
    <3>2. QED
      BY <2>1, <3>1
  <2>3. cookieCache' \in [Links -> UrlLists \cup {None}]
    BY <1>0, <1>6 DEF Served, Minted
  <2>4. served' = [served EXCEPT ![s] = cookieRelayList[s].address] /\ cookieRelayList' = cookieRelayList
    BY <1>6 DEF Served
  <2>5. served' \in [Slots -> Relays \cup {None}]
    BY <1>0, <2>2, <2>4 DEF Refs
  <2>6. ServedInv'
    BY <1>0, <2>1, <2>4 DEF ServedInv
  <2>7. "served" \in FetchPC
    BY DEF FetchPC
  <2>8. QED
    BY <1>0, <1>3, <1>6, <2>1, <2>3, <2>5, <2>6, <2>7 DEF Served
<1>7. ASSUME NEW e \in {"rejected", "failed"}, MintFails(f, e) PROVE CookieInv'
  <2>1. cookieMu = f
    BY <1>7 DEF MintFails, CookieInv, CookieMuInv
  <2>2. cookieDiscoverIdx' \in Nat
    BY <1>0, <1>7 DEF MintFails
  <2>3. e \in FetchPC /\ e \notin {"links", "lock", "discover", "serve"} /\ ServedInv'
    BY <1>0, <1>7 DEF FetchPC, MintFails, ServedInv
  <2>4. QED
    BY <1>0, <1>3, <1>7, <2>1, <2>2, <2>3 DEF MintFails
<1>8. CASE Chosen(f)
  <2>1. cookieMu = f /\ fetch[f].slot \in Slots
    BY <1>8 DEF Chosen, CookieInv, CookieMuInv
  <2>2. "serve" \in FetchPC /\ "failed" \in FetchPC /\ ServedInv'
    BY <1>0, <1>8 DEF FetchPC, Chosen, ServedInv
  <2>3. QED
    BY <1>0, <1>3, <1>8, <2>1, <2>2 DEF Chosen
<1>9. CASE CookieReturns(f)
  <2>1. cookieAuthFatal' \in BOOLEAN
    BY <1>0, <1>9 DEF CookieReturns
  <2>2. QED
    BY <1>0, <1>9, <2>1, FetchFields, FetchMoves DEF CookieReturns, ServedInv
<1>10. QED
  BY <1>1, <1>2, <1>4, <1>5, <1>6, <1>7, <1>8, <1>9 DEF cookieCredForSlot

LEMMA CookieInvKept == CookieInv /\ [CookieNext]_cookieVars => CookieInv'
<1> SUFFICES ASSUME CookieInv, [CookieNext]_cookieVars PROVE CookieInv'
  OBVIOUS
<1>1. CASE SetVKCookieAuth
  BY <1>1, SettingKeeps
<1>2. ASSUME NEW f \in Fetchers, cookieCredForSlot(f) PROVE CookieInv'
  BY <1>2, CookieFetchKeeps
<1>3. ASSUME NEW l \in Links, MintStale(l) PROVE CookieInv'
  BY <1>3 DEF MintStale, configVars, CookieInv, CookieTypeOK, CookieMuInv, ListInv, ServedInv
<1>4. CASE UNCHANGED cookieVars
  BY <1>4 DEF cookieVars, configVars, mintVars, CookieInv, CookieTypeOK, CookieMuInv, ListInv, ServedInv
<1>5. QED
  BY <1>1, <1>2, <1>3, <1>4 DEF CookieNext

LEMMA CookieInvAlways == CookieSpec => []CookieInv
BY CookieInvInit, CookieInvKept, PTL DEF CookieSpec

(* The anonymous way leaves the logged-in one alone: every behaviour of the   *)
(* fetches is one of CookieMint, whose configurations may come at any time.   *)
THEOREM CookieImplemented == Spec => CookieSpec
<1>1. Init => CookieInit
  BY DEF Init
<1>2. [Next]_vars => [CookieNext]_cookieVars
  <2> SUFFICES ASSUME [Next]_vars PROVE [CookieNext]_cookieVars
    OBVIOUS
  <2>1. CASE CookieStep
    BY <2>1 DEF CookieStep, CookieNext
  <2>2. ASSUME NEW f, FetchBegins(f) \/ fetchFreshCreds(f) \/ Publish(f) \/ ProbeBegins(f) \/ AppSolves(f)
        PROVE  UNCHANGED cookieVars
    <3>1. CASE FetchBegins(f) \/ ProbeBegins(f) \/ AppSolves(f)
      BY <3>1 DEF FetchBegins, ProbeBegins, AppSolves, Step
    <3>2. CASE fetchFreshCreds(f)
      BY <3>2 DEF fetchFreshCreds, LoadSid, ClearSid, LoadKey, ClearKey, LoadToken1, ClearToken1, Step
    <3>3. CASE Publish(f)
      BY <3>3 DEF Publish, PublishImage, PublishSid, PublishToken1, Returns, Step
    <3>4. QED
      BY <2>2, <3>1, <3>2, <3>3
  <2>3. ASSUME NEW f, Starts(f) \/ (\E falls \in BOOLEAN : FreePath(f, falls)) \/ WaveEnds(f)
                      \/ (\E vc \in Clients : TryClient(f, vc)) \/ (\E net \in BOOLEAN : RequestFails(f, net))
                      \/ Step1Ok(f) \/ Step2Token(f) \/ Step2Fatal(f)
        PROVE  UNCHANGED cookieVars
    BY <2>3 DEF Starts, FreePath, Returns, WaveEnds, TryClient, RequestFails, Step1Ok, Step2Token, Step2Fatal, Step
  <2>4. ASSUME NEW f, PoWSolves(f) \/ (\E uses, empty \in BOOLEAN : PoWFails(f, uses, empty))
                      \/ RefreshToken(f) \/ RefreshFails(f)
                      \/ (\E k \in Ids : Step2Captcha(f, k) \/ Refreshed(f, k)) \/ JoinOk(f)
        PROVE  UNCHANGED cookieVars
    BY <2>4 DEF PoWSolves, PoWFails, RefreshToken, RefreshFails, Step2Captcha, Refreshed, JoinOk, Returns, Step
  <2>5. ASSUME NEW f, \E publishes \in BOOLEAN : HandsUsed(f, publishes) \/ \E k \in Ids : HandsFresh(f, k, publishes)
        PROVE  UNCHANGED cookieVars
    BY <2>5 DEF HandsUsed, HandsFresh, HandOver, Returns, Step
  <2>6. ASSUME NEW f, GetVKCreds(f) PROVE UNCHANGED cookieVars
    BY <2>3, <2>4, <2>5, <2>6 DEF GetVKCreds
  <2>7. CASE ProxyStarts \/ SolveCaptcha \/ (\E stops \in BOOLEAN : CaptchaCleared(stops))
             \/ (\E f \in Fetchers, vc \in Clients, k \in Ids : RefreshCaptchaURL(f, vc, k))
    BY <2>7 DEF ProxyStarts, SolveCaptcha, CaptchaCleared, RefreshCaptchaURL, Step
  <2>8. QED
    BY <2>1, <2>2, <2>6, <2>7 DEF Next, vars
<1>3. QED
  BY <1>1, <1>2, PTL DEF Spec, CookieSpec

(* The caches of the logged-in way and its fetches keep their types, ... *)
THEOREM CookieTypeCorrect == CookieSpec => []CookieTypeOK
<1>1. CookieInv => CookieTypeOK
  BY DEF CookieInv
<1>2. QED
  BY <1>1, CookieInvAlways, PTL

(* ... and each slot has a relay to itself, for any number of concurrent      *)
(* fetches, links and relays, though the configuration may change between any *)
(* two steps: cookieMu covers the discovery and the choice, and a relay that  *)
(* was seen is not listed again.                                              *)
THEOREM RelaysStayDistinct ==
  /\ CookieSpec => []SlotsDistinctRelays
  /\ Spec => []SlotsDistinctRelays
<1>1. ASSUME CookieInv PROVE SlotsDistinctRelays
  <2> SUFFICES ASSUME NEW s \in Slots, NEW t \in Slots, s # t, served[s] # None PROVE served[s] # served[t]
    BY DEF SlotsDistinctRelays
  <2>1. s \in 1 .. Len(cookieRelayList) /\ served[s] = cookieRelayList[s].address
    BY <1>1, CookieAssumption DEF CookieInv, CookieTypeOK, ServedInv
  <2>2. CASE served[t] = None
    BY <2>2
  <2>3. CASE served[t] # None
    <3>1. t \in 1 .. Len(cookieRelayList) /\ served[t] = cookieRelayList[t].address
      BY <1>1, <2>3, CookieAssumption DEF CookieInv, CookieTypeOK, ServedInv
    <3>2. QED
      BY <1>1, <2>1, <3>1 DEF CookieInv, ListInv
  <2>4. QED
    BY <2>2, <2>3
<1>2. QED
  BY <1>1, CookieInvAlways, CookieImplemented, PTL

-----------------------------------------------------------------------------
(* The types, and what a call has left to do *)

(* A call and its counts. *)
Counted(c) ==
  /\ c.wave \in 0 .. MaxWaves /\ c.todo \subseteq Clients /\ c.client \in Clients \cup {None}
  /\ c.attempt \in 0 .. MaxAttempts /\ c.powTry \in 0 .. MaxPoW /\ c.emptyShow \in 0 .. 2
  /\ c.pc \in {"pow", "refresh"} => c.emptyShow <= 1
  /\ c.pc = "refresh" => c.powTry < MaxPoW

Typed(c) ==
  /\ DOMAIN c = CallFields /\ c = [x \in CallFields |-> c[x]]
  /\ c.pc \in CallPC
  /\ c.sid \in SomeId /\ c.key \in SomeId /\ c.token1 \in SomeId /\ c.carry \in SomeId /\ c.img \in SomeId
  /\ c.pin \in Clients \cup {None} /\ c.transient \in BOOLEAN /\ c.token2 \in BOOLEAN
  /\ Counted(c)

LEMMA TypedRec == ASSUME NEW c, Typed(c) PROVE c \in CallRec
<1>1. c = [pc |-> c.pc, sid |-> c.sid, key |-> c.key, token1 |-> c.token1, pin |-> c.pin,
           wave |-> c.wave, todo |-> c.todo, transient |-> c.transient, client |-> c.client,
           attempt |-> c.attempt, carry |-> c.carry, token2 |-> c.token2, img |-> c.img,
           powTry |-> c.powTry, emptyShow |-> c.emptyShow]
  BY DEF Typed, CallFields
<1>2. QED
  BY <1>1 DEF Typed, Counted, CallRec, SomeId

LEMMA CountBounds ==
  /\ 0 \in 0 .. MaxWaves /\ 1 \in 0 .. MaxWaves /\ 0 \in 0 .. MaxAttempts /\ 1 \in 0 .. MaxAttempts
  /\ 0 \in 0 .. MaxPoW /\ 1 \in 0 .. MaxPoW /\ 0 \in 0 .. 2
OBVIOUS

(* Work goes down at its first component that changes. *)
LEMMA LessWork ==
  ASSUME NEW c, Typed(c), NEW d, Typed(d),
         \/ Phase[d.pc] < Phase[c.pc]
         \/ /\ Phase[d.pc] = Phase[c.pc]
            /\ \/ d.wave > c.wave
               \/ /\ d.wave = c.wave
                  /\ \/ \E vc \in c.todo : d.todo = c.todo \ {vc}
                     \/ /\ d.todo = c.todo
                        /\ \/ c.client # None /\ d.client = None
                           \/ /\ d.client = c.client
                              /\ \/ d.attempt > c.attempt
                                 \/ /\ d.attempt = c.attempt
                                    /\ \/ Stage[d.pc] < Stage[c.pc]
                                       \/ /\ Stage[d.pc] = Stage[c.pc]
                                          /\ \/ d.powTry > c.powTry
                                             \/ d.powTry = c.powTry /\ c.pc = "pow" /\ d.pc # "pow"
  PROVE  Less(Work(d), Work(c))
<1> DEFINE v == Work(d)
           w == Work(c)
<1>1. /\ v[1] = Phase[d.pc] /\ v[2] = MaxWaves - d.wave /\ v[3] = Cardinality(d.todo)
      /\ v[4] = (IF d.client = None THEN 0 ELSE 1) /\ v[5] = MaxAttempts - d.attempt
      /\ v[6] = Stage[d.pc] /\ v[7] = MaxPoW - d.powTry /\ v[8] = (IF d.pc = "pow" THEN 1 ELSE 0)
      /\ DOMAIN v = 1 .. 8
  BY DEF Work
<1>2. /\ w[1] = Phase[c.pc] /\ w[2] = MaxWaves - c.wave /\ w[3] = Cardinality(c.todo)
      /\ w[4] = (IF c.client = None THEN 0 ELSE 1) /\ w[5] = MaxAttempts - c.attempt
      /\ w[6] = Stage[c.pc] /\ w[7] = MaxPoW - c.powTry /\ w[8] = (IF c.pc = "pow" THEN 1 ELSE 0)
  BY DEF Work
<1>3. /\ d.wave \in 0 .. MaxWaves /\ c.wave \in 0 .. MaxWaves
      /\ d.attempt \in 0 .. MaxAttempts /\ c.attempt \in 0 .. MaxAttempts
      /\ d.powTry \in 0 .. MaxPoW /\ c.powTry \in 0 .. MaxPoW
  BY DEF Typed, Counted
<1>4. ASSUME NEW vc \in c.todo, d.todo = c.todo \ {vc} PROVE Cardinality(d.todo) < Cardinality(c.todo)
  <2>1. IsFiniteSet(c.todo)
    BY FS_Subset DEF Typed, Counted
  <2>2. Cardinality(d.todo) = Cardinality(c.todo) - 1 /\ Cardinality(c.todo) \in Nat
    BY <1>4, <2>1, FS_RemoveElement, FS_CardinalityType
  <2>3. QED
    BY <2>2
<1> HIDE DEF v, w
<1>5. ASSUME NEW i \in 1 .. 8, v[i] < w[i], \A j \in 1 .. 8 : j < i => v[j] = w[j] PROVE Less(v, w)
  BY <1>1, <1>5 DEF Less
<1>6. \/ v[1] < w[1]
      \/ v[1] = w[1] /\ v[2] < w[2]
      \/ v[1] = w[1] /\ v[2] = w[2] /\ v[3] < w[3]
      \/ v[1] = w[1] /\ v[2] = w[2] /\ v[3] = w[3] /\ v[4] < w[4]
      \/ v[1] = w[1] /\ v[2] = w[2] /\ v[3] = w[3] /\ v[4] = w[4] /\ v[5] < w[5]
      \/ v[1] = w[1] /\ v[2] = w[2] /\ v[3] = w[3] /\ v[4] = w[4] /\ v[5] = w[5] /\ v[6] < w[6]
      \/ v[1] = w[1] /\ v[2] = w[2] /\ v[3] = w[3] /\ v[4] = w[4] /\ v[5] = w[5] /\ v[6] = w[6]
         /\ v[7] < w[7]
      \/ v[1] = w[1] /\ v[2] = w[2] /\ v[3] = w[3] /\ v[4] = w[4] /\ v[5] = w[5] /\ v[6] = w[6]
         /\ v[7] = w[7] /\ v[8] < w[8]
  BY <1>1, <1>2, <1>3, <1>4
<1>7. Less(v, w)
  BY <1>5, <1>6
<1>8. QED
  BY <1>7 DEF v, w

LEMMA Ranks ==
  /\ \A pc \in {"sid", "sidTaken", "key", "keyTaken", "token1", "token1Taken", "start"} : Phase[pc] = 3
  /\ \A pc \in {"free", "wave", "step1", "step2", "pow", "refresh", "last", "join"} : Phase[pc] = 2
  /\ \A pc \in {"publish", "publishSid", "publishToken1"} : Phase[pc] = 1
  /\ Phase["idle"] = 0
  /\ Stage["sid"] = 7 /\ Stage["sidTaken"] = 6 /\ Stage["key"] = 5 /\ Stage["keyTaken"] = 4
  /\ Stage["token1"] = 3 /\ Stage["token1Taken"] = 2 /\ Stage["start"] = 1
  /\ Stage["step1"] = 5 /\ Stage["step2"] = 4 /\ Stage["pow"] = 3 /\ Stage["refresh"] = 3
  /\ Stage["last"] = 2 /\ Stage["join"] = 1
  /\ Stage["publish"] = 3 /\ Stage["publishSid"] = 2 /\ Stage["publishToken1"] = 1
<1>1. /\ \A pc \in {"sid", "sidTaken", "key", "keyTaken", "token1", "token1Taken", "start"} : Phase[pc] = 3
      /\ \A pc \in {"free", "wave", "step1", "step2", "pow", "refresh", "last", "join"} : Phase[pc] = 2
      /\ \A pc \in {"publish", "publishSid", "publishToken1"} : Phase[pc] = 1
      /\ Phase["idle"] = 0
  BY DEF Phase, CallPC
<1>2. QED
  BY <1>1 DEF Stage

(* A call that is not idle has something left to do, an idle one nothing. *)
LEMMA PhaseOf == ASSUME NEW pc \in CallPC, pc # "idle" PROVE Phase[pc] > Phase["idle"]
BY DEF Phase, CallPC

SameCounts(c, d) ==
  d.wave = c.wave /\ d.todo = c.todo /\ d.client = c.client /\ d.attempt = c.attempt /\ d.powTry = c.powTry

(* A step that leaves the counts alone. *)
LEMMA NextStage ==
  ASSUME NEW c, Typed(c), NEW d, Typed(d), SameCounts(c, d),
         Phase[d.pc] < Phase[c.pc] \/ (Phase[d.pc] = Phase[c.pc] /\ Stage[d.pc] < Stage[c.pc])
  PROVE  Less(Work(d), Work(c))
BY LessWork DEF SameCounts

LEMMA NoCallTyped ==
  /\ Typed(NoCall)
  /\ \A c : Typed(c) /\ c.pc # "idle" => Less(Work(NoCall), Work(c))
<1>1. Typed(NoCall) /\ NoCall.pc = "idle"
  BY CountBounds DEF Typed, Counted, NoCall, CallFields, CallPC, SomeId
<1>2. QED
  BY <1>1, LessWork, PhaseOf DEF Typed

LEMMA PcTyped ==
  ASSUME NEW c, Typed(c), NEW pc \in CallPC \ {"pow", "refresh"}
  PROVE  LET d == [c EXCEPT !.pc = pc]
         IN  Typed(d) /\ d.pc = pc /\ SameCounts(c, d)
BY DEF Typed, Counted, CallFields, SameCounts

LEMMA FailedTyped ==
  ASSUME NEW c, Typed(c), c.client # None, c.pc \in InClient, NEW net \in BOOLEAN
  PROVE  LET d == ClientFailed(c, net) IN Typed(d) /\ Less(Work(d), Work(c))
<1> DEFINE d == ClientFailed(c, net)
<1>1. /\ DOMAIN d = CallFields /\ d = [x \in CallFields |-> d[x]]
      /\ d.pc = "wave" /\ d.client = None /\ d.attempt = 0 /\ d.carry = NoId /\ d.token2 = FALSE
      /\ d.img = NoId /\ d.powTry = 0 /\ d.emptyShow = 0 /\ d.transient \in BOOLEAN
      /\ d.sid = c.sid /\ d.key = c.key /\ d.token1 = c.token1 /\ d.pin = c.pin
      /\ d.wave = c.wave /\ d.todo = c.todo
  BY DEF Typed, CallFields, ClientFailed
<1> HIDE DEF d
<1>2. Typed(d)
  BY <1>1, CountBounds DEF Typed, Counted, SomeId, CallPC
<1>3. Less(Work(d), Work(c))
  BY <1>1, <1>2, LessWork, Ranks DEF InClient, Solving
<1>4. QED
  BY <1>2, <1>3 DEF d

LEMMA AttemptTyped ==
  ASSUME NEW c, Typed(c), c.client # None, c.pc \in Solving
  PROVE  LET d == NextAttempt(c) IN Typed(d) /\ Less(Work(d), Work(c))
<1> DEFINE d == [c EXCEPT !.pc = "step2", !.attempt = @ + 1, !.img = NoId, !.powTry = 0, !.emptyShow = 0]
           e == [c EXCEPT !.pc = "join"]
<1>1. CASE c.attempt < MaxAttempts /\ NextAttempt(c) = d
  <2>1. /\ DOMAIN d = CallFields /\ d = [x \in CallFields |-> d[x]]
        /\ d.pc = "step2" /\ d.attempt = c.attempt + 1 /\ d.img = NoId /\ d.powTry = 0 /\ d.emptyShow = 0
        /\ d.carry = c.carry /\ d.token2 = c.token2 /\ d.transient = c.transient
        /\ d.sid = c.sid /\ d.key = c.key /\ d.token1 = c.token1 /\ d.pin = c.pin
        /\ d.wave = c.wave /\ d.todo = c.todo /\ d.client = c.client
    BY DEF Typed, CallFields
  <2> HIDE DEF d
  <2>2. c.attempt \in 0 .. MaxAttempts /\ d.attempt \in 0 .. MaxAttempts
    BY <1>1, <2>1 DEF Typed, Counted
  <2>3. Typed(d)
    BY <2>1, <2>2, CountBounds DEF Typed, Counted, SomeId, CallPC
  <2>4. Less(Work(d), Work(c))
    BY <2>1, <2>2, <2>3, LessWork, Ranks DEF Solving
  <2>5. QED
    BY <1>1, <2>3, <2>4
<1>2. CASE NextAttempt(c) = e
  <2>1. Typed(e) /\ e.pc = "join" /\ SameCounts(c, e)
    BY PcTyped DEF CallPC
  <2>2. Phase[e.pc] = Phase[c.pc] /\ Stage[e.pc] < Stage[c.pc]
    BY <2>1, Ranks DEF Solving
  <2>3. QED
    BY <1>2, <2>1, <2>2, NextStage
<1>3. CASE NextAttempt(c) = ClientFailed(c, FALSE)
  BY <1>3, FailedTyped DEF InClient
<1>4. QED
  BY <1>1, <1>2, <1>3, Zenon DEF NextAttempt

(* Call f goes on to d. *)
Forward(f) ==
  /\ Typed(call'[f])
  /\ call[f].pc # "idle" => Less(Work(call'[f]), Work(call[f]))
  /\ \A g \in Callers : g # f => call'[g] = call[g]
  /\ call' = [g \in Callers |-> call'[g]]

LEMMA StepTo ==
  ASSUME IInv, NEW f \in Callers, NEW d, Step(f, d), Typed(d),
         call[f].pc # "idle" => Less(Work(d), Work(call[f]))
  PROVE  Forward(f)
BY DEF IInv, Shape, Step, Forward

LEMMA ReturnsForward ==
  ASSUME IInv, NEW f \in Callers, Typed(call[f]), Returns(f)
  PROVE  Forward(f)
BY NoCallTyped, StepTo DEF Returns

(* Only pc changes. *)
LEMMA PcForward ==
  ASSUME IInv, NEW f \in Callers, Typed(call[f]), NEW pc \in CallPC \ {"pow", "refresh"},
         Step(f, [call[f] EXCEPT !.pc = pc]),
         \/ Phase[pc] < Phase[call[f].pc]
         \/ Phase[pc] = Phase[call[f].pc] /\ Stage[pc] < Stage[call[f].pc]
  PROVE  Forward(f)
<1>1. LET d == [call[f] EXCEPT !.pc = pc] IN Typed(d) /\ d.pc = pc /\ SameCounts(call[f], d)
  BY PcTyped
<1>2. QED
  BY <1>1, NextStage, StepTo

LEMMA WaveForward ==
  ASSUME IInv, NEW f \in Callers, Typed(call[f]),
         \/ Starts(f) \/ (\E falls \in BOOLEAN : FreePath(f, falls)) \/ WaveEnds(f)
         \/ \E vc \in Clients : TryClient(f, vc)
  PROVE  Forward(f)
<1> DEFINE c == call[f]
<1>0. /\ c.pin \in Clients \cup {None} /\ c.wave \in 0 .. MaxWaves /\ c.todo \subseteq Clients
      /\ c.sid \in SomeId /\ c.key \in SomeId /\ c.token1 \in SomeId
  BY DEF Typed, Counted
<1>1. WaveClients(c) \subseteq Clients
  BY <1>0 DEF WaveClients
<1>2. CASE Starts(f)
  <2> DEFINE pc == IF c.token1 = NoId /\ c.sid = NoId /\ c.pin = None THEN "free" ELSE "wave"
             d == [c EXCEPT !.pc = pc, !.wave = 1, !.todo = WaveClients(c)]
  <2>1. c.pc = "start" /\ Step(f, d)
    BY <1>2 DEF Starts
  <2>2. /\ DOMAIN d = CallFields /\ d = [x \in CallFields |-> d[x]]
        /\ d.pc \in {"free", "wave"} /\ d.wave = 1 /\ d.todo = WaveClients(c)
        /\ d.attempt = c.attempt /\ d.img = c.img /\ d.powTry = c.powTry /\ d.emptyShow = c.emptyShow
        /\ d.carry = c.carry /\ d.token2 = c.token2 /\ d.transient = c.transient
        /\ d.sid = c.sid /\ d.key = c.key /\ d.token1 = c.token1 /\ d.pin = c.pin /\ d.client = c.client
    BY DEF Typed, CallFields
  <2> HIDE DEF d
  <2>3. Typed(d)
    BY <1>1, <2>2, CountBounds DEF Typed, Counted, CallPC
  <2>4. Less(Work(d), Work(c))
    BY <2>1, <2>2, <2>3, LessWork, Ranks
  <2>5. QED
    BY <2>1, <2>3, <2>4, StepTo
<1>3. ASSUME NEW falls \in BOOLEAN, FreePath(f, falls) PROVE Forward(f)
  <2>1. CASE Step(f, [c EXCEPT !.pc = "wave"])
    <3>1. c.pc = "free"
      BY <1>3 DEF FreePath
    <3>2. Phase["wave"] = Phase[c.pc] /\ Stage["wave"] < Stage[c.pc] /\ "wave" \in CallPC
      BY <3>1, Ranks DEF Stage, CallPC
    <3>3. QED
      BY <2>1, <3>2, PcForward
  <2>2. QED
    BY <1>3, <2>1, ReturnsForward DEF FreePath
<1>4. CASE WaveEnds(f)
  <2> DEFINE d == [c EXCEPT !.wave = @ + 1, !.todo = WaveClients(c)]
  <2>1. CASE c.pc = "wave" /\ c.wave < MaxWaves /\ Step(f, d)
    <3>1. /\ DOMAIN d = CallFields /\ d = [x \in CallFields |-> d[x]]
          /\ d.pc = c.pc /\ d.wave = c.wave + 1 /\ d.todo = WaveClients(c)
          /\ d.attempt = c.attempt /\ d.img = c.img /\ d.powTry = c.powTry /\ d.emptyShow = c.emptyShow
          /\ d.carry = c.carry /\ d.token2 = c.token2 /\ d.transient = c.transient
          /\ d.sid = c.sid /\ d.key = c.key /\ d.token1 = c.token1 /\ d.pin = c.pin /\ d.client = c.client
      BY DEF Typed, CallFields
    <3> HIDE DEF d
    <3>2. d.wave \in 0 .. MaxWaves /\ d.wave > c.wave
      BY <1>0, <2>1, <3>1
    <3>3. Typed(d)
      BY <1>1, <3>1, <3>2 DEF Typed, Counted
    <3>4. Less(Work(d), Work(c))
      BY <3>1, <3>2, <3>3, LessWork
    <3>5. QED
      BY <2>1, <3>3, <3>4, StepTo
  <2>2. QED
    BY <1>4, <2>1, ReturnsForward DEF WaveEnds
<1>5. ASSUME NEW vc \in Clients, TryClient(f, vc) PROVE Forward(f)
  <2> DEFINE pc == IF c.token1 = NoId THEN "step1" ELSE "step2"
             d == [c EXCEPT !.pc = pc, !.todo = @ \ {vc}, !.client = vc, !.attempt = 1, !.carry = c.key,
                            !.token2 = FALSE, !.img = NoId]
  <2>1. c.pc = "wave" /\ vc \in c.todo /\ Step(f, d)
    BY <1>5 DEF TryClient
  <2>2. /\ DOMAIN d = CallFields /\ d = [x \in CallFields |-> d[x]]
        /\ d.pc \in {"step1", "step2"} /\ d.wave = c.wave /\ d.todo = c.todo \ {vc}
        /\ d.attempt = 1 /\ d.img = NoId /\ d.powTry = c.powTry /\ d.emptyShow = c.emptyShow
        /\ d.carry = c.key /\ d.token2 = FALSE /\ d.transient = c.transient
        /\ d.sid = c.sid /\ d.key = c.key /\ d.token1 = c.token1 /\ d.pin = c.pin /\ d.client = vc
    BY DEF Typed, CallFields
  <2> HIDE DEF d
  <2>3. Typed(d)
    BY <2>2, CountBounds DEF Typed, Counted, CallPC, SomeId
  <2>4. Phase[d.pc] = Phase[c.pc]
    BY <2>1, <2>2, Ranks
  <2>5. Less(Work(d), Work(c))
    BY <2>1, <2>2, <2>3, <2>4, LessWork
  <2>6. QED
    BY <2>1, <2>3, <2>5, StepTo
<1>6. QED
  BY <1>2, <1>3, <1>4, <1>5

(* The steps within a client: a request fails or gets on, ... *)
LEMMA RequestForward ==
  ASSUME IInv, NEW f \in Callers, Typed(call[f]),
         \/ (\E net \in BOOLEAN : RequestFails(f, net)) \/ Step1Ok(f) \/ Step2Token(f) \/ Step2Fatal(f)
         \/ RefreshFails(f) \/ JoinOk(f)
  PROVE  Forward(f)
<1> DEFINE c == call[f]
<1>1. c.pc \in InClient => c.client # None
  BY DEF IInv, AnswerInv, CallOK, ClientOK
<1>2. ASSUME NEW net \in BOOLEAN, RequestFails(f, net) PROVE Forward(f)
  <2>1. c.pc \in InClient /\ Step(f, ClientFailed(c, net))
    BY <1>2 DEF RequestFails, InClient
  <2>2. QED
    BY <1>1, <2>1, FailedTyped, StepTo
<1>3. CASE Step1Ok(f)
  <2>1. Phase["step2"] = Phase[c.pc] /\ Stage["step2"] < Stage[c.pc] /\ "step2" \in CallPC
    BY <1>3, Ranks DEF Step1Ok, CallPC
  <2>2. QED
    BY <1>3, <2>1, PcForward DEF Step1Ok
<1>4. CASE Step2Token(f)
  <2> DEFINE d == [c EXCEPT !.pc = "join", !.token2 = TRUE]
  <2>1. c.pc = "step2" /\ Step(f, d)
    BY <1>4 DEF Step2Token
  <2>2. /\ DOMAIN d = CallFields /\ d = [x \in CallFields |-> d[x]]
        /\ d.pc = "join" /\ d.emptyShow = c.emptyShow /\ d.carry = c.carry /\ d.img = c.img
        /\ d.token2 = TRUE /\ d.transient = c.transient /\ d.sid = c.sid /\ d.key = c.key
        /\ d.token1 = c.token1 /\ d.pin = c.pin /\ SameCounts(c, d)
    BY DEF Typed, CallFields, SameCounts
  <2>3. Phase["join"] = Phase[c.pc] /\ Stage["join"] < Stage[c.pc]
    BY <2>1, Ranks
  <2> HIDE DEF d
  <2>4. Typed(d)
    BY <2>2 DEF Typed, Counted, CallPC, SameCounts
  <2>5. QED
    BY <2>1, <2>2, <2>3, <2>4, NextStage, StepTo
<1>5. CASE RefreshFails(f)
  <2>1. Phase["last"] = Phase[c.pc] /\ Stage["last"] < Stage[c.pc] /\ "last" \in CallPC
    BY <1>5, Ranks DEF RefreshFails, CallPC
  <2>2. QED
    BY <1>5, <2>1, PcForward DEF RefreshFails
<1>6. CASE Step2Fatal(f) \/ JoinOk(f)
  BY <1>6, ReturnsForward DEF Step2Fatal, JoinOk
<1>7. QED
  BY <1>2, <1>3, <1>4, <1>5, <1>6

(* ... the captcha loop ... *)
LEMMA SolverForward ==
  ASSUME IInv, NEW f \in Callers, Typed(call[f]),
         \/ PoWSolves(f) \/ RefreshToken(f) \/ (\E uses, empty \in BOOLEAN : PoWFails(f, uses, empty))
         \/ \E k \in Ids : Step2Captcha(f, k) \/ Refreshed(f, k)
  PROVE  Forward(f)
<1> DEFINE c == call[f]
<1>1. c.pc \in InClient => c.client # None
  BY DEF IInv, AnswerInv, CallOK, ClientOK
<1>2. c.pc \in Solving => c.pc \in InClient
  BY DEF InClient
<1>3. c.powTry \in 0 .. MaxPoW /\ c.emptyShow \in 0 .. 2
  BY DEF Typed, Counted
<1>4. ASSUME NEW b, Typed(b), SameCounts(c, b), b.pc = c.pc, c.pc \in Solving, Step(f, NextAttempt(b))
      PROVE  Forward(f)
  <2> DEFINE d == NextAttempt(b)
  <2>1. Typed(d) /\ Less(Work(d), Work(b))
    BY <1>1, <1>2, <1>4, AttemptTyped DEF SameCounts
  <2>2. Work(b) = Work(c)
    BY <1>4, Zenon DEF Work, SameCounts
  <2> HIDE DEF d
  <2>3. QED
    BY <1>4, <2>1, <2>2, StepTo DEF d
<1>5. CASE PoWSolves(f)
  <2> DEFINE b == [c EXCEPT !.carry = c.img]
  <2>1. c.pc \in Solving /\ Step(f, NextAttempt(b))
    BY <1>5 DEF PoWSolves, Solving
  <2>2. Typed(b) /\ b.pc = c.pc /\ SameCounts(c, b)
    BY DEF Typed, Counted, CallFields, SameCounts
  <2> HIDE DEF b
  <2>3. QED
    BY <1>4, <2>1, <2>2
<1>6. CASE RefreshToken(f)
  <2> DEFINE b == [c EXCEPT !.token2 = TRUE]
  <2>1. c.pc \in Solving /\ Step(f, NextAttempt(b))
    BY <1>6 DEF RefreshToken, Solving
  <2>2. Typed(b) /\ b.pc = c.pc /\ SameCounts(c, b)
    BY DEF Typed, Counted, CallFields, SameCounts
  <2> HIDE DEF b
  <2>3. QED
    BY <1>4, <2>1, <2>2
<1>7. ASSUME NEW uses \in BOOLEAN, NEW empty \in BOOLEAN, PoWFails(f, uses, empty) PROVE Forward(f)
  <2> DEFINE n == IF empty THEN c.emptyShow + 1 ELSE 0
             pc == IF n < 2 /\ c.powTry < MaxPoW THEN "refresh" ELSE "last"
             d == [c EXCEPT !.pc = pc, !.emptyShow = n]
  <2>1. c.pc = "pow" /\ Step(f, d)
    BY <1>7 DEF PoWFails
  <2>2. n \in 0 .. 2 /\ (pc = "refresh" => n <= 1 /\ c.powTry < MaxPoW) /\ pc \in {"refresh", "last"}
    BY <1>3, <2>1 DEF Typed, Counted
  <2> HIDE DEF n, pc
  <2>3. /\ DOMAIN d = CallFields /\ d = [x \in CallFields |-> d[x]]
        /\ d.pc = pc /\ d.wave = c.wave /\ d.todo = c.todo /\ d.attempt = c.attempt /\ d.img = c.img
        /\ d.powTry = c.powTry /\ d.emptyShow = n /\ d.carry = c.carry /\ d.token2 = c.token2
        /\ d.transient = c.transient /\ d.sid = c.sid /\ d.key = c.key /\ d.token1 = c.token1
        /\ d.pin = c.pin /\ d.client = c.client
    BY DEF Typed, CallFields
  <2> HIDE DEF d
  <2>4. Typed(d)
    BY <2>2, <2>3 DEF Typed, Counted, CallPC
  <2>5. Phase[d.pc] = Phase[c.pc] /\ Stage[d.pc] <= Stage[c.pc] /\ Stage[d.pc] \in Nat /\ Stage[c.pc] \in Nat
    BY <2>1, <2>2, <2>3, Ranks
  <2>6. Less(Work(d), Work(c))
    BY <2>1, <2>2, <2>3, <2>4, <2>5, LessWork
  <2>7. QED
    BY <2>1, <2>4, <2>6, StepTo
<1>8. ASSUME NEW k \in Ids, Step2Captcha(f, k) PROVE Forward(f)
  <2> DEFINE d == [c EXCEPT !.pc = "pow", !.img = k, !.powTry = 1, !.emptyShow = 0]
  <2>1. c.pc = "step2" /\ Step(f, d)
    BY <1>8 DEF Step2Captcha
  <2>2. /\ DOMAIN d = CallFields /\ d = [x \in CallFields |-> d[x]]
        /\ d.pc = "pow" /\ d.wave = c.wave /\ d.todo = c.todo /\ d.attempt = c.attempt /\ d.img = k
        /\ d.powTry = 1 /\ d.emptyShow = 0 /\ d.carry = c.carry /\ d.token2 = c.token2
        /\ d.transient = c.transient /\ d.sid = c.sid /\ d.key = c.key /\ d.token1 = c.token1
        /\ d.pin = c.pin /\ d.client = c.client
    BY DEF Typed, CallFields
  <2> HIDE DEF d
  <2>3. Typed(d)
    BY <2>2, CountBounds DEF Typed, Counted, CallPC, SomeId
  <2>4. Phase[d.pc] = Phase[c.pc] /\ Stage[d.pc] < Stage[c.pc]
    BY <2>1, <2>2, Ranks
  <2>5. Less(Work(d), Work(c))
    BY <2>2, <2>3, <2>4, LessWork
  <2>6. QED
    BY <2>1, <2>3, <2>5, StepTo
<1>9. ASSUME NEW k \in Ids, Refreshed(f, k) PROVE Forward(f)
  <2> DEFINE d == [c EXCEPT !.pc = "pow", !.img = k, !.powTry = @ + 1]
  <2>1. c.pc = "refresh" /\ Step(f, d)
    BY <1>9 DEF Refreshed
  <2>2. /\ DOMAIN d = CallFields /\ d = [x \in CallFields |-> d[x]]
        /\ d.pc = "pow" /\ d.wave = c.wave /\ d.todo = c.todo /\ d.attempt = c.attempt /\ d.img = k
        /\ d.powTry = c.powTry + 1 /\ d.emptyShow = c.emptyShow /\ d.carry = c.carry /\ d.token2 = c.token2
        /\ d.transient = c.transient /\ d.sid = c.sid /\ d.key = c.key /\ d.token1 = c.token1
        /\ d.pin = c.pin /\ d.client = c.client
    BY DEF Typed, CallFields
  <2> HIDE DEF d
  <2>3. c.powTry < MaxPoW /\ c.emptyShow <= 1
    BY <2>1 DEF Typed, Counted
  <2>4. d.powTry \in 0 .. MaxPoW /\ d.powTry > c.powTry
    BY <1>3, <2>2, <2>3
  <2>5. Typed(d)
    BY <2>2, <2>3, <2>4 DEF Typed, Counted, CallPC, SomeId
  <2>6. Phase[d.pc] = Phase[c.pc] /\ Stage[d.pc] = Stage[c.pc]
    BY <2>1, <2>2, Ranks
  <2>7. Less(Work(d), Work(c))
    BY <2>2, <2>4, <2>5, <2>6, LessWork
  <2>8. QED
    BY <2>1, <2>5, <2>7, StepTo
<1>10. QED
  BY <1>5, <1>6, <1>7, <1>8, <1>9

(* ... and its end. *)
LEMMA ShownTyped ==
  ASSUME NEW k \in SomeId
  PROVE  Typed([NoCall EXCEPT !.pc = "publish", !.img = k])
<1> DEFINE d == [NoCall EXCEPT !.pc = "publish", !.img = k]
<1>1. /\ DOMAIN d = CallFields /\ d = [x \in CallFields |-> d[x]]
      /\ d.pc = "publish" /\ d.wave = 0 /\ d.todo = {} /\ d.attempt = 0 /\ d.img = k
      /\ d.powTry = 0 /\ d.emptyShow = 0 /\ d.carry = NoId /\ d.token2 = FALSE
      /\ d.transient = TRUE /\ d.sid = NoId /\ d.key = NoId /\ d.token1 = NoId
      /\ d.pin = None /\ d.client = None
  BY DEF NoCall, CallFields
<1> HIDE DEF d
<1>2. Typed(d)
  BY <1>1, CountBounds DEF Typed, Counted, CallPC, SomeId
<1>3. QED
  BY <1>2 DEF d

LEMMA HandForward ==
  ASSUME IInv, NEW f \in Callers, Typed(call[f]), NEW publishes \in BOOLEAN,
         HandsUsed(f, publishes) \/ \E k \in Ids : HandsFresh(f, k, publishes)
  PROVE  Forward(f)
<1>1. PICK k \in SomeId : call[f].pc = "last" /\ HandOver(f, k, publishes)
  <2>1. call[f].img \in SomeId
    BY DEF Typed
  <2>2. QED
    BY <2>1 DEF HandsUsed, HandsFresh, SomeId
<1> DEFINE d == [NoCall EXCEPT !.pc = "publish", !.img = k]
<1>2. CASE Step(f, NoCall)
  BY <1>2, NoCallTyped, StepTo
<1>3. CASE Step(f, d)
  <2>1. Typed(d) /\ d.pc = "publish"
    BY ShownTyped DEF NoCall
  <2>2. Phase[d.pc] < Phase[call[f].pc]
    BY <1>1, <2>1, Ranks
  <2> HIDE DEF d
  <2>3. Less(Work(d), Work(call[f]))
    BY <2>1, <2>2, LessWork
  <2>4. QED
    BY <1>3, <2>1, <2>3, StepTo
<1>4. QED
  BY <1>1, <1>2, <1>3 DEF HandOver, Returns

(* The one-shot tokens are taken, or stored. *)
LEMMA TokensForward ==
  ASSUME IInv, NEW f \in Callers, Typed(call[f]), fetchFreshCreds(f) \/ Publish(f)
  PROVE  Forward(f)
<1> DEFINE c == call[f]
           Edit(d) == /\ DOMAIN d = CallFields /\ d = [x \in CallFields |-> d[x]]
                      /\ d.wave = c.wave /\ d.todo = c.todo /\ d.attempt = c.attempt /\ d.img = c.img
                      /\ d.powTry = c.powTry /\ d.emptyShow = c.emptyShow /\ d.carry = c.carry
                      /\ d.token2 = c.token2 /\ d.transient = c.transient
                      /\ d.pin = c.pin /\ d.client = c.client
<1>1. lastCaptchaSID \in SomeId /\ lastCaptchaKey \in SomeId /\ lastCaptchaToken1 \in SomeId
  BY DEF IInv, Shape
<1>2. ASSUME NEW d, Step(f, d), Edit(d), d.pc \in CallPC \ {"pow", "refresh"},
             d.sid \in SomeId, d.key \in SomeId, d.token1 \in SomeId,
             Phase[d.pc] = Phase[c.pc], Stage[d.pc] < Stage[c.pc]
      PROVE  Forward(f)
  <2>1. Typed(d) /\ SameCounts(c, d)
    BY <1>2 DEF Typed, Counted, SameCounts
  <2>2. QED
    BY <1>2, <2>1, NextStage, StepTo
<1>3. CASE LoadSid(f)
  <2> DEFINE pc == IF lastCaptchaSID = NoId THEN "key" ELSE "sidTaken"
             d == [c EXCEPT !.pc = pc, !.sid = lastCaptchaSID]
  <2>1. c.pc = "sid" /\ Step(f, d) /\ pc \in {"key", "sidTaken"}
    BY <1>3 DEF LoadSid
  <2> HIDE DEF pc
  <2>2. Edit(d) /\ d.pc = pc /\ d.sid \in SomeId /\ d.key \in SomeId /\ d.token1 \in SomeId
    BY <1>1 DEF Typed, CallFields
  <2> HIDE DEF d
  <2>3. Phase[d.pc] = Phase[c.pc] /\ Stage[d.pc] < Stage[c.pc] /\ d.pc \in CallPC \ {"pow", "refresh"}
    BY <2>1, <2>2, Ranks DEF CallPC
  <2>4. QED
    BY <1>2, <2>1, <2>2, <2>3
<1>4. CASE LoadKey(f)
  <2> DEFINE pc == IF lastCaptchaKey = NoId THEN "token1" ELSE "keyTaken"
             d == [c EXCEPT !.pc = pc, !.key = lastCaptchaKey]
  <2>1. c.pc = "key" /\ Step(f, d) /\ pc \in {"token1", "keyTaken"}
    BY <1>4 DEF LoadKey
  <2> HIDE DEF pc
  <2>2. Edit(d) /\ d.pc = pc /\ d.sid \in SomeId /\ d.key \in SomeId /\ d.token1 \in SomeId
    BY <1>1 DEF Typed, CallFields
  <2> HIDE DEF d
  <2>3. Phase[d.pc] = Phase[c.pc] /\ Stage[d.pc] < Stage[c.pc] /\ d.pc \in CallPC \ {"pow", "refresh"}
    BY <2>1, <2>2, Ranks DEF CallPC
  <2>4. QED
    BY <1>2, <2>1, <2>2, <2>3
<1>5. CASE LoadToken1(f)
  <2> DEFINE pc == IF lastCaptchaToken1 = NoId THEN "start" ELSE "token1Taken"
             d == [c EXCEPT !.pc = pc, !.token1 = lastCaptchaToken1]
  <2>1. c.pc = "token1" /\ Step(f, d) /\ pc \in {"start", "token1Taken"}
    BY <1>5 DEF LoadToken1
  <2> HIDE DEF pc
  <2>2. Edit(d) /\ d.pc = pc /\ d.sid \in SomeId /\ d.key \in SomeId /\ d.token1 \in SomeId
    BY <1>1 DEF Typed, CallFields
  <2> HIDE DEF d
  <2>3. Phase[d.pc] = Phase[c.pc] /\ Stage[d.pc] < Stage[c.pc] /\ d.pc \in CallPC \ {"pow", "refresh"}
    BY <2>1, <2>2, Ranks DEF CallPC
  <2>4. QED
    BY <1>2, <2>1, <2>2, <2>3
<1>6. ASSUME NEW pc \in CallPC, NEW pd \in CallPC \ {"pow", "refresh"},
             c.pc = pc, Step(f, [c EXCEPT !.pc = pd]),
             <<pc, pd>> \in {<<"sidTaken", "key">>, <<"keyTaken", "token1">>, <<"token1Taken", "start">>,
                            <<"publish", "publishSid">>, <<"publishSid", "publishToken1">>}
      PROVE  Forward(f)
  <2>1. Phase[pd] = Phase[c.pc] /\ Stage[pd] < Stage[c.pc]
    BY <1>6, Ranks
  <2>2. QED
    BY <1>6, <2>1, PcForward
<1>7. CASE ClearSid(f) \/ ClearKey(f) \/ ClearToken1(f)
  BY <1>6, <1>7 DEF ClearSid, ClearKey, ClearToken1, CallPC
<1>8. CASE PublishImage(f) \/ PublishSid(f)
  BY <1>6, <1>8 DEF PublishImage, PublishSid, CallPC
<1>9. CASE PublishToken1(f)
  BY <1>9, ReturnsForward DEF PublishToken1
<1>10. QED
  BY <1>3, <1>4, <1>5, <1>7, <1>8, <1>9 DEF fetchFreshCreds, Publish

(* A call begins. *)
LEMMA BeginForward ==
  ASSUME IInv, NEW f \in Callers, Typed(call[f]), NEW d, Typed(d), call[f].pc = "idle", Step(f, d)
  PROVE  Forward(f)
BY StepTo

LEMMA BeginsForward ==
  ASSUME IInv, NEW f \in Callers, Typed(call[f]),
         \/ FetchBegins(f)
         \/ f \in Apps /\ ProbeBegins(f)
         \/ \E vc \in Clients, k \in Ids : RefreshCaptchaURL(f, vc, k)
  PROVE  Forward(f)
<1>1. CASE FetchBegins(f)
  <2>1. Typed([NoCall EXCEPT !.pc = "sid"])
    BY NoCallTyped, PcTyped DEF CallPC
  <2>2. QED
    BY <1>1, <2>1, BeginForward DEF FetchBegins
<1>2. CASE f \in Apps /\ ProbeBegins(f)
  <2> DEFINE k == IF solved[f].done THEN solved[f].id ELSE NoId
             pin == IF k = NoId THEN None ELSE issuedTo[k]
             d == [NoCall EXCEPT !.pc = "start", !.sid = k, !.key = k, !.token1 = k, !.pin = pin]
  <2>1. call[f].pc = "idle" /\ Step(f, d)
    BY <1>2 DEF ProbeBegins
  <2>2. k \in SomeId
    BY <1>2 DEF IInv, Shape, SomeId
  <2>3. pin \in Clients \cup {None}
    BY <2>2 DEF IInv, Shape, SomeId
  <2> HIDE DEF k, pin
  <2>4. DOMAIN d = CallFields /\ d = [x \in CallFields |-> d[x]]
    <3>1. DOMAIN NoCall = CallFields
      BY NoCallTyped DEF Typed
    <3> HIDE DEF pin, k
    <3>2. QED
      BY <3>1
  <2>5. /\ d.pc = "start" /\ d.wave = 0 /\ d.todo = {} /\ d.attempt = 0 /\ d.img = NoId
        /\ d.powTry = 0 /\ d.emptyShow = 0 /\ d.carry = NoId /\ d.token2 = FALSE
        /\ d.transient = TRUE /\ d.sid = k /\ d.key = k /\ d.token1 = k
        /\ d.pin = pin /\ d.client = None
    BY DEF NoCall
  <2> HIDE DEF d
  <2>6. Typed(d)
    BY <2>2, <2>3, <2>4, <2>5, CountBounds DEF Typed, Counted, CallPC, SomeId
  <2>7. QED
    BY <2>1, <2>6, BeginForward
<1>3. ASSUME NEW vc \in Clients, NEW k \in Ids, RefreshCaptchaURL(f, vc, k) PROVE Forward(f)
  BY <1>3, ShownTyped, BeginForward DEF RefreshCaptchaURL, SomeId
<1>4. QED
  BY <1>1, <1>2, <1>3

LEMMA GetForward ==
  ASSUME IInv, NEW f \in Callers, Typed(call[f]), GetVKCreds(f)
  PROVE  Forward(f)
BY WaveForward, RequestForward, SolverForward, HandForward DEF GetVKCreds

TypedInv ==
  /\ call = [f \in Callers |-> call[f]] /\ \A f \in Callers : Typed(call[f])
  /\ running \in BOOLEAN

(* Every step moves one call forward, or none. *)
LEMMA ForwardStep ==
  ASSUME IInv, TypedInv, [Next]_vars
  PROVE  (\E f \in Callers : Forward(f)) \/ call' = call
<1>1. ASSUME NEW f \in Fetchers, FetchBegins(f) \/ fetchFreshCreds(f) \/ Publish(f)
      PROVE  \E g \in Callers : Forward(g)
  BY <1>1, BeginsForward, TokensForward DEF TypedInv, Callers
<1>2. ASSUME NEW a \in Apps, ProbeBegins(a) PROVE \E g \in Callers : Forward(g)
  BY <1>2, BeginsForward DEF TypedInv, Callers
<1>3. ASSUME NEW f \in Callers, GetVKCreds(f) PROVE \E g \in Callers : Forward(g)
  BY <1>3, GetForward DEF TypedInv
<1>4. ASSUME NEW f \in Fetchers, NEW vc \in Clients, NEW k \in Ids, RefreshCaptchaURL(f, vc, k)
      PROVE  \E g \in Callers : Forward(g)
  BY <1>4, BeginsForward DEF TypedInv, Callers
<1>5. ASSUME \/ ProxyStarts \/ SolveCaptcha \/ (\E stops \in BOOLEAN : CaptchaCleared(stops))
             \/ (\E a \in Apps : AppSolves(a)) \/ UNCHANGED anonVars
      PROVE  call' = call
  BY <1>5 DEF ProxyStarts, SolveCaptcha, CaptchaCleared, AppSolves, anonVars
<1>6. QED
  BY <1>1, <1>2, <1>3, <1>4, <1>5 DEF Next, vars

LEMMA RunningKeeps ==
  ASSUME running \in BOOLEAN, [Next]_vars
  PROVE  running' \in BOOLEAN
<1>1. ASSUME NEW f \in Callers, FetchBegins(f) \/ fetchFreshCreds(f) \/ Publish(f) PROVE running' = running
  BY <1>1 DEF FetchBegins, fetchFreshCreds, LoadSid, ClearSid, LoadKey, ClearKey, LoadToken1, ClearToken1,
              Publish, PublishImage, PublishSid, PublishToken1, Returns, Step
<1>2. ASSUME NEW f \in Callers, GetVKCreds(f) PROVE running' = running
  <2>1. ASSUME \/ Starts(f) \/ (\E falls \in BOOLEAN : FreePath(f, falls)) \/ WaveEnds(f)
               \/ (\E vc \in Clients : TryClient(f, vc)) \/ (\E net \in BOOLEAN : RequestFails(f, net))
               \/ Step1Ok(f) \/ Step2Token(f) \/ Step2Fatal(f)
        PROVE  running' = running
    BY <2>1 DEF Starts, FreePath, Returns, WaveEnds, TryClient, RequestFails, Step1Ok, Step2Token, Step2Fatal, Step
  <2>2. ASSUME \/ PoWSolves(f) \/ (\E uses, empty \in BOOLEAN : PoWFails(f, uses, empty))
               \/ RefreshToken(f) \/ RefreshFails(f)
               \/ (\E k \in Ids : Step2Captcha(f, k) \/ Refreshed(f, k)) \/ JoinOk(f)
        PROVE  running' = running
    BY <2>2 DEF PoWSolves, PoWFails, RefreshToken, RefreshFails, Step2Captcha, Refreshed, JoinOk, Returns, Step
  <2>3. ASSUME \E publishes \in BOOLEAN : HandsUsed(f, publishes) \/ \E k \in Ids : HandsFresh(f, k, publishes)
        PROVE  running' = running
    BY <2>3 DEF HandsUsed, HandsFresh, HandOver, Returns, Step
  <2>4. QED
    BY <1>2, <2>1, <2>2, <2>3 DEF GetVKCreds
<1>3. CASE \/ SolveCaptcha \/ (\E stops \in BOOLEAN : CaptchaCleared(stops)) \/ ProxyStarts
           \/ (\E a \in Apps : ProbeBegins(a) \/ AppSolves(a))
           \/ (\E f \in Fetchers, vc \in Clients, k \in Ids : RefreshCaptchaURL(f, vc, k))
  BY <1>3 DEF SolveCaptcha, CaptchaCleared, ProxyStarts, ProbeBegins, AppSolves, RefreshCaptchaURL, Step
<1>4. CASE UNCHANGED anonVars
  BY <1>4 DEF anonVars
<1>5. QED
  BY <1>1, <1>2, <1>3, <1>4 DEF Next, vars, Callers

LEMMA TypedAlways == Spec => []TypedInv
<1>1. Init => TypedInv
  BY NoCallTyped DEF Init, TypedInv
<1>2. ASSUME IInv, TypedInv, [Next]_vars PROVE TypedInv'
  <2>1. running' \in BOOLEAN
    BY <1>2, RunningKeeps DEF TypedInv
  <2>2. CASE call' = call
    BY <1>2, <2>1, <2>2 DEF TypedInv
  <2>3. ASSUME NEW f \in Callers, Forward(f) PROVE TypedInv'
    BY <1>2, <2>1, <2>3 DEF TypedInv, Forward
  <2>4. QED
    BY <1>2, <2>2, <2>3, ForwardStep
<1>3. QED
  BY <1>1, <1>2, InvAlways, PTL DEF Spec

(* Every variable keeps its type: no count passes its bound, the tries of a   *)
(* solver, the attempts of a client and the waves included.                   *)
THEOREM TypeCorrect == Spec => []TypeOK
<1>1. ASSUME IInv, TypedInv, CookieTypeOK PROVE TypeOK
  <2>1. \A f \in Callers : call[f] \in CallRec
    BY <1>1, TypedRec DEF TypedInv
  <2>2. call \in [Callers -> CallRec]
    BY <1>1, <2>1 DEF TypedInv
  <2>3. QED
    BY <1>1, <2>2 DEF TypedInv, IInv, Shape, SomeId, TypeOK
<1>2. QED
  BY <1>1, InvAlways, TypedAlways, CookieImplemented, CookieTypeCorrect, PTL

(* Each step of a call that is under way lowers what it has left to do, for    *)
(* any number of waves, clients, attempts and captchas: the nested retries     *)
(* come to an end as long as the call is not kept from taking steps.           *)
THEOREM CallsAlwaysProgress == Spec => CallsProgress
<1>1. ASSUME IInv, TypedInv, [Next]_vars
      PROVE  \A f \in Callers : call[f].pc # "idle" /\ call'[f] # call[f] => Less(Work(call'[f]), Work(call[f]))
  BY <1>1, ForwardStep DEF Forward
<1>2. QED
  BY <1>1, InvAlways, TypedAlways, PTL DEF Spec, CallsProgress

(* What is left is counted in natural numbers, so that it cannot go down for  *)
(* ever.                                                                       *)
THEOREM WorkIsNatural == Spec => [](\A f \in Callers : Work(call[f]) \in [1 .. 8 -> Nat])
<1>1. ASSUME NEW c, Typed(c) PROVE Work(c) \in [1 .. 8 -> Nat]
  <2>1. MaxWaves - c.wave \in Nat /\ MaxAttempts - c.attempt \in Nat /\ MaxPoW - c.powTry \in Nat
    BY <1>1 DEF Typed, Counted
  <2>2. Cardinality(c.todo) \in Nat
    BY <1>1, FS_Subset, FS_CardinalityType DEF Typed, Counted
  <2>3. Phase[c.pc] \in Nat /\ Stage[c.pc] \in Nat
    BY <1>1 DEF Typed, CallPC, Phase, Stage
  <2>4. (IF c.client = None THEN 0 ELSE 1) \in Nat /\ (IF c.pc = "pow" THEN 1 ELSE 0) \in Nat
    OBVIOUS
  <2>5. QED
    BY <2>1, <2>2, <2>3, <2>4 DEF Work
<1>2. TypedInv => \A f \in Callers : Work(call[f]) \in [1 .. 8 -> Nat]
  BY <1>1 DEF TypedInv
<1>3. QED
  BY <1>2, TypedAlways, PTL

=============================================================================
