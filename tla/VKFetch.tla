------------------------------ MODULE VKFetch -------------------------------
(***************************************************************************)
(* Fetching a TURN credential from VK: fetchFreshCreds and GetVKCreds.     *)
(* A fetch goes the way of the logged-in account (CookieMint) or the       *)
(* anonymous one: the VK Calls path that asks for no captcha, then the     *)
(* legacy path with each client_id in turn, which solves captchas by       *)
(* proof of work and hands one to the user when it cannot.                 *)
(*                                                                         *)
(* Fetchers run in the proxy and share its one-shot captcha tokens.  Apps  *)
(* call wgProbeVKCreds before the proxy exists and pass the tokens of a    *)
(* captcha back themselves.  Captchas are told apart by numbers, which are *)
(* used again once nobody knows them.                                      *)
(***************************************************************************)
EXTENDS CookieMint

CONSTANTS
  Apps,         \* callers of wgProbeVKCreds
  Clients,      \* vkCredentialsList
  MaxWaves,     \* maxNetworkRetries (12)
  MaxAttempts,  \* answers to step 2 that a client gets (3)
  MaxPoW,       \* maxPoWRetries (3)
  MaxIds        \* bound: captchas known to somebody at a time

ASSUME VKAssumption ==
  /\ Apps \cap Fetchers = {} /\ None \notin Apps
  /\ None \notin Clients /\ IsFiniteSet(Clients)
  /\ MaxWaves \in Nat \ {0} /\ MaxAttempts \in Nat \ {0} /\ MaxPoW \in Nat \ {0}
  /\ MaxIds \in Nat

Callers == Fetchers \cup Apps

Ids == 1 .. MaxIds

(* No captcha, or the empty string. *)
NoId == 0

VARIABLES
  captchaImageURL,   \* the captcha that is on show
  lastCaptchaSID,    \* the captcha whose SID, ...
  lastCaptchaKey,    \* ... success token and ...
  lastCaptchaToken1, \* ... step 1 token are stored
  running,           \* the proxy exists; the apps have made their probes
  solved,            \* per app: the captcha it was given, and whether it was solved
  call,              \* per caller: where GetVKCreds is
  \* The state of captchas at VK: no guard of the program reads it.
  issuedTo,          \* the client a captcha was issued to
  touched,           \* captchas whose session the solver has used
  burnt              \* captchas handed out for want of an untouched one

tokenVars == <<captchaImageURL, lastCaptchaSID, lastCaptchaKey, lastCaptchaToken1>>
vkVars == <<issuedTo, touched, burnt>>
anonVars == <<tokenVars, running, solved, call, vkVars>>
vars == <<cookieVars, anonVars>>

CallPC == {"idle", "sid", "sidTaken", "key", "keyTaken", "token1", "token1Taken", "start",
           "free", "wave", "step1", "step2", "pow", "refresh", "last", "join", "publish",
           "publishSid", "publishToken1"}

CallRec ==
  [pc : CallPC,
   sid : Ids \cup {NoId}, key : Ids \cup {NoId}, token1 : Ids \cup {NoId},  \* what was saved
   pin : Clients \cup {None},             \* savedClientID
   wave : 0 .. MaxWaves,                  \* retry
   todo : SUBSET Clients,                 \* clients of this wave not tried yet
   transient : BOOLEAN,                   \* allTransient
   client : Clients \cup {None},
   attempt : 0 .. MaxAttempts,
   carry : Ids \cup {NoId},               \* the success token in step2Data
   token2 : BOOLEAN,
   img : Ids \cup {NoId},                 \* currentImg and currentSID
   powTry : 0 .. MaxPoW,
   emptyShow : 0 .. 2]                    \* consecutiveEmptyShow

NoCall == [pc |-> "idle", sid |-> NoId, key |-> NoId, token1 |-> NoId, pin |-> None,
           wave |-> 0, todo |-> {}, transient |-> TRUE, client |-> None, attempt |-> 0,
           carry |-> NoId, token2 |-> FALSE, img |-> NoId, powTry |-> 0, emptyShow |-> 0]

-----------------------------------------------------------------------------
(* Captchas *)

(* The captchas somebody could still show, solve or send. *)
Known ==
  {captchaImageURL, lastCaptchaSID, lastCaptchaKey, lastCaptchaToken1}
    \cup (UNION {{call[f].sid, call[f].key, call[f].token1, call[f].carry, call[f].img} : f \in Callers})
    \cup {solved[a].id : a \in Apps}

(* VK wants a captcha: a new one, issued to client vc.  Nothing is kept of those *)
(* nobody knows.                                                               *)
NewCaptcha(vc, k) ==
  /\ k \in Ids \ Known
  /\ \A j \in Ids \ Known : k <= j
  /\ issuedTo' = [j \in Ids |-> IF j = k THEN vc ELSE IF j \in Known THEN issuedTo[j] ELSE None]
  /\ touched' = (touched \cap Known) \ {k}
  /\ burnt' = (burnt \cap Known) \ {k}

-----------------------------------------------------------------------------
(* fetchFreshCreds: the one-shot tokens *)

Step(f, c) ==
  /\ call' = [call EXCEPT ![f] = c]
  /\ UNCHANGED <<running, cookieVars>>

FetchBegins(f) ==
  /\ running /\ call[f].pc = "idle"
  /\ fetch[f].pc = "idle" /\ ~cookieAuthEnabled
  /\ Step(f, [NoCall EXCEPT !.pc = "sid"])
  /\ UNCHANGED <<tokenVars, solved, vkVars>>

(* Each token is loaded, then, unless it is empty, cleared. *)
LoadSid(f) ==
  /\ call[f].pc = "sid"
  /\ Step(f, [call[f] EXCEPT !.pc = IF lastCaptchaSID = NoId THEN "key" ELSE "sidTaken",
                             !.sid = lastCaptchaSID])
  /\ UNCHANGED <<tokenVars, solved, vkVars>>

ClearSid(f) ==
  /\ call[f].pc = "sidTaken"
  /\ lastCaptchaSID' = NoId
  /\ Step(f, [call[f] EXCEPT !.pc = "key"])
  /\ UNCHANGED <<captchaImageURL, lastCaptchaKey, lastCaptchaToken1, solved, vkVars>>

LoadKey(f) ==
  /\ call[f].pc = "key"
  /\ Step(f, [call[f] EXCEPT !.pc = IF lastCaptchaKey = NoId THEN "token1" ELSE "keyTaken",
                             !.key = lastCaptchaKey])
  /\ UNCHANGED <<tokenVars, solved, vkVars>>

ClearKey(f) ==
  /\ call[f].pc = "keyTaken"
  /\ lastCaptchaKey' = NoId
  /\ Step(f, [call[f] EXCEPT !.pc = "token1"])
  /\ UNCHANGED <<captchaImageURL, lastCaptchaSID, lastCaptchaToken1, solved, vkVars>>

LoadToken1(f) ==
  /\ call[f].pc = "token1"
  /\ Step(f, [call[f] EXCEPT !.pc = IF lastCaptchaToken1 = NoId THEN "start" ELSE "token1Taken",
                             !.token1 = lastCaptchaToken1])
  /\ UNCHANGED <<tokenVars, solved, vkVars>>

ClearToken1(f) ==
  /\ call[f].pc = "token1Taken"
  /\ lastCaptchaToken1' = NoId
  /\ Step(f, [call[f] EXCEPT !.pc = "start"])
  /\ UNCHANGED <<captchaImageURL, lastCaptchaSID, lastCaptchaKey, solved, vkVars>>

(* wgProbeVKCreds: the app passes the tokens of the captcha it solved, if any. *)
ProbeBegins(a) ==
  LET k == IF solved[a].done THEN solved[a].id ELSE NoId IN
    /\ ~running /\ setting.todo = "none"
    /\ call[a].pc = "idle" /\ ~cookieAuthEnabled
    /\ Step(a, [NoCall EXCEPT !.pc = "start", !.sid = k, !.key = k, !.token1 = k,
                              !.pin = IF k = NoId THEN None ELSE issuedTo[k]])
    /\ solved' = [solved EXCEPT ![a] = [id |-> NoId, done |-> FALSE]]
    /\ UNCHANGED <<tokenVars, vkVars>>

(* wgStartVKBootstrap: the app has its credential or goes on without. *)
ProxyStarts ==
  /\ ~running /\ setting.todo = "none"
  /\ \A a \in Apps : call[a].pc = "idle"
  /\ running' = TRUE
  /\ solved' = [a \in Apps |-> [id |-> NoId, done |-> FALSE]]
  /\ UNCHANGED <<tokenVars, call, vkVars, cookieVars>>

-----------------------------------------------------------------------------
(* GetVKCreds *)

(* Mutant: a saved client_id is forgotten. *)
AnyClient(c) == Clients

(* The clients of a wave: the one the saved token is of, or all of them. *)
WaveClients(c) == IF c.pin # None THEN {c.pin} ELSE Clients

(* A fetch with saved tokens skips the VK Calls path. *)
Starts(f) ==
  LET c == call[f] IN
    /\ c.pc = "start"
    /\ Step(f, [c EXCEPT !.pc = IF c.token1 = NoId /\ c.sid = NoId /\ c.pin = None
                                  THEN "free" ELSE "wave",
                         !.wave = 1, !.todo = WaveClients(c)])
    /\ UNCHANGED <<tokenVars, solved, vkVars>>

(* The call returns: a credential, or an error that is not a captcha. *)
Returns(f) == Step(f, NoCall)

(* getVKCredsViaVKCallsPath: a credential or an unavailable call ends the     *)
(* fetch; a captcha, a failed request or a setting makes it fall back.        *)
FreePath(f, falls) ==
  /\ call[f].pc = "free"
  /\ IF falls THEN Step(f, [call[f] EXCEPT !.pc = "wave"]) ELSE Returns(f)
  /\ UNCHANGED <<tokenVars, solved, vkVars>>

(* The next client, in the order of the shuffle.  A saved token spares step 1. *)
TryClient(f, vc) ==
  LET c == call[f] IN
    /\ c.pc = "wave" /\ vc \in c.todo
    /\ Step(f, [c EXCEPT !.pc = IF c.token1 = NoId THEN "step1" ELSE "step2",
                         !.todo = @ \ {vc}, !.client = vc, !.attempt = 1, !.carry = c.key,
                         !.token2 = FALSE, !.img = NoId])
    /\ UNCHANGED <<tokenVars, solved, vkVars>>

(* Mutant: waves are not counted. *)
WaveEndless(f) ==
  LET c == call[f] IN
    /\ c.pc = "wave" /\ c.todo = {}
    /\ IF c.transient THEN Step(f, [c EXCEPT !.todo = WaveClients(c)]) ELSE Returns(f)
    /\ UNCHANGED <<tokenVars, solved, vkVars>>

(* The wave is over: another one if every client failed for the network. *)
WaveEnds(f) ==
  LET c == call[f] IN
    /\ c.pc = "wave" /\ c.todo = {}
    /\ IF c.transient /\ c.wave < MaxWaves
         THEN Step(f, [c EXCEPT !.wave = @ + 1, !.todo = WaveClients(c)])
         ELSE Returns(f)
    /\ UNCHANGED <<tokenVars, solved, vkVars>>

-----------------------------------------------------------------------------
(* getVKCredsWithClientID *)

(* The client failed, for the network (net) or otherwise. *)
ClientFailed(c, net) ==
  [c EXCEPT !.pc = "wave", !.client = None, !.attempt = 0, !.carry = NoId, !.token2 = FALSE,
            !.img = NoId, !.powTry = 0, !.emptyShow = 0, !.transient = @ /\ net]

(* Any of the requests of steps 1, 2, 3 and 4 fails or has no usable answer. *)
RequestFails(f, net) ==
  /\ call[f].pc \in {"step1", "step2", "join"}
  /\ Step(f, ClientFailed(call[f], net))
  /\ UNCHANGED <<tokenVars, solved, vkVars>>

(* login.vk.ru and the preview, whose outcome is ignored. *)
Step1Ok(f) ==
  /\ call[f].pc = "step1"
  /\ Step(f, [call[f] EXCEPT !.pc = "step2"])
  /\ UNCHANGED <<tokenVars, solved, vkVars>>

(* Step 2 is answered with a token; ... *)
Step2Token(f) ==
  /\ call[f].pc = "step2"
  /\ Step(f, [call[f] EXCEPT !.pc = "join", !.token2 = TRUE])
  /\ UNCHANGED <<tokenVars, solved, vkVars>>

(* ... the call is over, deleted or never was; ... *)
Step2Fatal(f) ==
  /\ call[f].pc = "step2"
  /\ Returns(f)
  /\ UNCHANGED <<tokenVars, solved, vkVars>>

(* ... or VK wants a captcha. *)
Step2Captcha(f, k) ==
  /\ call[f].pc = "step2"
  /\ NewCaptcha(call[f].client, k)
  /\ Step(f, [call[f] EXCEPT !.pc = "pow", !.img = k, !.powTry = 1, !.emptyShow = 0])
  /\ UNCHANGED <<tokenVars, solved>>

(* Mutant: the attempts are not counted. *)
SameAttempt(c) == [c EXCEPT !.pc = "step2", !.img = NoId, !.powTry = 0, !.emptyShow = 0]

(* "continue": step 2 again; after the last attempt a token is what counts. *)
NextAttempt(c) ==
  IF c.attempt < MaxAttempts
    THEN [c EXCEPT !.pc = "step2", !.attempt = @ + 1, !.img = NoId, !.powTry = 0, !.emptyShow = 0]
    ELSE IF c.token2 THEN [c EXCEPT !.pc = "join"] ELSE ClientFailed(c, FALSE)

(* solveCaptchaPoW gets a success token. *)
PoWSolves(f) ==
  /\ call[f].pc = "pow"
  /\ touched' = touched \cup {call[f].img}
  /\ Step(f, NextAttempt([call[f] EXCEPT !.carry = call[f].img]))
  /\ UNCHANGED <<tokenVars, solved, issuedTo, burnt>>

(* It fails, before or after it has used the captcha's session; the answer may *)
(* name no kind of captcha to show (empty).                                    *)
PoWFails(f, uses, empty) ==
  LET c == call[f]
      n == IF empty THEN c.emptyShow + 1 ELSE 0
  IN  /\ c.pc = "pow"
      /\ touched' = IF uses THEN touched \cup {c.img} ELSE touched
      /\ Step(f, [c EXCEPT !.pc = IF n < 2 /\ c.powTry < MaxPoW THEN "refresh" ELSE "last",
                           !.emptyShow = n])
      /\ UNCHANGED <<tokenVars, solved, issuedTo, burnt>>

(* A fresh captcha for the next try. *)
Refreshed(f, k) ==
  /\ call[f].pc = "refresh"
  /\ NewCaptcha(call[f].client, k)
  /\ Step(f, [call[f] EXCEPT !.pc = "pow", !.img = k, !.powTry = @ + 1])
  /\ UNCHANGED <<tokenVars, solved>>

(* VK gives a token instead. *)
RefreshToken(f) ==
  /\ call[f].pc = "refresh"
  /\ Step(f, NextAttempt([call[f] EXCEPT !.token2 = TRUE]))
  /\ UNCHANGED <<tokenVars, solved, vkVars>>

(* No answer, or one with neither. *)
RefreshFails(f) ==
  /\ call[f].pc = "refresh"
  /\ Step(f, [call[f] EXCEPT !.pc = "last"])
  /\ UNCHANGED <<tokenVars, solved, vkVars>>

(* CaptchaRequiredError: an app keeps the captcha; of the proxy's callers      *)
(* Start and the probe publish it, the others drop it.                         *)
HandOver(f, k, publishes) ==
  IF f \in Apps
    THEN /\ Returns(f)
         /\ solved' = [solved EXCEPT ![f] = [id |-> k, done |-> FALSE]]
    ELSE /\ Step(f, IF publishes THEN [NoCall EXCEPT !.pc = "publish", !.img = k] ELSE NoCall)
         /\ UNCHANGED solved

(* Mutant: the captcha of the last try is handed over. *)
HandsBurnt(f, k, publishes) ==
  /\ call[f].pc = "last" /\ k = call[f].img
  /\ HandOver(f, k, publishes)
  /\ UNCHANGED <<tokenVars, vkVars>>

(* One more captcha, untouched by the solver, for whoever will show it. *)
HandsFresh(f, k, publishes) ==
  /\ call[f].pc = "last"
  /\ NewCaptcha(call[f].client, k)
  /\ HandOver(f, k, publishes)
  /\ UNCHANGED tokenVars

(* VK did not answer with one: the one the solver has used goes out. *)
HandsUsed(f, publishes) ==
  /\ call[f].pc = "last"
  /\ burnt' = burnt \cup {call[f].img}
  /\ HandOver(f, call[f].img, publishes)
  /\ UNCHANGED <<tokenVars, issuedTo, touched>>

(* Steps 3 and 4: the relay's addresses. *)
JoinOk(f) ==
  /\ call[f].pc = "join"
  /\ Returns(f)
  /\ UNCHANGED <<tokenVars, solved, vkVars>>

-----------------------------------------------------------------------------
(* The captcha and the user *)

(* The stores of a captcha that is to be shown, one after the other. *)
PublishImage(f) ==
  /\ call[f].pc = "publish"
  /\ captchaImageURL' = call[f].img
  /\ Step(f, [call[f] EXCEPT !.pc = "publishSid"])
  /\ UNCHANGED <<lastCaptchaSID, lastCaptchaKey, lastCaptchaToken1, solved, vkVars>>

PublishSid(f) ==
  /\ call[f].pc = "publishSid"
  /\ lastCaptchaSID' = call[f].img
  /\ Step(f, [call[f] EXCEPT !.pc = "publishToken1"])
  /\ UNCHANGED <<captchaImageURL, lastCaptchaKey, lastCaptchaToken1, solved, vkVars>>

PublishToken1(f) ==
  /\ call[f].pc = "publishToken1"
  /\ lastCaptchaToken1' = call[f].img
  /\ Returns(f)
  /\ UNCHANGED <<captchaImageURL, lastCaptchaSID, lastCaptchaKey, solved, vkVars>>

(* RefreshCaptchaURL has got a new captcha for a random client and stores it, in *)
(* a goroutine that fetches nothing.                                           *)
RefreshCaptchaURL(f, vc, k) ==
  /\ call[f].pc = "idle" /\ fetch[f].pc = "idle"
  /\ captchaImageURL # NoId
  /\ NewCaptcha(vc, k)
  /\ Step(f, [NoCall EXCEPT !.pc = "publish", !.img = k])
  /\ UNCHANGED <<tokenVars, solved>>

(* SolveCaptcha with the answer to the captcha on show. *)
SolveCaptcha ==
  /\ captchaImageURL # NoId
  /\ lastCaptchaKey' = captchaImageURL
  /\ captchaImageURL' = NoId
  /\ UNCHANGED <<lastCaptchaSID, lastCaptchaToken1, running, solved, call, vkVars, cookieVars>>

(* The captcha is taken off: VK has cooled down, or the proxy stops. *)
CaptchaCleared(stops) ==
  /\ captchaImageURL' = NoId
  /\ lastCaptchaSID' = IF stops THEN NoId ELSE lastCaptchaSID
  /\ UNCHANGED <<lastCaptchaKey, lastCaptchaToken1, running, solved, call, vkVars, cookieVars>>

(* The user solves the captcha an app shows. *)
AppSolves(a) ==
  /\ solved[a].id # NoId /\ ~solved[a].done /\ call[a].pc = "idle"
  /\ solved' = [solved EXCEPT ![a].done = TRUE]
  /\ UNCHANGED <<tokenVars, running, call, vkVars, cookieVars>>

-----------------------------------------------------------------------------
Init ==
  /\ CookieInit
  /\ captchaImageURL = NoId
  /\ lastCaptchaSID = NoId
  /\ lastCaptchaKey = NoId
  /\ lastCaptchaToken1 = NoId
  /\ running = FALSE
  /\ solved = [a \in Apps |-> [id |-> NoId, done |-> FALSE]]
  /\ call = [f \in Callers |-> NoCall]
  /\ issuedTo = [k \in Ids |-> None]
  /\ touched = {}
  /\ burnt = {}

(* The steps of a call of GetVKCreds once it has its tokens. *)
GetVKCreds(f) ==
  \/ Starts(f)
  \/ \E falls \in BOOLEAN : FreePath(f, falls)
  \/ \E vc \in Clients : TryClient(f, vc)
  \/ WaveEnds(f)
  \/ \E net \in BOOLEAN : RequestFails(f, net)
  \/ Step1Ok(f) \/ Step2Token(f) \/ Step2Fatal(f)
  \/ PoWSolves(f)
  \/ \E uses, empty \in BOOLEAN : PoWFails(f, uses, empty)
  \/ RefreshToken(f) \/ RefreshFails(f)
  \/ \E k \in Ids : Step2Captcha(f, k) \/ Refreshed(f, k)
  \/ \E publishes \in BOOLEAN : HandsUsed(f, publishes) \/ \E k \in Ids : HandsFresh(f, k, publishes)
  \/ JoinOk(f)

fetchFreshCreds(f) ==
  \/ LoadSid(f) \/ ClearSid(f) \/ LoadKey(f) \/ ClearKey(f) \/ LoadToken1(f) \/ ClearToken1(f)

Publish(f) == PublishImage(f) \/ PublishSid(f) \/ PublishToken1(f)

(* The logged-in way.  The app configures it before it starts the proxy; module *)
(* CookieMint has configurations at any time.                                   *)
CookieStep ==
  \/ ~running /\ (\A a \in Apps : call[a].pc = "idle") /\ SetVKCookieAuth
  \/ \E f \in Fetchers : running /\ cookieCredForSlot(f)
  \/ \E l \in Links : MintStale(l)

Next ==
  \/ \E f \in Fetchers : FetchBegins(f) \/ fetchFreshCreds(f) \/ Publish(f)
  \/ \E a \in Apps : ProbeBegins(a) \/ AppSolves(a)
  \/ ProxyStarts
  \/ \E f \in Callers : GetVKCreds(f)
  \/ \E f \in Fetchers, vc \in Clients, k \in Ids : RefreshCaptchaURL(f, vc, k)
  \/ SolveCaptcha
  \/ \E stops \in BOOLEAN : CaptchaCleared(stops)
  \/ CookieStep /\ UNCHANGED anonVars

Spec == Init /\ [][Next]_vars

(* Requests are answered or time out. *)
Fairness ==
  /\ \A f \in Callers : WF_vars(GetVKCreds(f) \/ fetchFreshCreds(f) \/ Publish(f))
  /\ \A f \in Fetchers :
       WF_vars(cookieCredForSlot(f) /\ fetch[f].pc # "idle" /\ UNCHANGED anonVars)

FairSpec == Spec /\ Fairness

-----------------------------------------------------------------------------
(* Properties *)

TypeOK ==
  /\ CookieTypeOK
  /\ captchaImageURL \in Ids \cup {NoId}
  /\ lastCaptchaSID \in Ids \cup {NoId}
  /\ lastCaptchaKey \in Ids \cup {NoId}
  /\ lastCaptchaToken1 \in Ids \cup {NoId}
  /\ running \in BOOLEAN
  /\ solved \in [Apps -> [id : Ids \cup {NoId}, done : BOOLEAN]]
  /\ call \in [Callers -> CallRec]
  /\ issuedTo \in [Ids -> Clients \cup {None}]
  /\ touched \subseteq Ids
  /\ burnt \subseteq Ids

(* The captchas that users are looking at. *)
OnShow == ({captchaImageURL} \cup {solved[a].id : a \in Apps}) \ {NoId}

(* Property: the session of a captcha that is on show has not been used by the *)
(* solver, before or since, by the fetch that got it or by another; VK would   *)
(* answer the user with ERROR_LIMIT.  The exception is a captcha handed out    *)
(* because VK's last answer held none.                                         *)
ShownCaptchaUntouched == OnShow \cap touched \subseteq burnt

(* Property: a success token an app passes back goes to VK with the SID, the   *)
(* token of step 1 and the client_id of the very captcha it solves, through    *)
(* every retry and wave.                                                       *)
AppAnswerWhole ==
  \A a \in Apps :
    LET c == call[a] IN
      c.pc = "step2" /\ c.key # NoId /\ c.carry = c.key =>
        c.sid = c.key /\ c.token1 = c.key /\ issuedTo[c.key] = c.client

(* How far a call is from its end: the tokens to take, the tries to make, the  *)
(* captcha to store; ...                                                       *)
Phase == [pc \in CallPC |->
  CASE pc \in {"sid", "sidTaken", "key", "keyTaken", "token1", "token1Taken", "start"} -> 3
    [] pc \in {"publish", "publishSid", "publishToken1"} -> 1
    [] pc = "idle" -> 0
    [] OTHER -> 2]

(* ... and the steps of one try. *)
Stage ==
  [sid |-> 7, sidTaken |-> 6, key |-> 5, keyTaken |-> 4, token1 |-> 3, token1Taken |-> 2, start |-> 1,
   free |-> 7, wave |-> 6, step1 |-> 5, step2 |-> 4, pow |-> 3, refresh |-> 3, last |-> 2, join |-> 1,
   publish |-> 3, publishSid |-> 2, publishToken1 |-> 1, idle |-> 0]

(* What a call may still spend, what weighs most first. *)
Work(c) ==
  <<Phase[c.pc], MaxWaves - c.wave, Cardinality(c.todo), IF c.client = None THEN 0 ELSE 1,
    MaxAttempts - c.attempt, Stage[c.pc], MaxPoW - c.powTry, IF c.pc = "pow" THEN 1 ELSE 0>>

Less(v, w) == \E i \in DOMAIN v : v[i] < w[i] /\ \A j \in 1 .. i - 1 : v[j] = w[j]

(* Property: whatever VK, the network, the solver and the other fetches do, a  *)
(* step of a fetch that is under way uses up a captcha, an attempt, a client   *)
(* or a wave, so that none of the nested retry loops can go round for ever.    *)
CallsProgress ==
  [][\A f \in Callers :
       call[f].pc # "idle" /\ call'[f] # call[f] => Less(Work(call'[f]), Work(call[f]))]_vars

(* Property: every fetch, anonymous or not, returns: the retries of requests,  *)
(* captchas, clients and waves come to an end and no path keeps the mutex.     *)
FetchReturns ==
  /\ \A f \in Callers : call[f].pc # "idle" ~> call[f].pc = "idle"
  /\ \A f \in Fetchers : fetch[f].pc # "idle" ~> fetch[f].pc = "idle"

=============================================================================
