----------------------------- MODULE CookieMint -----------------------------
(***************************************************************************)
(* The credentials of a logged-in VK account: SetVKCookieAuth and          *)
(* cookieCredForSlot.  The relays of the configured calls are discovered   *)
(* by minting one call after another; slot s of the pool is given the s-th *)
(* distinct relay, so that no two slots share a relay's quota.  The caches *)
(* are behind cookieMu, the configuration is not.                          *)
(***************************************************************************)
EXTENDS Integers, Sequences, FiniteSets

CONSTANTS
  Fetchers,     \* goroutines that fetch a credential
  Links,        \* call links
  Relays,       \* addresses of TURN relays
  Slots,        \* slots of the pool, the first of them 1
  Cookies,      \* values of the Cookie header
  NoCookie,     \* the empty header
  None,         \* no fetcher, no address
  LinkLists,    \* lists of links an app may configure
  UrlLists      \* addresses a mint may return

ASSUME CookieAssumption ==
  /\ Slots \subseteq Nat \ {0}
  /\ LinkLists \subseteq Seq(Links)
  /\ UrlLists \subseteq Seq(Relays)
  /\ None \notin Fetchers /\ None \notin Relays /\ None \notin UrlLists

VARIABLES
  cookieAuthEnabled,
  cookieHeader,       \* cookieHeaderStore
  cookieLinks,        \* cookieLinksStore
  cookieAuthFatal,    \* the latch: the cookie was rejected
  setting,            \* the stores SetVKCookieAuth has left to do
  cookieMu,           \* who holds the mutex
  cookieCache,        \* per link: the addresses of its cached mint, None if none or stale
  cookieRelayList,    \* distinct relays, each with its link
  cookieRelaySeen,
  cookieDiscoverIdx,
  fetch,              \* per fetcher: where cookieCredForSlot is
  \* History: no action's guard reads it.
  served              \* the relay last given to each slot since the relays were forgotten

configVars == <<cookieAuthEnabled, cookieHeader, cookieLinks>>
mintVars == <<cookieCache, cookieRelayList, cookieRelaySeen, cookieDiscoverIdx>>
cookieVars == <<configVars, cookieAuthFatal, setting, cookieMu, mintVars, fetch, served>>

FetchPC == {"idle", "links", "lock", "discover", "serve", "served", "rejected", "failed"}

Idle == [pc |-> "idle", slot |-> 0, links |-> <<>>]

NoSetting == [todo |-> "none", links |-> <<>>]

NoMint == [l \in Links |-> None]

To(f, pc) == fetch' = [fetch EXCEPT ![f].pc = pc]

-----------------------------------------------------------------------------
(* SetVKCookieAuth: three kinds of stores, then the caches under the mutex. *)

SetBegins(e, h, ls) ==
  /\ setting.todo = "none"
  /\ cookieAuthEnabled' = e
  /\ cookieHeader' = h
  /\ setting' = [todo |-> "fatal", links |-> ls]
  /\ UNCHANGED <<cookieLinks, cookieAuthFatal, cookieMu, mintVars, fetch, served>>

SetClearsFatal ==
  /\ setting.todo = "fatal"
  /\ cookieAuthFatal' = FALSE
  /\ setting' = [setting EXCEPT !.todo = "links"]
  /\ UNCHANGED <<configVars, cookieMu, mintVars, fetch, served>>

SetLinks ==
  /\ setting.todo = "links"
  /\ cookieLinks' = setting.links
  /\ setting' = [NoSetting EXCEPT !.todo = "caches"]
  /\ UNCHANGED <<cookieAuthEnabled, cookieHeader, cookieAuthFatal, cookieMu, mintVars, fetch, served>>

(* Mutant: the relays of the last configuration stay listed. *)
SetKeepsRelays ==
  /\ setting.todo = "caches" /\ cookieMu = None
  /\ setting' = NoSetting
  /\ cookieCache' = NoMint
  /\ cookieRelaySeen' = {}
  /\ cookieDiscoverIdx' = 0
  /\ served' = [s \in Slots |-> None]
  /\ UNCHANGED <<configVars, cookieAuthFatal, cookieMu, cookieRelayList, fetch>>

SetClearsCaches ==
  /\ setting.todo = "caches" /\ cookieMu = None
  /\ setting' = NoSetting
  /\ cookieCache' = NoMint
  /\ cookieRelayList' = <<>>
  /\ cookieRelaySeen' = {}
  /\ cookieDiscoverIdx' = 0
  /\ served' = [s \in Slots |-> None]
  /\ UNCHANGED <<configVars, cookieAuthFatal, cookieMu, fetch>>

SetVKCookieAuth ==
  \/ \E h \in Cookies \cup {NoCookie}, ls \in LinkLists : SetBegins(TRUE, h, ls)
  \/ SetBegins(FALSE, NoCookie, <<>>)
  \/ SetClearsFatal
  \/ SetLinks
  \/ SetClearsCaches

-----------------------------------------------------------------------------
(* cookieCredForSlot *)

(* The header is loaded, ... *)
CookieBegins(f, s) ==
  /\ fetch[f].pc = "idle" /\ cookieAuthEnabled
  /\ fetch' = [fetch EXCEPT ![f] =
                 [Idle EXCEPT !.pc = IF cookieHeader = NoCookie THEN "rejected" ELSE "links",
                              !.slot = s]]
  /\ UNCHANGED <<configVars, cookieAuthFatal, setting, cookieMu, mintVars, served>>

(* ... then the links: they may be of two configurations. *)
LinksLoaded(f) ==
  /\ fetch[f].pc = "links"
  /\ fetch' = [fetch EXCEPT ![f].pc = IF cookieLinks = <<>> THEN "failed" ELSE "lock",
                            ![f].links = cookieLinks]
  /\ UNCHANGED <<configVars, cookieAuthFatal, setting, cookieMu, mintVars, served>>

Locks(f) ==
  /\ fetch[f].pc = "lock" /\ cookieMu = None
  /\ cookieMu' = f
  /\ To(f, "discover")
  /\ UNCHANGED <<configVars, cookieAuthFatal, setting, mintVars, served>>

(* More relays are wanted and there is a link left to mint. *)
WantsRelay(f) ==
  /\ Len(cookieRelayList) < fetch[f].slot
  /\ cookieDiscoverIdx < Len(fetch[f].links)

NextLink(f) == fetch[f].links[cookieDiscoverIdx + 1]

(* The positions in urls of the addresses that are not in seen, each once, ... *)
NewUrls(seen, urls) ==
  {i \in DOMAIN urls : urls[i] \notin seen /\ \A j \in 1 .. i - 1 : urls[j] # urls[i]}

(* ... the p-th of them, ... *)
Nth(new, p) == CHOOSE i \in new : Cardinality({j \in new : j <= i}) = p

(* ... and the list with these addresses appended in their order. *)
AppendNew(list, seen, urls, l) ==
  LET new == NewUrls(seen, urls)
  IN  list \o [p \in 1 .. Cardinality(new) |-> [address |-> urls[Nth(new, p)], linkID |-> l]]

(* cookieMintCachedLocked: the cached mint of link l, or a new one. *)
Minted(l, urls) ==
  /\ cookieCache[l] \in {None, urls}
  /\ cookieCache' = [cookieCache EXCEPT ![l] = urls]

Discovered(f, urls) ==
  /\ fetch[f].pc = "discover" /\ WantsRelay(f)
  /\ cookieDiscoverIdx' = cookieDiscoverIdx + 1
  /\ Minted(NextLink(f), urls)
  /\ cookieRelayList' = AppendNew(cookieRelayList, cookieRelaySeen, urls, NextLink(f))
  /\ cookieRelaySeen' = cookieRelaySeen \cup {urls[i] : i \in DOMAIN urls}
  /\ UNCHANGED <<configVars, cookieAuthFatal, setting, cookieMu, fetch, served>>

(* A mint fails: web_token gives no token (the cookie is rejected) or another  *)
(* of the five requests fails.  The link's turn in the discovery is over all  *)
(* the same.                                                                  *)
MintFails(f, e) ==
  /\ \/ /\ fetch[f].pc = "discover" /\ WantsRelay(f) /\ cookieCache[NextLink(f)] = None
        /\ cookieDiscoverIdx' = cookieDiscoverIdx + 1
     \/ /\ fetch[f].pc = "serve"
        /\ cookieCache[cookieRelayList[fetch[f].slot].linkID] = None
        /\ UNCHANGED cookieDiscoverIdx
  /\ To(f, e)
  /\ cookieMu' = None
  /\ UNCHANGED <<configVars, cookieAuthFatal, setting, cookieCache, cookieRelayList, cookieRelaySeen, served>>

(* The loop ends: the slot's relay is known, or there is none for it. *)
Chosen(f) ==
  /\ fetch[f].pc = "discover" /\ ~WantsRelay(f)
  /\ IF fetch[f].slot <= Len(cookieRelayList)
       THEN To(f, "serve") /\ UNCHANGED cookieMu
       ELSE To(f, "failed") /\ cookieMu' = None
  /\ UNCHANGED <<configVars, cookieAuthFatal, setting, mintVars, served>>

(* The link's credential, cached or minted, with the slot's one address. *)
Served(f, urls) ==
  LET ref == cookieRelayList[fetch[f].slot] IN
    /\ fetch[f].pc = "serve"
    /\ Minted(ref.linkID, urls)
    /\ To(f, "served")
    /\ served' = [served EXCEPT ![fetch[f].slot] = ref.address]
    /\ cookieMu' = None
    /\ UNCHANGED <<configVars, cookieAuthFatal, setting, cookieRelayList, cookieRelaySeen, cookieDiscoverIdx>>

(* The caller sets or clears the latch. *)
CookieReturns(f) ==
  /\ fetch[f].pc \in {"served", "rejected", "failed"}
  /\ cookieAuthFatal' = CASE fetch[f].pc = "served"   -> FALSE
                          [] fetch[f].pc = "rejected" -> TRUE
                          [] OTHER                    -> cookieAuthFatal
  /\ fetch' = [fetch EXCEPT ![f] = Idle]
  /\ UNCHANGED <<configVars, setting, cookieMu, mintVars, served>>

(* A cached credential comes within credExpiryBuffer of its expiry. *)
MintStale(l) ==
  /\ cookieCache[l] # None /\ cookieMu = None
  /\ cookieCache' = [cookieCache EXCEPT ![l] = None]
  /\ UNCHANGED <<configVars, cookieAuthFatal, setting, cookieMu, cookieRelayList, cookieRelaySeen,
                 cookieDiscoverIdx, fetch, served>>

-----------------------------------------------------------------------------
CookieInit ==
  /\ cookieAuthEnabled = FALSE
  /\ cookieHeader = NoCookie
  /\ cookieLinks = <<>>
  /\ cookieAuthFatal = FALSE
  /\ setting = NoSetting
  /\ cookieMu = None
  /\ cookieCache = NoMint
  /\ cookieRelayList = <<>>
  /\ cookieRelaySeen = {}
  /\ cookieDiscoverIdx = 0
  /\ fetch = [f \in Fetchers |-> Idle]
  /\ served = [s \in Slots |-> None]

cookieCredForSlot(f) ==
  \/ \E s \in Slots : CookieBegins(f, s)
  \/ LinksLoaded(f) \/ Locks(f)
  \/ \E urls \in UrlLists : Discovered(f, urls) \/ Served(f, urls)
  \/ \E e \in {"rejected", "failed"} : MintFails(f, e)
  \/ Chosen(f) \/ CookieReturns(f)

CookieNext ==
  \/ SetVKCookieAuth
  \/ \E f \in Fetchers : cookieCredForSlot(f)
  \/ \E l \in Links : MintStale(l)

CookieSpec == CookieInit /\ [][CookieNext]_cookieVars

-----------------------------------------------------------------------------
(* Properties *)

CookieTypeOK ==
  /\ cookieAuthEnabled \in BOOLEAN
  /\ cookieHeader \in Cookies \cup {NoCookie}
  /\ cookieLinks \in Seq(Links)
  /\ cookieAuthFatal \in BOOLEAN
  /\ setting \in [todo : {"none", "fatal", "links", "caches"}, links : Seq(Links)]
  /\ cookieMu \in Fetchers \cup {None}
  /\ cookieCache \in [Links -> UrlLists \cup {None}]
  /\ cookieRelayList \in Seq([address : Relays, linkID : Links])
  /\ cookieRelaySeen \subseteq Relays
  /\ cookieDiscoverIdx \in Nat
  /\ fetch \in [Fetchers -> [pc : FetchPC, slot : Slots \cup {0}, links : Seq(Links)]]
  /\ served \in [Slots -> Relays \cup {None}]

(* Property: two slots are never given the same relay, whatever the calls      *)
(* return on each mint, by concurrent fetches that a new configuration may     *)
(* come between at any step, their own reading of the last one included: each  *)
(* slot has a relay's quota to itself.  What a slot was given under a          *)
(* configuration is forgotten with its caches: served begins anew.             *)
SlotsDistinctRelays ==
  \A s, t \in Slots : s # t /\ served[s] # None => served[s] # served[t]

=============================================================================
