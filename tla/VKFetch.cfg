SPECIFICATION FairSpec
CONSTANTS
  l1 = l1
  l2 = l2
  r1 = r1
  r2 = r2
  None = None
  NoCookie = NoCookie
  Fetchers = {f1}
  Links = {l1, l2}
  Relays = {r1, r2}
  Slots = {1, 2}
  Cookies = {k1}
  LinkLists <- TwoLinks
  UrlLists <- Overlapping
  Apps = {a1}
  Clients = {v1, v2}
  MaxWaves = 2
  MaxAttempts = 2
  MaxPoW = 2
  MaxIds = 2
INVARIANTS
  ShownCaptchaUntouched
  AppAnswerWhole
PROPERTIES
  CallsProgress
  FetchReturns
CHECK_DEADLOCK FALSE
