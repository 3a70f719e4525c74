SPECIFICATION CookieSpec
CONSTANTS
  l1 = l1
  l2 = l2
  r1 = r1
  r2 = r2
  None = None
  NoCookie = NoCookie
  Fetchers = {f1, f2}
  Links = {l1, l2}
  Relays = {r1, r2}
  Slots = {1, 2}
  Cookies = {k1}
  LinkLists <- TwoLinks
  UrlLists <- Overlapping
SYMMETRY Symmetry
INVARIANTS
  SlotsDistinctRelays
