CONSTANTS
  t1 = t1
  t2 = t2
  alice = alice
  bob = bob
  home = home
  runs = runs
  failed = failed
  ingress = ingress
  tok = tok
  None = None
  Blank = Blank
  Tabs = {t1, t2}
  Emails = {alice, bob}
  Pages = {home, runs, failed}
  Home = home
  Cut <- FirstOnly
  Confs <- TheConfs
  Addrs = {ingress}
  ownAddr = ingress
  loginLimit = 2
  triggerLimit = 2
  window = 2
  sessionTTL = 1
  stateTTL = 1
  MaxTime <- Clocks
  used <- Clicks
  Followers <- Then
  MaxRestarts = 1
SPECIFICATION FairSpec
INVARIANTS AccessIsEarned OwnPostsPass LandsWhereAsked AtMostTwice RefusedHadItsShare
PROPERTY SomeLoginCounts
