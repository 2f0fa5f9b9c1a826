SPECIFICATION FairSpec
CONSTANTS
  canonical = canonical
  other = other
  owners = owners
  home = home
  Home = Home
  away = away
  ceo = ceo
  bot = bot
  Key = {1, 2, 3, 4}
  Email = {1, 2}
  Time = {1, 2}
  Node = {1, 2}
  Pod = {1, 2}
  Prefix = {canonical, other, owners}
  Under <- Under4
  Namespace = {home, Home, away}
  NoPrefix = NoPrefix
  NoNamespace = NoNamespace
  RedisPrefixes = {canonical, owners}
  Waitlist <- Waitlists
  Namespaces <- Home1
  DefaultLimit <- Default2
  MaxLimit <- Max3
  MaxPages = 2
  Setups <- All
  Ceo = ceo
  Writer = {ceo, bot}
  SameFold <- Fold
  RossNamespaces = {home}
  RossPrefixes = {canonical, owners}
  RossDefault = NoNamespace
  ThreadOwners = owners
INVARIANTS TypeOK NothingLeftOut NoMailTwice KubeTellsAll WaitlistGuarded LatestIsNewest
PROPERTY EveryQuestionAnswered
CHECK_DEADLOCK FALSE
