SPECIFICATION FairSpec
CONSTANTS
  ross = ross
  tim = tim
  alex = alex
  NoBot = NoBot
  Grant = Grant
  Bot = {ross, tim}
  Order <- OrderTwo
  Rounds = 1
  Broadcast = TRUE
  Mixed = {}
  AppMention = FALSE
  Handoff = TRUE
  AllowDegraded = {tim}
  MaxNoProgress = 2
  MaxMismatch = 2
  RunMax = 2
  MaxPings = 1
  MaxFaults = 1
CHECK_DEADLOCK FALSE
PROPERTIES EveryoneReplies SessionsEnd
INVARIANTS OncePerSlot FollowupsBounded ActiveBalanced
