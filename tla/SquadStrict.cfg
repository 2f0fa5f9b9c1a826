SPECIFICATION Spec
CONSTANTS
  ross = ross
  tim = tim
  alex = alex
  NoBot = NoBot
  Grant = Grant
  Bot = {ross, tim, alex}
  Order <- OrderThree
  Rounds = 2
  Broadcast = TRUE
  Mixed = {}
  AppMention = TRUE
  Handoff = FALSE
  AllowDegraded = {}
  MaxNoProgress = 2
  MaxMismatch = 2
  RunMax = 3
  MaxPings = 0
  MaxFaults = 2
CHECK_DEADLOCK FALSE
INVARIANTS TypeOK TurnInv
PROPERTY TakesTurns
