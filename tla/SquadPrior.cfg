SPECIFICATION Spec
CONSTANTS
  ross = ross
  tim = tim
  alex = alex
  NoBot = NoBot
  Grant = Grant
  Bot = {ross, tim}
  Order <- OrderTwo
  Rounds = 1
  Broadcast = TRUE
  Mixed = {}
  AppMention = FALSE
  Handoff = FALSE
  AllowDegraded = {}
  MaxNoProgress = 2
  MaxMismatch = 2
  RunMax = 3
  MaxPings = 0
  MaxFaults = 0
CHECK_DEADLOCK FALSE
INVARIANT SlotHearsPrior
