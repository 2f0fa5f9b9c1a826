SPECIFICATION FairSpec
CONSTANTS
  ross = ross
  tim = tim
  alex = alex
  NoBot = NoBot
  Bot = {ross, tim, alex}
  Winner = ross
  Faults = {"error", "error_after", "del_again", "expire", "lost", "refused", "crash"}
  MaxFaults = 2
INVARIANTS ClaimsExclusive ReactionsBudget
PROPERTY SomeoneReacts
CHECK_DEADLOCK FALSE
