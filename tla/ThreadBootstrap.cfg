SPECIFICATION Spec
CONSTANTS
  ross = ross
  tim = tim
  alex = alex
  Ceo = Ceo
  NoBot = NoBot
  Bot = {ross, tim, alex}
  Setups <- Stale
  MaxSaid = 1
  MaxPosts = 1
PROPERTY BootstrapFires
CHECK_DEADLOCK FALSE
