SPECIFICATION FairSpec
CONSTANTS
  ross = ross
  tim = tim
  alex = alex
  Ceo = Ceo
  NoBot = NoBot
  Bot = {ross, tim, alex}
  Setups <- All
  MaxSaid = 2
  MaxPosts = 2
INVARIANTS TypeOK OneVoice OwnersAgree ChainsDoNotBranch AcksEndThere
CHECK_DEADLOCK FALSE
PROPERTY CeoIsAnswered
