SPECIFICATION FairSpec
CONSTANTS
  alex = alex
  ross = ross
  tim = tim
  loop = loop
  session = session
  loop2 = loop2
  old = old
  new = new
  Bot = {alex, ross, tim}
  Self = alex
  Ross = ross
  Nobody = Nobody
  MaxLines = 2
  MaxLen = 5
  Caller = {loop, session, loop2}
  TinyBudget = 2
  MinSlice = 4
  MaxSlice = 15
  MaxBackoff = 8
  Pod = {old, new}
  Style = {"open", "any", "lessons"}
  Drafts <- DraftsOf
  Rewrites <- RewritesOf
  MaxDraft = 3
  Setups <- All
INVARIANTS TypeOK MuExclusive MuHeldAtMost FallbackFollows OnlyHiddenLabels NeverSliced MentionsAsDecided
PROPERTIES LessonsKept EveryoneServed
CHECK_DEADLOCK FALSE
