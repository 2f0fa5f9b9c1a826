SPECIFICATION Spec
CONSTANTS
  Setups <- All
  MaxMessages = 5
INVARIANTS TypeOK SentOncePerAnswer
PROPERTIES InTaskThread DraftsStay KeepsOutbox
CHECK_DEADLOCK FALSE
