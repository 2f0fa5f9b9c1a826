SPECIFICATION Spec
CONSTANTS
  Setups <- Calm
  MaxMessages = 4
INVARIANT ConfirmedWhatWasShown
CHECK_DEADLOCK FALSE
