SPECIFICATION FairSpec
CONSTANTS
  p1 = p1
  p2 = p2
  Programs <- MCPrograms
  NumCalls <- MCNumCalls
  Strangers = {foreign}
  Unreliable = TRUE
  Nothing = Nothing
  TimedOut = TimedOut
  Error = Error
CHECK_DEADLOCK FALSE
INVARIANTS
  TypeOK
  RightReply
  NoReplyQueueLeft
  RequestQueueGone
PROPERTIES
  ProgramEnds
  ImplementsRemoteCall
