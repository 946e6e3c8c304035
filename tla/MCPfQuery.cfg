\* Two threads, two requests, replies that come late, twice or never.
SPECIFICATION FairSpec
CONSTANTS
  Thread = {t1, t2}
  Keys = 2
  WaitSteps = 4
  MaxReplies = 2
  None = None
INVARIANTS
  TypeOK
  ConsumedIsReturned
  OwnReply
  NoReplyMissed
PROPERTY
  QueryReturns
CHECK_DEADLOCK FALSE
