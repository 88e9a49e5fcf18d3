SPECIFICATION FairSpec
CONSTANTS
  Call = {c1}
  Stream = {s1}
  None = None
  MaxRequests = 5
  MaxRows = 2
CHECK_DEADLOCK FALSE
INVARIANT OutcomeIsTrue
PROPERTY ConsumedStreamsEnd
