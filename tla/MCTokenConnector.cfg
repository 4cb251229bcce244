CONSTANTS
  Users = {alice}
  Connector = connector
  BadAddress = bad
  Supply = 2
  Amounts = {1}
  MaxEvents = 2
  MaxCalls = 2
SPECIFICATION FairSpec

  
  
PROPERTIES
  EventuallySettled
CHECK_DEADLOCK FALSE
