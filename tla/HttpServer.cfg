\* Requests of up to six bytes, two clients, a page of two bytes.
CONSTANTS
  CONTENT = 2
  BACKLOG = 1
  MaxClients = 2
  MaxRequest = 6
SPECIFICATION FairSpec
INVARIANTS MatchesReference 
PROPERTIES EventuallyHandled
CHECK_DEADLOCK FALSE
