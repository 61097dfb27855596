\* Two calls, two writes of others, every request repeated once.
SPECIFICATION FairSpec
CONSTANTS
  Subjects <- ConsoleSubjects
  Retries = 1
  MaxCalls = 2
  MaxVersion = 2
INVARIANTS
  ReadYourWrites
  AsOfVisit
PROPERTIES
  EventuallyCurrent
  IsServerView
CHECK_DEADLOCK FALSE
