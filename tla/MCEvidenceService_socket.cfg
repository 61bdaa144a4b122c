SPECIFICATION FairSpec
CONSTANTS
  a = a
  b = b
  Clients = {a, b}
  MaxConcurrent = 1
  MaxRevision = 2
  Forms <- MCForms
PROPERTIES
  BusyMeansFull
  AnswersAreCurrent
  FailuresAreExplained
  SocketIsTakenOver
  RequestsEnd
  ServiceEnds
