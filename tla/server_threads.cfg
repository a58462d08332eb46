SPECIFICATION LifecycleSpec
CONSTANTS
  Connections = 5
  MaxWorkers = 2
  Size = 2
  CreateFails = TRUE
  StartFails = TRUE
  Uri <- MCUri
  Begins <- MCBegins
  StartMayFail = TRUE
INVARIANT TypeOK
INVARIANT NoneLost
INVARIANT ServesTaken
INVARIANT IdleCounts
INVARIANT QueuedHasWorker
INVARIANT LiveWhenUsed
PROPERTY ImplementsQueue
PROPERTY RoutedOnceRegistered
PROPERTY Answered
PROPERTY StopReturnsOrAllLeft
CHECK_DEADLOCK FALSE
