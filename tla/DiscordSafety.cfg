SPECIFICATION Spec
CONSTANTS
  Chunks = 2
  ReplayWindow = 1
  NonceMemory = 2
  PostTimeout = 1
  Procs = {1, 2}
  Messages = {m1}
  Courses = {c1}
  MaxActiveTurns = 2
  MaxTasks = 2
  MaxTopics = 1
  MaxTime = 3
  MaxFaults <- OneFault
CHECK_DEADLOCK FALSE
INVARIANTS
  RoutedOnce
  RepliesArePrefixes
  RecordMatchesChannel
