CONSTANTS
  s1 = s1
  Urls = {s1}
  ProbeInterval = 20
  CleanupTimeout = 44
  ProbeTime = 1
  SleepTime = 2
  FetchTime = 2
  AnswerTime = 3
  CancelTime = 3
SPECIFICATION FairDiscoverSpec
INVARIANTS ListSound
PROPERTIES KeptTwoRounds DeactivateReturns
CHECK_DEADLOCK FALSE
