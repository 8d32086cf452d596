SPECIFICATION FairSpec
CONSTANTS
  Tasks = {t1}
  Nodes = {n1, n2}
  Sweeper = sweeper
  Admin = admin
  NoTask = NoTask
  Durable = TRUE
  MaxRestarts = 1
INVARIANTS
  IInv
  SuccessIsReported
  ToldIsKept
  ProbeLeavesNoTrace
  ExecuteSentOnce
  SentIsRecorded
  OrphansAreSettled
PROPERTIES SettledIsFinal CallersReturn EveryTaskSettles
CHECK_DEADLOCK FALSE
