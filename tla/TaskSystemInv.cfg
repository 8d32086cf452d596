SPECIFICATION SystemSpec
CONSTANTS
  Tasks = {t1}
  Nodes = {n1, n2}
  Sweeper = sweeper
  Admin = admin
  NoTask = NoTask
  Durable = FALSE
  MaxRestarts = 1
  Sessions = {s1, s2}
  NoSession = NoSession
  SendBuf = 2
  Asked = {"dispatch"}
  MaxCrashes = 1
INVARIANTS
  SystemInv
PROPERTY Spec
CHECK_DEADLOCK FALSE
