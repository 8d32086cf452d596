SPECIFICATION Spec
CONSTANTS
  Tasks = {t1}
  Nodes = {n1}
  Sweeper = sweeper
  Admin = admin
  NoTask = NoTask
  Durable = FALSE
  MaxRestarts = 0
PROPERTY TerminalIsFinal
CHECK_DEADLOCK FALSE
