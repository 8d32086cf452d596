SPECIFICATION Spec
CONSTANTS
  Tasks = {t1, t2}
  Nodes = {n1}
  Sweeper = sweeper
  Admin = admin
  NoTask = NoTask
  Durable = FALSE
  MaxRestarts = 1
PROPERTY Implements
CHECK_DEADLOCK FALSE
