CONSTANTS
  t1 = t1
  t2 = t2
  c1 = c1
  None = None
  Tasks <- MCTasks
  Codes <- MCCodes
  MaxRotations = 2
SPECIFICATION Spec
PROPERTY RefreshRefetches
