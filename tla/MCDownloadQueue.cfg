SPECIFICATION Spec
CONSTANTS
  t1 = t1
  t2 = t2
  t3 = t3
  b1 = b1
  n1 = n1
  a0 = a0
  a1 = a1
  Task = {t1, t2, t3}
  Book = {b1}
  Novel = {n1}
  KeyOf <- MCKeyOf
  Account = {a0, a1}
  Legacy = a0
  MaxConcurrent = 2
  MaxSettled = 1
  MaxRestarts = 1
  MaxSwitches = 1
INVARIANTS
  TypeOK
  WorkersMatchTasks
  SlotsFilled
  ListMatchesStatus
  CompletedIsRecorded
PROPERTIES
  UnfinishedNeverDropped
  RestartKeepsTasks
  SettledStaysSettled
  ImplementsPool
