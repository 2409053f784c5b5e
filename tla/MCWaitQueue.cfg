CONSTANTS
  t1 = t1
  t2 = t2
  t3 = t3
  buffer = buffer
  motor = motor
  select = select
  Task <- MCTask
  Queue <- MCQueue
  IntrQueue <- MCNoQueue
  OpenQueue <- MCMotor
  Waits <- MCWaits
  NoTask = NoTask
  NoQueue = NoQueue
SPECIFICATION Spec
SYMMETRY Symmetry
INVARIANTS
  TypeOK
  NoSleeperForgotten
PROPERTY ImplementsWaitSet
