CONSTANTS
  t1 = t1
  t2 = t2
  t3 = t3
  buffer = buffer
  motor = motor
  select = select
  Task <- MCTask
  Queue <- MCLiveQueue
  IntrQueue <- MCSelect
  OpenQueue <- MCSelect
  Waits <- MCLiveWaits
  NoTask = NoTask
  NoQueue = NoQueue
SPECIFICATION Spec
PROPERTY ReleasedReturns
