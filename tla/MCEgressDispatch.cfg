SPECIFICATION LiveSpec
CONSTANTS
  l1 = l1
  l2 = l2
  m1 = m1
  m2 = m2
  m3 = m3
  m4 = m4
  shm = shm
  Listeners = {l1, l2}
  Messages = {m1, m2, m3, m4, shm}
  ShmMessages = {shm}
  MessageQueueSize = 2
INVARIANTS
  TypeOK
  NoSendIsRefused
  StopsWithNothingLeft
CHECK_DEADLOCK FALSE
PROPERTIES
  ImplementsQueue
  RetiredWorkerStops
