CONSTANTS
  a = a
  b = b
  q1 = q1
  q2 = q2
  q3 = q3
  Rooms = {a, b}
  Questions = {q1, q2, q3}
  RoomOf <- MCRoomOf
  NoRoom = NoRoom
  MaxEpoch = 1
  MaxNudges = 1
  MaxRequests = 1
  MaxThrows = 1
  MaxTimers = 2
SPECIFICATION FairSpec
INVARIANTS
  TypeOK
  OneTurn
  NothingForgotten
  AnsweredOnce
PROPERTIES EverythingSettles
CHECK_DEADLOCK FALSE
