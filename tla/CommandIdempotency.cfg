SPECIFICATION Spec
CONSTANTS
  Requests = {r1, r2, r3}
  Keys = {k1, k2}
  NoKey = NoKey
  Bodies = {b1, b2}
  Ttl = 2
  MaxEntries = 1
  MaxTime = 3
SYMMETRY Symmetric
INVARIANTS TypeOK IssuedOncePerLifetime AnswersAreTheirOwn StoreBounded FailureFreesKey
CHECK_DEADLOCK FALSE
