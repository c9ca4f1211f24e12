SPECIFICATION FairSpec
CONSTANTS
  Keys = {k1, k2}
  Calls = {c1, c2, c3, c4}
  Drainers = {d1}
  NoCall = NoCall
INVARIANTS TypeOK MutualExclusion DrainCoversEarlierCalls
PROPERTIES ServedInOrder EveryCallFinishes
