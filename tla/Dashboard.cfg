CONSTANTS
  Clients = {w1, w2}
  Casts = {b1, b2}
  Inserts = {d1}
  None = None
SPECIFICATION FairSpec
INVARIANTS RecordedIsKept
PROPERTIES EventReachesStayers DeadClientsForgotten ShutdownEnds
