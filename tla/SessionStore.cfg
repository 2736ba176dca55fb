CONSTANTS
  Sid = {s1, s2}
  Call = {c1}
  NoCall = NoCall
  Project = {p1}
  NoProject = NoProject
  Grace = 1
  BlockedSilence = 2
  WorkingSilence = 3
  MaxAge = 4
  SweepEvery = 2
SPECIFICATION LoopFairSpec
INVARIANTS OrderListsStore CuesExpire
PROPERTIES CueGoesOutForAReason KeepsRosterPromise LoopIsOneSweep SilentSessionIsForgotten
