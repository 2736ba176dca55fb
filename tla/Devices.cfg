CONSTANTS
  Client = {c1, c2}
  View = {v1, v2}
  Nothing = Nothing
  Caster = {b1}
  ClientCap = 2
  Device = {hub, dial}
  DeviceCap = 2
  MergedCap = 2
  MaxGiven = 4
  s3 = s3
  Sid = {s1, s2, s3}
  State = {"blocked", "permission_request", "working"}
  Free = Free
  MaxSlots = 3
  CommandMax = 180
  WireMax = 140
  Envelope = 143
  RxMax = 480
  MaxGrants = 2
SPECIFICATION DevicesSpec
INVARIANTS TypesOK ClientsFollowHub
PROPERTIES PagesCatchUp AnswersArriveInOrder RowsStayPut ShortCallsAreMeant
