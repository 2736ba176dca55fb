CONSTANTS
  npm = npm
  test = test
  Sid = {s1}
  Call <- OneCall
  NoCall = NoCall
  Req = {r1, r2}
  Nobody = Nobody
  Offered = {"always_allow", "reject"}
  Events = {"end"}
  MaxInFlight = 1
  MayGiveUp = TRUE
SPECIFICATION Spec
SYMMETRY ReqSymmetry
INVARIANTS WaitersAreLive
PROPERTIES KeepsApprovalPromise OnlyGivingUpOrphans
