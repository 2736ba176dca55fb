CONSTANTS
  npm = npm
  test = test
  Sid = {s1}
  Call <- OneCall
  NoCall = NoCall
  Req = {r1, r2}
  Nobody = Nobody
  Offered = {"allow_once"}
  Events = {"lifecycle", "message", "dialog", "end", "sweep"}
  MaxInFlight = 1
  MayGiveUp = TRUE
SPECIFICATION FairSpec
PROPERTIES GoldenRule
