CONSTANTS
  npm = npm
  test = test
  Sid = {s1}
  Call <- TwoCalls
  NoCall = NoCall
  Req = {r1}
  Nobody = Nobody
  Offered = {"always_allow"}
  Events = {}
  MaxInFlight = 1
  MayGiveUp = FALSE
SPECIFICATION Spec
PROPERTIES GrantsWhatWasShown
