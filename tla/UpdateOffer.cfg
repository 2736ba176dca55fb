CONSTANTS
  Release <- Releases
  BridgeVersion <- Bridge05
  Factory <- Dial04
  Lossy = FALSE
  Drops = TRUE
  Req = {r1}
  Nobody = Nobody
  Cmd = {c1, c2}
  Repeats = FALSE
  MaxInFlight = 1
SPECIFICATION AskSpec
INVARIANTS OffersAreFlashable AnswersWhatWasShown
PROPERTIES OffersReachTheDial InstallsWhatWasChecked CallsComeToTheDial
