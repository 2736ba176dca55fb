CONSTANTS
  npm = npm
  Sid = {a, b}
  Call <- ThreeCalls
  s1 = s1
  s2 = s2
  Session = {s1, s2}
  Handler = {}
  View <- Views
  ViewsOf <- ViewsOfTwo
  TooLong <- Long
  MaxRx = 1
SPECIFICATION RecordsSpec
SYMMETRY SidSymmetry
INVARIANTS FileTracksMemory KeptGrantsAreRemembered GrantedCallsPass LastIsOnTheDial
PROPERTIES FileLosesOnlyTheForgotten
