CONSTANTS
  s1 = s1
  s2 = s2
  Session = {s1}
  Handler = {h1}
  View <- Views
  ViewsOf <- ViewsOfOne
  TooLong <- Long
  MaxRx = 1
SPECIFICATION LinkFairSpec
PROPERTIES DialCatchesUp
