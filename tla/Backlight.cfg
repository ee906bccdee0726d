SPECIFICATION Spec
CONSTANTS
  Setters = {s1, s2}
  Values = {99, 650, 700, 65637}
  Maxima = {0, 100, 1000}
  Links <- MCLinks
  FullScale = 255
  MaxOLED = 500
  Modulus = 65536
  MaxCalls = 2
  Displays = {d1, d2}
  Services = {p1, p2, bare}
  Listing = {p1, p2}
  ApplesNames = {n1, n2}
  ModulesNames = {n2, n3}
  Missing = Missing
  NoLink = NoLink
INVARIANTS
  LevelFollowsValue
  PathFitsLink
  PanelShowsCurrent
  PanelsSeen
CHECK_DEADLOCK FALSE
