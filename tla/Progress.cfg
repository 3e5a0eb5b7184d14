SPECIFICATION McSpec
CONSTANTS
  Sources = {s1, s2}
  Keys = {k1}
  Urls = {u1, u2}
  Workers = {w1}
  None = None
  Requests = {r1}
  Jobs = {j1}
PROPERTY ActiveRequestsAreServed
PROPERTY RunningRequestsResolve
PROPERTY RawCVsVanish
PROPERTY ScansReachVerdict
