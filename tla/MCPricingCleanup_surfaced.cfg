SPECIFICATION FairSpec
CONSTANTS
  r1 = r1
  r2 = r2
  w1 = w1
  w2 = w2
  o1 = o1
  d1 = d1
  t1 = t1
  t2 = t2
  t3 = t3
  s1 = s1
  s2 = s2
  s3 = s3
  Records = {r1}
  Workers = {w1, w2}
  Operators = {}
  Dates = {d1}
  Prices = {1}
  Tokens = {t1, t2, t3}
  Stamps = {s1}
  NoToken = NoToken
  NoStamp = NoStamp
  NoMarker = NoMarker
  NoOverride = NoOverride
  StayDate <- OneDate
  NewPrice <- TwoPrices
  MaxEdits = 0
  MaxCrashes = 1
PROPERTIES
  ClaimsAreSurfaced
