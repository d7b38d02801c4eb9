SPECIFICATION FairSpec
CONSTANTS
  t1 = t1
  t2 = t2
  r1 = r1
  m1 = m1
  m2 = m2
  p1 = p1
  NoText = NoText
  NoRow = NoRow
  None = None
  Threads = {t1, t2}
  Replies = {}
  Drafted = {m1}
  Typed = {p1}
  MaxMessages = 2
  MaxTouches = 1
  MaxCrashes = 1
PROPERTIES
  EveryStateIsProcessed
