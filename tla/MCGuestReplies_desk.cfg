SPECIFICATION Spec
CONSTANTS
  t1 = t1
  t2 = t2
  r1 = r1
  m1 = m1
  m2 = m2
  p1 = p1
  NoText = NoText
  NoRow = NoRow
  None = None
  Threads = {t1, t2}
  Replies = {r1}
  Drafted = {m1}
  Typed = {p1}
  MaxMessages = 2
  MaxTouches = 2
  MaxCrashes = 0
SYMMETRY Interchangeable
INVARIANTS
  SilenceIsAgreed
  OutcomesAreHonest
PROPERTIES
  ImplementsReplyDelivery
