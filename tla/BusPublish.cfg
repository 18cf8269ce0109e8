\* serial, async and sync handlers; the first may unsubscribe itself
SPECIFICATION BusFairSpec
CONSTANTS
  t = t
  h1 = h1
  h2 = h2
  h3 = h3
  Topics = {t}
  Publishers = {p1}
  Subs = {h1, h2, h3}
  TopicOf <- OneTopic
  Mode <- Mixed
  Once = {}
  Fn <- Distinct
  Closers = {h1}
  MaxEvents = 2
  None = None
INVARIANTS SerialInOrder WaitCountsCalls StaysSubscribed
PROPERTIES AllServed PublishReturns
CHECK_DEADLOCK FALSE
