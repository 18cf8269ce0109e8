\* one console, one publisher
SPECIFICATION ConsFairSpec
CONSTANTS
  Topics = {w1}
  Publishers = {p1}
  Subs = {w1}
  TopicOf <- OwnTopic
  Mode <- Serial
  Once = {}
  Fn <- SendMethod
  Closers = {}
  MaxEvents = 4
  None = None
  Text <- LogThenOther
INVARIANTS NothingLost
PROPERTIES BufferFlushed ConsoleEnds
CHECK_DEADLOCK FALSE
