SPECIFICATION FairSpec
CONSTANTS
  Pages = {"chat", "firehose", "map"}
  Slow = {"chat", "map"}
  Limit = 2
  Capacity = 3
  Slots = {1, 2}
  NoCursor = NoCursor
  Bursts = FALSE
  MaxPackets = 5
  MaxFails = 2
INVARIANTS NewestOnTop NoGap
PROPERTIES CommittedIsShown
