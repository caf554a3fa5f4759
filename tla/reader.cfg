SPECIFICATION FairSpec
CONSTANTS
  Messages <- MCMessages
  Primary = "primary"
  Keys = {"primary", "k1"}
  ShortKeys = {"short"}
  KeyConfigs <- MCKeyConfigs
  SkipConfigs <- MCSkipConfigs
  Nodes = {"n1", "n2"}
  TopicCount = 2
  Nothing = Nothing
  MaxSent = 3
  MaxBreaks = 2
INVARIANTS DefaultChannelIsRead EndsOverOneMessage
PROPERTIES ImplementsUplink KeepsReading
