SPECIFICATION Spec
CONSTANTS
  k1 = k1  k2 = k2  k3 = k3  k4 = k4
  n1 = n1  n2 = n2  n3 = n3  n4 = n4  pk1 = pk1
  Keys <- MCKeys
  Nums <- MCNums
  Huge = {}
  PublicKeys = {pk1}
  NoNum = NoNum  NoKey = NoKey
  NumOf <- MCNumOf
  KeyOf <- MCKeyOf
  NoGateway = NoGateway  BadGateway = BadGateway
  PacketIds = {1, 2, 3, 4, 5}
  RxTimes = {1}
  InitialNodes <- MCInitialNodes
  MaxTime = 5
  EnforceFK = FALSE
  Keep = 2
  Envelopes <- MCEnvelopes
  PortOf <- MCPortOf
  ToOf <- MCToOf
  ChannelOf <- MCChannelOf
  NoChannel = "null"
  Lower <- MCLower
  RouteOf <- MCRouteOf
  BackOf <- MCBackOf
  NeighborsOf <- MCNeighborsOf
  Garbled = Garbled
  Unset = Unset
  Day = 2
  EdgeWindow = 1
  EdgeLimit = 1
  Counts <- MCCounts
  Lengths = {1, 2}
  Offsets <- MCOffsets
  MaxFilings = 3
INVARIANTS CountsMatch EdgesFailLate EdgesAgreeWithGraph TraceHasRows
INVARIANTS PathsAreSound WindowsAgree
