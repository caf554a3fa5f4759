SPECIFICATION Spec
CONSTANTS
  k1 = k1  k1b = k1b  k2 = k2  k3 = k3  k4 = k4
  n1 = n1  n2 = n2  n3 = n3  pk = pk
  Keys <- MCKeys
  Nums <- MCNums
  Huge <- MCHuge
  PublicKeys = {pk}
  NoNum = NoNum  NoKey = NoKey
  NumOf <- MCNumOf
  KeyOf <- MCKeyOf
  Ingest = Ingest  Cleanup = Cleanup
  NoEnvelope = NoEnvelope
  NoGateway = NoGateway  BadGateway = BadGateway
  PacketIds = {1}
  RxTimes = {1, 2}
  InitialNodes <- MCInitialNodes
  MaxTime = 4
  EnforceFK = FALSE
  Keep = 2
  UtcOffset <- WestOfUtc
  Envelopes <- CopyEnvelopes
PROPERTY RetentionHonoured
