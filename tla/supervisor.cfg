SPECIFICATION FairSpec
CONSTANT MaxSignals = 2
INVARIANTS ExitIsClean
PROPERTIES ScanStopsAll SignalEnds
