SPECIFICATION FairBdbSpec
CONSTANTS
  Procs = {p1, p2}
  Keys <- MCKeys
  Vals = {1, 2}
  Undefined = Undefined
  NoProc = NoProc
  Commands <- AllCommands
INVARIANTS
  BdbTypeOK
  IndexMatchesMaster
  LiveReadsCommitted
PROPERTIES
  EveryCommandEnds
  LastOpenerSucceeds
  OnlyPutOverwrites
  EnvironmentSpec
