CONSTANTS
  Rpcs = {r1, r2}
  Signals = {SIGTERM, SIGINT}
SPECIFICATION FairSpec
INVARIANTS
  CleanStopHasNoVictims
  TerminalStateTellsOutcome
  FinalCheckpointIsLast
PROPERTIES
  ImplementsLifecycle
  AlwaysStops
