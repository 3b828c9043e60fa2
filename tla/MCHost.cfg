SPECIFICATION FairHost
CONSTANTS
  ENTRYPOINT = 16
  Foreigns <- MCForeigns
  Texts <- MCTexts
  MaxCompiles = 2
  MaxDecls = 4
  MaxMachines = 1
INVARIANTS TypeOK LookupFindsFirst CallsIndexed CallsResolved PoolFits Owned
PROPERTY CompilationEnds
CHECK_DEADLOCK FALSE
