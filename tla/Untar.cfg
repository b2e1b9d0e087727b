SPECIFICATION Spec
CONSTANTS
    Blk = 2
    Name <- MCName
    Packages <- MCPackages
    FdMax = 2
    IntMax = 1000
    MaxFaults = 1
    MaxRuns = 3
INVARIANTS ExtractsExactly FilesArePrefixes StreamsAccounted
PROPERTY UntarReturns
CHECK_DEADLOCK FALSE
