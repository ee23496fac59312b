CONSTANTS
  Inputs <- MCInputs
  Outputs <- MCOutputs
  Runtimes <- MCRuntimes
  Disks <- MCDisks
  MaxArguments = 4
  MaxCommands = 2

SPECIFICATION DriverSpec

INVARIANT SourcesSurvive
PROPERTY ImplementsCompilation

CHECK_DEADLOCK FALSE
