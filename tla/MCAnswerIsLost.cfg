CONSTANTS
  Machines <- MCMachines
  Statements <- MCAnswers
  Variables <- MCVariables
  Globals = {"g", "h"}
  Prototypes <- MCPrototypes
  Library <- MCLibrary

SPECIFICATION Spec

INVARIANT DoesWhatItSays

CHECK_DEADLOCK FALSE
