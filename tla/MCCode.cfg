CONSTANTS
  Machines <- MCMachines
  Statements <- MCStatements
  Variables <- MCVariables
  Globals = {"g", "h"}
  Prototypes <- MCPrototypes
  Library <- MCLibrary
  Cases <- MCCases
  Frames <- MCFrames
  Operations <- MCOperations
  Texts <- MCTexts

SPECIFICATION CodeSpec

INVARIANT DoesWhatItSays
INVARIANT AcceptsWhatHasAMeaning
INVARIANT EverySlotIsInTheFrame
INVARIANT ArgumentsArrive
INVARIANT ReferencesComeBack
INVARIANT CallerIsIntact
INVARIANT PromisesAreKept
INVARIANT CallersFrameIsIntact

CHECK_DEADLOCK FALSE
