SPECIFICATION LiveSpec
CONSTANTS
  Beads = {root, task}
  Root = root
  Verifiers = {v1}
  None = none
  Plans = {{"declare"}, {"claim"}}
  Others = TRUE
  MaxDeclarations = 2
  MaxFaults = 1
INVARIANT TypeOK
PROPERTIES ConversationalIsFree SteadyWorkBlocks TaskOutcomeIsClosed TurnEnds
