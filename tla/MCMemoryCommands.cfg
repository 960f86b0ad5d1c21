\* Every event of every actor once, and a maintainer's commands one after the other.
SPECIFICATION Spec
CONSTANTS
  Runs = {1, 2}
  Scenarios <- MCScenarios
  EventsIn <- MCEventsIn
  PayloadOf <- MCPayloadOf
  AnswerTo <- MCAnswerTo
  ChangeAt <- MCChangeAt
  Proposed <- MCProposed
  Shas = {"base", "head"}
  maxTitle = 3
  maxBody = 8
  maxDeepSegments = 2
  ImportExtensions <- MCExtensions
INVARIANTS
  AcceptIsHonored
  DenialNamesCause
CHECK_DEADLOCK FALSE
