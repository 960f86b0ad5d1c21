\* A comment on a change request, as the drivers hand it over.
SPECIFICATION Spec
CONSTANTS
  Runs = {1, 2}
  Scenarios <- MCScenarios
  EventsIn <- MCEventsIn
  PayloadOf <- MCPayloadOf
  AnswerTo <- MCAnswerTo
  ChangeAt <- MCChangeAt
  Proposed <- MCProposed
  Shas = {"base", "head"}
  maxTitle = 3
  maxBody = 8
  maxDeepSegments = 2
  ImportExtensions <- MCExtensions
INVARIANTS
  CommentsAreEnriched
CHECK_DEADLOCK FALSE
