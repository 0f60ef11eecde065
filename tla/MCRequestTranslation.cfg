CONSTANTS
  None = None
  Empty = Empty
  Request <- MCRequest
  Answer <- MCAnswer
  MaxCalls = 2
SPECIFICATION Spec
INVARIANTS TypeOK QuestionReachesUpstream ChainedGatewayUnderstands HitsAnswerTheirQuestion AnswerReachesClient
CHECK_DEADLOCK FALSE
