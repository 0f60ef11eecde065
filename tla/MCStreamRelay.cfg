CONSTANTS
  None = None
  i1 = i1
  i2 = i2
  t1 = t1
  t2 = t2
  Id <- MCId
  Text <- MCText
  OpenAiFrame <- MCOpenAiFrame
  AnthropicFrame <- MCAnthropicFrame
  MaxFrames = 5
SPECIFICATION RelaySpec
INVARIANTS RelayTypeOK TextReachesClient FinishReachesClient BilledIsTold ChainedGatewayAgrees
CHECK_DEADLOCK FALSE
