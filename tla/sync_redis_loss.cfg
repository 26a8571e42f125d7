CONSTANTS
  q1 = q1
  q2 = q2
  q3 = q3
  Req = {q1, q2}
  Home <- MCHome
  Peers <- MCPeersUsToEu
  GlobalLimits = {1}
  MaxRestarts = 1
  MaxLostReplies = 0
SPECIFICATION FairSpec
CHECK_DEADLOCK FALSE
PROPERTIES ConvergesUsEu
