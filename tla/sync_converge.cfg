CONSTANTS
  q1 = q1
  q2 = q2
  q3 = q3
  Req = {q1, q3}
  Home <- MCHome
  Peers <- MCPeersUsToEu
  GlobalLimits = {2}
  MaxRestarts = 0
  MaxLostReplies = 1
SPECIFICATION FairSpec
CHECK_DEADLOCK FALSE
INVARIANTS DenialJustified
PROPERTIES ConvergesUsEu ImplementsQuota
