CONSTANTS
  Idx = {0, 1}
  Scopes = {5}
  MSG_POOL_SIZE = 2
  MAX_PRESSES = 4
SPECIFICATION FairSpec
PROPERTY PressEventuallyHandled
