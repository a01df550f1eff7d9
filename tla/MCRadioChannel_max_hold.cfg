CONSTANTS
  Ring <- MCRing
  Policies = {"TOKEN_MAX_HOLD"}
  PowerManaged = {}
  Listeners <- MCListeners
  max_hold_cycles = 5
  flit_transmission_cycles = 4
  txBufferSize = 1
  rxBufferSize = 1
  Destinations <- MCOneSender
  Sizes = {2}
SPECIFICATION Spec
PROPERTIES KeptWhileNeeded
