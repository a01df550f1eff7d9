CONSTANTS
  Ring <- MCRing
  Policies = {"TOKEN_PACKET", "TOKEN_HOLD", "TOKEN_MAX_HOLD"}
  PowerManaged = {"TOKEN_PACKET"}
  Listeners <- MCListeners
  max_hold_cycles = 3
  flit_transmission_cycles = 2
  txBufferSize = 2
  rxBufferSize = 1
  Destinations <- MCDestinations
  Sizes = {2}
SPECIFICATION FairSpec
INVARIANTS TypeOK Exclusive WholePackets Awake
PROPERTIES HeldThroughPacket EveryoneTransmits
