CONSTANTS
  n_ports = 2
  n_virtual_channels = 1
  max_buffer_size = 2
  DIRECTION_LOCAL = 0
  Dsts = {"far", "either"}
  Routes <- MCRoutesTwo
  Relays = {}
  Streams <- MCStreamsLevel
  Sizes = {2}
  selection_strategy = "BUFFER_LEVEL"
SPECIFICATION Spec
INVARIANTS NoIdleOutput StatusAccurate
