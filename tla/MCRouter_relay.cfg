CONSTANTS
  n_ports = 2
  n_virtual_channels = 2
  max_buffer_size = 2
  DIRECTION_LOCAL = 0
  Dsts = {"far"}
  Routes <- MCRoutesFar
  Relays = {"far"}
  Streams <- MCStreamsFar
  Sizes = {2}
  selection_strategy = "RANDOM"
SPECIFICATION Spec
INVARIANT Contiguous
