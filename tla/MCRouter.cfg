CONSTANTS
  n_ports = 2
  n_virtual_channels = 2
  max_buffer_size = 1
  DIRECTION_LOCAL = 0
  Dsts = {"far", "either"}
  Routes <- MCRoutesTwo
  Relays = {}
  Streams <- MCStreams
  Sizes = {2}
  selection_strategy = "RANDOM"
SPECIFICATION FairSpec
INVARIANTS TypeOK Contiguous RightOutput HeldExactly
PROPERTY EveryReservationEnds
