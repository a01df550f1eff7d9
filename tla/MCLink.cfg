CONSTANTS
  VCs = {v1, v2}
  max_buffer_size = 2
  uses_mask = TRUE
  MaxFlits = 4
SPECIFICATION FairSpec
INVARIANTS TypeOK NoOverflow InOrder
PROPERTIES IsPipe HandshakeCompletes
