CONSTANTS
  num_ports = 2
  n_virtual_channels = 1
  channels <- MCChannels
  fromTileBufferSize = 1
  toTileBufferSize = 1
  txBufferSize = 1
  rxBufferSize = 1
  Dsts = {8, 9}
  ChannelsTo <- MCChannelsTo
  RxStreams <- MCRxStreams
  MayMix = FALSE
  Sizes = {2}
  Traffic = {"to_antenna", "to_tile"}
SPECIFICATION FairSpec
INVARIANTS TypeOK WholeToAntenna AppropriateBuffer WholeToTile MeaningfulStatus
PROPERTY EveryPacketThrough
