CONSTANTS
  num_ports = 2
  n_virtual_channels = 2
  channels <- MCChannels
  fromTileBufferSize = 1
  toTileBufferSize = 1
  txBufferSize = 1
  rxBufferSize = 1
  Dsts = {8, 9}
  ChannelsTo <- MCChannelsTo
  RxStreams <- MCRxStreamsVc
  MayMix = TRUE
  Sizes = {2}
  Traffic = {"to_tile"}
SPECIFICATION Spec
INVARIANT AppropriateBuffer
