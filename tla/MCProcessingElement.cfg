CONSTANTS
  mesh_dim_x = 4
  mesh_dim_y = 2
  n_virtual_channels = 1
  min_packet_size = 2
  max_packet_size = 3
  packet_injection_rate = 20
  probability_of_retransmission = 50
  locality = 30
  hub_for_tile <- MCHubs
  traffic_table <- MCTable
  table_period = 4
  traffic_list <- MCList
  traffic_distributions <- MCDistributions
  MaxQueue = 2
SPECIFICATION Spec
INVARIANT DestinationOK
PROPERTY WholePackets
CHECK_DEADLOCK FALSE
