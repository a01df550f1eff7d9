CONSTANTS
  rt_noc <- MCTable
  mesh_dim_x = 5
  mesh_dim_y = 4
  n_delta_tiles = 8
  Networks <- MCNetworks
  HubNetworks <- MCHubNetworks
  MaxHops = 20
SPECIFICATION Spec
INVARIANTS AlwaysAWay Shortest LooksAhead HubsAgree AsForetold NoCircle
PROPERTIES Arrives TurnsRespected
CHECK_DEADLOCK FALSE
