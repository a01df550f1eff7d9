CONSTANTS
  rt_noc <- MCNoTable
  mesh_dim_x = 4
  mesh_dim_y = 2
  n_delta_tiles = 16
  Networks <- NoNetworks
  HubNetworks <- MCRelay
  MaxHops = 8
SPECIFICATION Spec
INVARIANT HubsAgree
CHECK_DEADLOCK FALSE
