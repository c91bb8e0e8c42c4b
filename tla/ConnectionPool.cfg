\* Three handlers, two connections.
CONSTANTS
  Reqs = {r1, r2, r3}
  MaxConnections = 2
SPECIFICATION PoolSpec
INVARIANT
  ConnectionsServeStatements
PROPERTY
  PoolNeverStarves
