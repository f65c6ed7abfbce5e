\* Reconnects, replaced sockets and clients, losses and restarts around tool
\* calls.
SPECIFICATION FairSpec
CONSTANTS
  d1 = d1
  d2 = d2
  k1 = k1
  k2 = k2
  k3 = k3
  Devices = {d1, d2}
  Clients = {k1, k2, k3}
  Device <- MCDevice
  Calls = {c1}
  Sockets = {s1, s2}
  None = None
  Target <- MCTarget
  MaxFaults = 2
INVARIANTS TypeOK OneOpenSocket ConnectedIsServed
PROPERTIES ImplementsRemoteCall Settles CallsEnd
CHECK_DEADLOCK FALSE
