CONSTANTS
  Clients = {c1, c2}
  Servers <- MCServers
  Tunnels <- MCTunnels
  LowerOf <- MCLowerOf
  ValidLabels <- MCValidLabels
  Generated <- MCGenerated
  Ephemeral = {50000}
  LoopbackNames <- MCLoopbackNames
  V6Names <- MCV6Names
SPECIFICATION Spec
INVARIANTS TypeOK HttpReaches TcpReaches RedirectsLand
