SPECIFICATION Spec
CONSTANTS
  None = None
  DefaultTags <- MCDefaultTags
  Port = 3000
  MaxServerIps = 2
  Offers <- MCOffers
INVARIANTS
  HeldIsTight
  DnsThroughTunnel
  GeneratedIsAccepted
  
  
  DialsEscape
  
