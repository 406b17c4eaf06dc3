SPECIFICATION FairSpec
CONSTANTS
  AppLists = {browser, game}
  NoApps = none
  Faults <- SeenFaults
INVARIANTS HoldSpansConnect 
PROPERTIES ReconnectFailsClosed  NeverLosesXray DeadTunnelNoticed
