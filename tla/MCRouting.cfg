SPECIFICATION Spec
CONSTANTS
  Servers = {s1, s2}
  MaxServers = 2
  Ifaces = {eth, wlan}
  HostV6 = TRUE
  MaxRefresh = 2
INVARIANTS NoLoop  DownIsClean 
