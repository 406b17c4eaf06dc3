SPECIFICATION Spec
CONSTANTS
  Catalogue <- ThreeServers
  Urls = {"u1", "u2"}
  None = none
  Offers <- SomeOffers
  MaxManual = 1
  OldStores <- SomeOldStores
PROPERTIES  BroughtBack OthersUntouched
