SPECIFICATION FairSpec
CONSTANTS
  Procs = {p1, p2}
  NoProc = none
  Apps = {browser, sandbox}
  ById = {sandbox}
  Off = off
  MaxOwned = 1
 
PROPERTIES OldRulesAreDead ListedBypasses
