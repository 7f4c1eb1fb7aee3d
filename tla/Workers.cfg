SPECIFICATION FairSpec
CONSTANTS
  Hosts = {h1, h2}
  MaxFound = 2
  MaxKept = 1
INVARIANTS NoLostThread ShieldMeansBlocked ScanResult DetailIsSorted
PROPERTIES EverythingEnds
CHECK_DEADLOCK FALSE
