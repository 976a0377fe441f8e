SPECIFICATION Spec
CONSTANTS
  Hour = 2
  MaxMillis = 6
  ValidSites = {"https://s"}
  Profile = "p"
  Offers <- OneOffer
  MaxLeases = 2
  MaxWebsites = 1
  Failures = {}
  MaxClock = 1
  MaxSaves = 2
  MaxCrashes = 1
  MaxDamages = 1
  MaxSetbacks = 0
  MaxMisreads = 0
  None = None
PROPERTIES
  NothingResurrected
