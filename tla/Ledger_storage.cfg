SPECIFICATION Spec
CONSTANTS
  Hour = 2
  MaxMillis = 6
  ValidSites = {"https://s"}
  Profile = "p"
  Offers <- DurableOffers
  MaxLeases = 1
  MaxWebsites = 1
  Failures = {"read", "write", "backup", "remove", "rename", "rollback"}
  MaxClock = 3
  MaxSaves = 3
  MaxCrashes = 2
  MaxDamages = 1
  MaxSetbacks = 1
  MaxMisreads = 1
  None = None
INVARIANTS
  FilesAreSound
PROPERTIES
  SaveIsAtomic
