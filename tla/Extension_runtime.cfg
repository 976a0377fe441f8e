SPECIFICATION Spec
CONSTANTS
  Hour = 1
  MaxMillis = 6
  ValidSites = {"https://s"}
  Direct = {i1}
  Brokered = {i2, i3}
  Identities <- MCIdentities
  Manifests <- MCManifests
  Offers <- MCOffers
  Places <- MCPlaces
  Opens <- MCOpens
  Pids = {p1}
  TokenLife = 1
  MaxLedger = 2
  MaxSessions = 2
  MaxTokens = 2
  MaxClock = 2
  None = None
SYMMETRY BrokeredSymmetry
INVARIANTS
  LiveTokenRuns
  OnceIsOnce
  RevocationBitesSoon
  BrokerAgrees
PROPERTIES
  TerminationIsFinal
