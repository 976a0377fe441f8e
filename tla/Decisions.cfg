SPECIFICATION CaseSpec
CONSTANTS
  MaxTotal = 5
  MaxLimit = 3
  Etags = {e1, e2}
  Policies <- SomePolicies
  Latest = 3
  Sizes <- SomeSizes
  Chunks = {7, 64}
  MaxEntries = 2
  MaxEntryBytes = 2
  MaxTotalBytes = 3
  MaxManifest = 1
  Packages <- SomePackages
  Payloads <- SomePayloads
  Seals <- SomeSeals
  Texts <- SomeTexts
  Subsystems = {"sync", "search"}
  Reports <- SomeReports
INVARIANTS
  PlanPartitions
  MediaIsGuarded
  FindingStands
  DigestIsStandard
  PackageIsSound
  SignatureIsOfOnePackage
  ReadinessIsTheWorst
PROPERTIES
  ResumeKeepsProgress
CHECK_DEADLOCK FALSE
