CONSTANTS
  u1 = u1
  u2 = u2
  v1 = v1
  a = a
  b = b
  c1 = c1
  c2 = c2
  Urls = {u1}
  Private = {u1}
  Versions = {v1}
  NoTag = NoTag
  None = None
  Tabs = {a}
  SlotsPerUrl = 2
  MaxGen = 1
  HasLocks = TRUE
  Callers = {c1, c2}
  Length <- MCLength
  Manifest <- RegistryManifest
  StaleFiles <- NoStaleFiles
  CallerTab <- OneTab
  Place <- PrivateFirst
SPECIFICATION FairManagerSpec
PROPERTIES TransferSpec CallsSettle
