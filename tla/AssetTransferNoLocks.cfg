CONSTANTS
  u1 = u1
  u2 = u2
  v1 = v1
  v2 = v2
  Urls = {u1}
  Private = {u1}
  Versions = {v1, v2}
  NoTag = NoTag
  None = None
  Tabs = {a, b}
  SlotsPerUrl = 1
  MaxGen = 1
  HasLocks = FALSE
  Length <- MCLength
  Manifest <- MCManifest
  StaleFiles <- NoStaleFiles
SPECIFICATION TransferSpec
INVARIANT CompleteIsIntact
