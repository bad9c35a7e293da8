CONSTANTS
  c1 = c1
  c2 = c2
  c3 = c3
  p1 = p1
  p2 = p2
  m1 = m1
  own = own
  archive = archive
  None = None
  Procs = {p1, p2}
  Callers = {c1, c2, c3}
  Cancellable = {c1}
  ProcOf <- MCProcOf
  Models = {m1}
  FilesOf <- MCFilesOf
  Shared = {archive}
  Caches <- MCCaches
SPECIFICATION TwoCallsSpec
INVARIANTS LifecycleTypeOK FilesAreProtected
PROPERTIES SuccessIsTrue EveryCallReturns
CONSTRAINT TwoAtOnce
CHECK_DEADLOCK FALSE
