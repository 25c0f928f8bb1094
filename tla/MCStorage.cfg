SPECIFICATION StorageSpec
CONSTANTS
  a1 = a1
  a2 = a2
  b1 = b1
  b2 = b2
  main = main
  p = p
  q = q
  Main = main
  Agents = {p, q}
  Tools = {p, q}
  Home <- HomeOfTool
  MaxSubs = 1
  MaxEvents = 5
  Clients = {a1, a2}
  Gens = {b1, b2}
  MaxLog = 2
  MaxCatchup = 1
  MaxCrashes = 1
  Importers = {a1, a2}
  MaxLines = 3
  MaxStops = 1
  Threads <- SampleThreads
  MaxFaults = 1
  Messages = {m}
  root = root
  fork = fork
  m = m
  big = big
  state = state
  Runs = {root, fork}
  Root = root
  Procs = {a1, a2}
  Readers = {q}
  Events = {m, big, state}
  Content = {m, big}
  Replay = {m, big}
  Big = {big}
  Oversized = {big}
  MapLimit = 1
  NoProc = NoProc
  NoEvent = NoEvent
  NoRun = NoRun
  IndexRuns = {a1}
  MaxReports = 3
  MaxCost = 2
  MaxWrites = 1
  Files = {b1}
  ScanCalls = {a1, a2}
  MaxChanges = 2
  Pages = {a1, a2}
  MaxEnds = 1
  Writers = {a1, a2}
  Keys = {b1, b2}
  MaxCalls = 3
SYMMETRY Interchangeable
INVARIANTS
  TypesOK
  SeqsDense
  AckedDurable
  ShownDurable
  ReadsComplete
  PublishedStays
  FilesKept
  TakenExactly
  PromptAnswered
PROPERTY AppendOnly
CHECK_DEADLOCK FALSE
