SPECIFICATION ServicesSpec
CONSTANTS
  a1 = a1
  a2 = a2
  b1 = b1
  b2 = b2
  Ops = {a1, a2}
  Actors = {b1, b2}
  MaxRestarts = 1
  Root = root
  Children = {a1, a2}
  Reqs = {b1, b2}
  MaxThreads = 2
  MaxPerThread = 2
  MaxBytes = 3
  Sizes = {2, 4}
  MaxTickets = 2
  main = main
  p = p
  q = q
  u = u
  Values = {a1, a2}
  MaxTurns = 2
  MaxActs = 1
  MaxUpdates = 2
  MaxProcs = 2
  MaxRefusals = 1
  Sends = {a1, a2}
  MaxStops = 1
  MaxUpsets = 1
  Viewers = {a1, a2}
  Words = {m}
  Uses = {p, q, u}
  Top = main
  Parent <- ParentOfUse
  MaxSays = 2
  MaxMishaps = 1
  Chats = {a1, a2}
  Fresh = {b1}
  MaxLog = 3
  MaxOps = 2
  Callers = {a1}
  Asked = {10, 11}
  MaxServers = 2
  MaxRefused = 1
  MaxFaults = 1
  MaxRuns = 3
  MaxSessions = 3
  MaxQuestions = 2
  MaxLines = 1
  Gated = {info, plugin}
  Passing = {chat}
  Ungated = {side}
  MaxExpired = 2
  info = info
  plugin = plugin
  chat = chat
  side = side
  Presets = {p}
  Keyless = {q}
  Custom = {u}
  DefaultModels = {q}
  MaxEdits = 1
SYMMETRY Interchangeable
INVARIANTS
  TypesOK
  CliAccounted
  StatusHonest
  StopDelivered
  CodexTrue
  PipeTrue
  TimelineTrue
  LaunchesTrue
CHECK_DEADLOCK FALSE
