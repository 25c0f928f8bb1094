SPECIFICATION ReadingSpec
CONSTANTS
  RunKinds = {"claude", "imported", "resumed", "pipe", "appServer"}
  Amounts = {0, 1, 9, 10}
  MaxTurns = 3
  MaxStarts = 3
  MaxReports = 3
  A1 = A1  A2 = A2  T = T  M = M
  Main = Main
  Agents = {A1, A2}
  Tools = {A1, A2, T}
  Home <- HomeOf
  Messages = {M}
  MaxSubs = 1
  PageEntries = 3
  PageBytes = 4
  EntryBytes = 2
  Weight <- Weights
  Inline = 1
  MaxOpen = 2
  Events <- PageEvents
  MaxEvents = 4
  Documents <- LongDocuments
  Pieces <- PieceTable
  Identity <- IdentityKeys
  Field <- FieldKey
  ParseLimit = 30
  ScalarLimit = 8
  EntryLimit = 16
  Attachments <- AttachmentsKey
  MaxNesting = 4
  Buffered = 2
INVARIANTS
  TypesOK UsageTrue PagesTrue LineWhole ScansTrue
CHECK_DEADLOCK FALSE
