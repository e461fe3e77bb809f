CONSTANTS
  h1 = h1
  h2 = h2
  Ids <- PairIds
  PrimaryId = 2
  NoId = NoId
  Handlers <- MCHandlers
  Main = Main
  NoThread = NoThread
  Resolvers <- MCHandlers
  MaxClock = 0
SPECIFICATION Spec
INVARIANT FreshSandbox
PROPERTY LastAgentStays
