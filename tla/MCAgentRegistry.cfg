CONSTANTS
  h1 = h1
  h2 = h2
  Ids <- MCIds
  PrimaryId = 2
  NoId = NoId
  Handlers <- MCHandlers
  Main = Main
  NoThread = NoThread
  Resolvers <- NoResolvers
  MaxClock = 1
SPECIFICATION Spec
INVARIANT ListShowsOnePrimary
PROPERTY ImplementsDirectory
