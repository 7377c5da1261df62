SPECIFICATION ProgramSpec
CONSTANTS
  BatchSize <- BatchSizes
  MaxDepth = 4
  CallsYield = TRUE
  Exception = {"e"}
  MaxNesting = 3
  MaxHandlers = 2
  Jumps = {"break", "continue", "return"}
  JumpsAreFollowed = FALSE
  Modules = {"p", "p.m", "p.n"}
  ParentOf <- Packages
  ThreadId = {1, 2}
  MaxObjects = 4
  GeneratorBodies <- ShortBodies
  Delegate = 2
  MaxAsked = 5
  Threads = 2
  Destinations <- Ends
  Times = {0, 5, 7, 9}
  Curves = {"linear", "ease-in-out"}
  MaxGlides = 2
  Unit = 20736
  Key = {"s", "1", "1.0", "2"}
  Same <- EqualKeys
  KeyHash <- Hashes
  Strings = {"s"}
  DictValue = {"v", "w"}
  MaxVersion = 4
  MaxItems = 3
  CachedKey = {"i", "j", "k"}
  MaxSize = 2
  MaxCalls = 3
  DequeItem = {"a", "b"}
  NoMaxLen = 99
  MaxLens = {99, 0, 2, 3}
  MaxDequeItems = 5
  Casts <- Players
  StemOf <- Stems
  ImageSize <- Images
  DrawnAt <- Corners
  DrawnSizes = {1, 2}
INVARIANTS IterationsWithinBatch HandlersStay ModulesRunOnce GeneratorsGoOn DictsKeepItems
  DequesAreSequences CacheKeepsRecent ProgramsRunAsWritten
PROPERTIES LoopsReachNextFrame GlidesArrive
\* A call may return, and a list be sorted, for good.
CHECK_DEADLOCK FALSE
