SPECIFICATION Spec
CONSTANTS
  Ids = {1, 2, 3, 4}
  Values <- SomeValues
  Limit = 2
  MaxWrites = 2
  a = a
  b = b
  c = c
  Docs = {a, b, c}
  Order <- OrderOfQuery
  Missing = Missing
  Nothing = Nothing
  Schemas <- SomeSchemas
  Links <- SomeLinks
  MaxDepth = 3
  MaxReads = 2
  Places <- SomePlaces
  Targets = {t}
  Unset = Unset
  MaxPages = 1
INVARIANTS
  PagesExact
  DepthKept
  NothingLeftOut
  ListsAgree
  KeptAsWritten
  ReferencesKnown
CHECK_DEADLOCK FALSE
