SPECIFICATION Spec
CONSTANTS
  en = en
  de = de
  t1 = t1
  Locales = {en, de}
  Default = en
  Plain = Plain
  None = None
  Targets = {t1}
  Definitions <- SomeDefinitions
  MaxWrites = 2
  MaxStarts = 2
  Files = {1, 2}
  Commands = {c1, c2}
  MaxCommands = 4
  MaxSteps = 2
  MaxEdits = 1
  MaxClock = 2
  x = x
  y = y
  d1 = d1
  d2 = d2
  Docs = {d1, d2}
  Values = {x, y}
  NullText = NullText
  Null = Null
  Absent = Absent
  Unsent = Unsent
  Empty = Empty
  JsonNull = JsonNull
  Fields <- SomeFields
  MaxEntries = 3
SYMMETRY Symmetric
INVARIANTS
  LanguagesApart
  ReadsBack
  WritesServed
  SearchCurrent
  RecordsTellEffects
  RulesKept
PROPERTY
  ImportKeeps
CHECK_DEADLOCK FALSE
