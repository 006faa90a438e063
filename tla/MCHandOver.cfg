SPECIFICATION Spec
CONSTANTS
  Harnesses = {h1, h2}
  a1 = a1
  a2 = a2
  Configs <- SmallConfigs
  Interactions = {x, y}
  OldSession = OldSession
  HandOver = "afterShutdown"
  Empty = Empty
  Torn = Torn
PROPERTY CassetteOnlyGrows
CHECK_DEADLOCK FALSE
