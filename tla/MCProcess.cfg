SPECIFICATION ProcessSpec
CONSTANTS
  Harnesses = {h1, h2, h3}
  a1 = a1
  a2 = a2
  Configs = {}
  Sessions <- MCSessions
  Interactions = {x, y}
  OldSession = OldSession
  HandOver = "quiet"
  Empty = Empty
  Torn = Torn
  DefaultListen = a1
  Languages = {"en-US", "en-GB"}
  Catalogues = {"en-US"}
  Truthy = {" YES "}
  Running = Running
  Nothing = Nothing
SYMMETRY HarnessSymmetry
INVARIANTS
  AckedInteractionsStay
  ReplayServesAPrefix
  RunsWhatWasAsked
  ExitStatusTellsTheTruth
PROPERTY CassetteOnlyGrows
CHECK_DEADLOCK FALSE
