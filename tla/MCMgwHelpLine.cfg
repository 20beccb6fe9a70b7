SPECIFICATION MgwHelpSpec
CONSTANTS
  h1 = h1
  h2 = h2
  Handle <- MCHandle
  Base = {3, 6}
  Size = 3
  Image <- MCImage
  Link <- MCLink
  DebugInfo <- MCDebugInfo
  Lines <- MCLines
  BadTable <- MCBadTable
  Tables <- MCTables
  Layouts <- MCLayouts
  FramePcs = {4, 6, 8, 47789}
  Word = 2
  InsideWine = FALSE
  Faults = TRUE
INVARIANTS LineOfAddress
