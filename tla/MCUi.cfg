SPECIFICATION Spec
CONSTANTS
  MaxActs <- MCMaxActs
  MaxRare <- MCMaxRare
  Bases = {1, 2}
  CardTrees <- MCCardTrees
  Nothing = Nothing
  Folder = Folder
  Blocks = {1, 2, 3}
  MaxEntries = 3
  MaxDepth = 4
  MaxCopies = 2
  Languages = 3
  Themes = 3
  CustomColors <- MCCustomColors
  Palettes <- MCPalettes
  Levels = {0, 100}
  Rates <- MCRates
  Taps <- MCTaps
  Handles = {1, 2}
  Overhangs = {0, 30, 60}
  Places = {100, 200, 240}
  Games = {0, 4}
  RowHeight = 30
  VisibleRows = 2
  Visited <- MCVisited
INVARIANTS TypeOK PasteIsWhole AskedIsDone EditorUndone RestartKeeps MotorStops ControlsTrue
CHECK_DEADLOCK FALSE
