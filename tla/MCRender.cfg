SPECIFICATION RenderSpec
CONSTANTS
  Triangle <- MCTriangle
  TILE_WIDTH = 2
  TILE_HEIGHT = 4
  TilesX = 2
  TilesY = 2
  TileDepth = 2
  LineDepth = 5
  MaxTriangles = 3
  DATA_WIDTH = 8
  FRAC_WIDTH = 4
  SX_WIDTH = 10
  SCREEN_W = 60
  Place <- MCPlace
  Line <- MCLine
  MarkerLine <- MCMarkerLine
  MaxDraws <- MCMaxDraws
  MarkerLines = 2
  ReadDepth = 2
  ZDepth = 3
  MaskDepth = 2
  MetaDepth = 3
  DataDepth = 2
  ColorDepth = 3
  MaxOwed = 2
INVARIANTS LanesInStep CompletionMeansWritten FrameMatchesUnlessEarly SendsTheTriangles FramesDrawn
PROPERTY StretchesFinish
