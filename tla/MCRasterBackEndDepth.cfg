SPECIFICATION BackSpec
CONSTANTS
  Place <- MCPlace
  Line <- MCLine
  MarkerLine <- MCMarkerLine
  MaxDraws <- MCMaxDraws
  MarkerLines = 2
  ReadDepth = 2
  ZDepth = 3
  MaskDepth = 2
  MetaDepth = 3
  DataDepth = 2
  ColorDepth = 3
  MaxOwed = 2
INVARIANT NearerIsSeen
