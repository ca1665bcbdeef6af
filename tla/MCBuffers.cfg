SPECIFICATION BuffersSpec
CONSTANTS
  Item = {a, b}
  Depth = 3
  Idx = {0, 1}
  Tag = {0, 1}
  Lanes = {0, 1}
  Val = {"z", "1", "g", "j"}
  Zero = "z"
  Junk = "j"
  Blocks <- CacheBlocks
  Writes <- CacheWrites
  InitialMem <- CacheMem
INVARIANTS PointersAgree NeitherSideOptimistic ReadsLastWrite NoWriteLost
PROPERTIES ImplementsChannel PortsAsModelled AsyncImplementsChannel PointersCatchUp RequestAnswered
