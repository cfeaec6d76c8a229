SPECIFICATION Spec
CONSTANTS
  WordBloq = 3
  Junk = 170
  Small = {0, 1, 2, 3, 8, 127, 128, 255, 256, 300}
  Wide = {0, 1, 2, 5, 128, 255, 256, 4097, 65535, 65536, 131073, 16777216}
  Bloqs = {0, 1, 2, 3, 4}
  Steps = {0, 1, 2, 3, 5, 7, 9, 17}
  Elements = {1, 2, 6, 9}
  Keys = {1, 2, 3, 4}
  Values = {1, 2}
  Tables <- MCTables
  ByteBits = 3
  LogBytes = 32
  MinPut = 5
  MaxPut = 7
  Lens = {0, 1, 4, 7}
  Vals = {0, 5, 13}
  MaxOver = 4
  Longs = {94, 95, 96, 97, 98, 99, 101, 102, 104}
  FibA = 3
  FibB = 2
  Loom = 30
  Dot = 10
  OneLead = 8
  AnyLead = 4
  Packs <- MCPacks
  Garbles <- MCGarbles
  BitStrings <- MCBitStrings
  Texts <- MCTexts
  Byte = 5
  Fuel = 40
  Calls <- MCCalls
  RootBits = 1
  NodeBits = 2
  Depth = 2
  Mug <- MCMug
  Limits = {0, 2}
  MaxPuts = 4
INVARIANTS JetsMatchArms TreesAreCanonical StreamsKeepBits CodecsAgree NockAgrees TablesAreMaps
