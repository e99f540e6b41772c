SPECIFICATION ScannerSpec
CONSTANTS
  u1 = u1
  u2 = u2
  NoUsage = NoUsage
  Usages = {u1, u2}
  whole = whole
  head = head
  tail = tail
  Parts = {whole, head, tail}
  pieces <- MCPieces
  Chunks <- MCChunks
  MaxEventBuffer = 4
  MaxFed = 8
INVARIANTS
  ScannerTypeOK
  ChunkingIrrelevant
  BufferBounded
CHECK_DEADLOCK FALSE
