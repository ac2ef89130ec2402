SPECIFICATION ExportSpec
CONSTANTS
  MaxChunks = 3
  PipeCap = 1
  OutCap = 1
  Sinks = {"bytes"}
  Sources = {"db"}
  NoChunk = NoChunk
PROPERTY ExportEnds
