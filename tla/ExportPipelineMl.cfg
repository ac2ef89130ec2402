\* ExportMl to a file: a read of the model's byte stream fails mid-way.
CONSTANTS
  MaxChunks = 2
  PipeCap = 1
  OutCap = 1
  Sinks = {"file"}
  Sources = {"ml"}
  NoChunk = NoChunk
SPECIFICATION ExportSpec
INVARIANT FileExportComplete
