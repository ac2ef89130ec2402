\* Token conversion, UPSERT parsing, LIVE registration and the export
\* pipeline of ExportFile and ExportBytes, each in its own behaviours.
CONSTANTS
  PayloadKeys <- MCPayloadKeys
  JsonValues <- MCJsonValues
  RoundTripFails <- MCRoundTripFails
  None = None
  MaxTokens = 4
  Writers = {w1, w2}
  Readers = {r1, r2}
  Absent = Absent
  NoEntry = NoEntry
  MaxChunks = 3
  PipeCap = 1
  OutCap = 1
  Sinks = {"file", "bytes"}
  Sources = {"db"}
  NoChunk = NoChunk
SPECIFICATION Spec
INVARIANT TokenObjectReflectsPayload TypeOK LiveKeysPaired
INVARIANT FileExportComplete StreamCompleteUnlessError
PROPERTY FileExportAnswers
